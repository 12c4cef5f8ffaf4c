# Agenvoy in TLA+

This directory holds TLA+ models of Agenvoy, a local Go agent runtime (`src/`), the TLC
configurations that check them on small instances, and theorems about them that the TLA+ proof
system checks for every instance.  Everything is translated from the Go source; the documents
under `src/doc/` are quoted where a property states what they promise.

All paths below are relative to `src/internal/` unless they start with `src/`, `doc/` or `cmd/`.

## 1. The system

One daemon runs every agent.  A terminal UI, a browser dashboard, Telegram, Discord and LINE are
its clients, over a Unix socket, HTTP or the services' libraries.  A request belongs to a
*session*; it becomes a *task* that passes the session's gate, runs a loop of model calls and
tool calls, may ask its user to confirm a tool or to answer questions, may be steered, cancelled
or paused meanwhile, and may be continued later from a file by another process.

The goroutines of one daemon share memory under several small locks that are never held across
calls of each other's packages, and share files under one lock at most.  What is hard about this code is
therefore nearly always a *window*: something is read under a lock, the lock is released, and the
decision is carried out later.

### 1.1 Inventory

| Component | Where | State it keeps | Operations | Talks to |
|---|---|---|---|---|
| Pending-prompt broker | `runtime/pending.go` | `entries` (prompts that wait), `listeners`, one retained signal per listener | `Ask`, `AskUser`, `PickNextMatch`, `Resolve`, `DropTask`, `RegisterListenerMatch`, `HasListener`, `EntryExists` | requesters in `agents/exec/toolCall.go` and `tools/interactive`, listeners of every front-end |
| Prompt listener ("Connector") | `runtime/listener.go` | `cur` (prompt shown per chat), `wakeup` | `loop`, `emit`, `sendPrompt`, `OnCallback`, `OnText`, `advance`, `finalize`, `Stop` | the broker, the chat API |
| Session gate | `session/concurrent.go`, `session/session.go`, `agents/exec/steerWait.go`, `run.go` | tokens per session, claims of temp- sessions, running counters, steer lists | `AddConcurrent`, `RemoveConcurrent`, `ClaimIdle`, `FindTemp`, `markRunning`, `AppendSteer`, `getSteer`, `ClearSteer` | `/v1/send`, subagents, the execution loop |
| Pending task and resume | `tools/interactive/askUser.go`, `online.go`, `writeTodo.go`, `agents/exec/execute.go`, `cancel.go`, `runtime/resume.go` | `pending/<hash>.json`, the online marker, `cancelFnMap`, the row in `action_history` | `AppendToolResult`, `SaveAndEnqueue`, `LoadResumeMessage`, `CleanupPending`, `DeletePending`, `KeepOnline`, `Cancel` | broker (question), gate (a resumed run) |
| Execution loop | `agents/exec/execute.go`, `retryHandler`, `agents/exec/model`, `agents/exec/compact` | turn, retry and fallback counters, the models left to try, histories | `Execute`, `streamSend`, `retryHandler`, `CompactToolHistory`, `TrimFallback`, `RawToolFallback` | everything above, model providers |
| Tool batches | `agents/exec/toolCall.go`, `tools/file` | results of identical calls, tools whose schema is not known yet, the time each file was read | `toolCall`, `runToolExec`, `requireFresh`, `MarkRead` | broker (confirmations), pending task, the file system |
| Event stream | `runtime/pubsub`, `agents/exec/stream.go`, `session/log`, `runtime/routes/handler/multilog.go` | subscribers per session, buffers, drop counters, `action.log` | `Sub`, `Pub`, `Wrap`, `Close`, the fan-out goroutine of `Execute` | runs publish, clients subscribe |
| Subagents | `agents/exec/subagent` | a semaphore of three legs | `Exec`, `ensureSession`, `waitResume` | gate, event stream, pending task |
| IPC | `runtime/ipc` | connections, prompts shown per connection | `serve`, `reply`, `run`, `resolveAll` | broker, runs |
| Web confirmations and HTTP | `runtime/routes` | `outstanding` confirmations | `ResolveToolConfirm`, `emitWebConfirms`, resume and cancel handlers | broker, pending task, gate |
| Scheduler | `runtime/scheduler.go`, `task.go`, `cron.go` | timers, cron ids, `tasks.json`, `crons.json` | `reload`, timers, `AppendTask`, `RemoveTask`, `PatchTask`, the watcher | subagents |
| MCP clients | `runtime/mcp` | clients, last errors, tool signatures | `Reconnect`, `ReconnectServer`, `Disconnect`, `refresh`, `Call`, `poll` | tool registry |
| Daemon wiring | `app`, `runtime/runtime.go`, `runtime/daemon`, `cmd/app` | pid file, the bots and the configuration they were started with | start order, `WatchConfig`, `ReloadTelegram` and its retries | all |
| File history | `runtime/store`, `filesystem/record` | versions per path, 32 kept | record, restore, prune | file tools |
| Session storage and cleaning | `session/*` | directories and rows of a session | `Clean`, configuration, usage | gate |
| Providers, model routing, compaction, memory, tools, sandbox, UI, assets | the rest | see `PROJECT.json` | | |

`PROJECT.json` lists each with its sources, its status and the reason when it is not modelled.

### 1.2 How the modelled parts interact

* A tool call that needs a confirmation calls `Ask` and blocks; `ask_user` in a chat calls
  `AskUser` from a goroutine and returns, while the run ends.  Both put an entry in the broker
  and signal every listener whose origin fits.
* A listener (a chat connector, an IPC connection or the web listener) scans with
  `PickNextMatch`, which claims one entry under the lock, shows it, and later calls `Resolve`.
* `Resolve` removes the entry and hands the reply either to the blocked `Ask`, or to a callback
  which resumes the task through `LoadResumeMessage` and a new run.
* Every run passes the gate of its session and carries its task's marker, its cancel function
  and its file from there on.
* Inside, the loop sends requests, hands each reply's calls to a tool batch, takes steers from
  the session's list, and emits events.
* Events pass a fan-out goroutine, which records them in `action.log`, and a wrapper, which
  publishes them, before the caller reads them; each stage can hold up the one before it.
* The scheduler starts runs of its own.  It learns of changes only through the file system, from
  tools, HTTP routes and its own callbacks alike.
* MCP servers lend tools to the loop; the manager changes the registry of tools while batches
  use it.

### 1.3 What makes each part correct

* Broker: a prompt is put before one user; it is answered at most once, never after it was
  dropped; a listener is never asleep over a prompt it would take.
* Connector: a chat shows one prompt at a time; a chat that becomes free is served; answers
  arrive one per question, in the order of the questions.
* Gate: tokens are exactly those of the runs inside; an idle claim is of an idle session; a
  session is not "running" for ever; a steer reaches one run once, or is lost only through
  `ClearSteer`; a queued task gets in.
* Pending task: the file leaves only when the task is archived or discarded; a question on disk
  carries every result of the run that asked it; what is on disk survives crashes; a live task
  is not offered; a live task can be cancelled; a task left behind is offered again.
* Loop: a request never has a tool call without its result or a result without its call; one
  refused for its length is shorter when it is sent again; a provider that has failed is left;
  one end is told.
* Tool batch: nothing runs before the user has answered for the batch; an edit destroys nothing
  the model has not seen.
* Event stream: the log is complete and ahead of what subscribers see; a failure is always told;
  a run leaves, although readers stall.
* Scheduler: what is armed is what the file says, once the watcher has caught up; a due task fires.
* MCP clients: models are offered the tools of connected servers, all of them, and no others; a
  removed server stays removed.

The hazards of `PROJECT.json` are the concrete places in the code behind these sentences, with
the properties that watch them, and those that no model reaches yet.

## 2. The modules

| Module | Models | How |
|---|---|---|
| `PromptLifecycle` | nothing of the code: the abstract specification | A prompt goes none, open, claimed, then answered once or withdrawn. |
| `PendingBroker` | `runtime/pending.go` and what requesters and listeners do around it | One action per critical section, refines `PromptLifecycle`. |
| `Connector` | `runtime/listener.go` over the broker's registry | Loop, handlers and environment interleave; refines `PromptLifecycle` too, so what a requester sees of the broker is not changed by the front-end on top of it. |
| `SessionGate` | slots, claims, running counter, steers | One action per lock or channel operation. |
| `PendingTask` | one task's file, marker, cancel function and question over several attempts | One action per read, write, deferred call. |
| `RunMessages` | the messages of a run and what shortens them | Operators on sequences of messages. |
| `ExecLoop` | the loop of `Execute`, over `RunMessages` | One sequential process; every outcome of a request is a choice. |
| `ToolBatch` | a reply's tool calls and what the file tools know of a file | Vetting in order, then goroutines and a serial line side by side with writers from outside. |
| `EventStream` | the goroutines and channels from `Execute` to the reader | One action per send, receive, close or grace that runs out. |
| `Scheduler` | timers, watcher, `tasks.json` and `crons.json` | Read, change and write of the file are steps; the watcher's events are counted. |
| `McpManager` | the clients of MCP servers and their tools | One action per critical section of `m.mu`, one per conversation with a server. |
| `MC*` | constants of the instances | |
| `*Proofs` | theorems | see section 5; `DaemonProofs` has those about `McpManager` and `Scheduler` |

`PendingBroker` and `Connector` are composed: the second has the first's registry in it.  The others
meet at narrow places, each of which one of the two modules has as a choice.  `ToolBatch` ends in "paused" or
"cancelled" where `PendingTask` goes on; `ExecLoop` takes its batches as one step that
succeeds, fails or pauses; `SessionGate` gives `ExecLoop` its steers.

### 2.1 State and actions against the code

`PROJECT.json` "map" names the lines of every definition.  The correspondences that need a word:

**PendingBroker.** `entries` and `claimed` are the map `entries` and the field `claimed`, `stamp`
the `createdAt` that decides which entry a scan takes; `asker` is where a requester stands
in `Ask` or `AskUser`, `lpc` where a listener's loop stands; `replyCh` is the channel of capacity
one an `Ask` waits on, `inflight` the goroutines that run callbacks; `notify` the channel of
capacity one.  `Async` requests are those with a callback.  A listener is any of the three kinds;
`hand` is what it has claimed and not yet shown.

**Connector.** `cur[c]` is the prompt `l.cur` holds for chat `c`; the fields of `active` that
matter are `sel` (the current question), `ans`, `msg` (the message on which an answer is
expected).  `sent` are the messages really sent, `asked` what they asked.  A handler `h` is one
goroutine that handles an update; `ev[h]` is the press or text it brings, with the question the
user was looking at, which the code does not have: it is a history variable for
`AnswersInOrder`.

**SessionGate.** `slots[s]` is `len(concurrentSlots[s])`, `claimed` is `concurrentMap`.
`runMap`, `ent`, `count` and `last` are the `sync.Map` of `*runningEntry`, the pointer a run holds, the counter in
it, and the decision `done`: entries are named by the request that created them, because an entry
outlives its place in the map and that is exactly what the code gets wrong.  `steerMap`, `note`,
`list` do the same for steers; `inbox` are the steers a run has injected.  `pc` of a request goes
from the decision of `/v1/send` or `FindTemp` through the queue to the deferred calls.

**PendingTask.** `disk` is the file; `archive` the row `CleanupPending` writes; `mem`
`sessionData.ToolResults`; `appends` the `AppendToolResult` calls under way; `copy` what
`LoadResumeMessage`, `SaveAndEnqueue` or the cleanup has read and not yet acted on; `hand` is
`askUserInBackground` with the prompt it opens; `sweep` is a `CleanupPending` under way; `fn` is
the value of `cancelFnMap` under the task's hash; `marker` and `beat` are the key with its TTL
and the goroutine that refreshes it.  A crash empties everything that is not on disk.

**RunMessages, ExecLoop.** A message has a role, the turn it belongs to, the kinds of its calls
(a plan of `write_todo`, or other work) and the steers it carries.  `old` is what is left of
`ContextHistories`, `hist` is `ToolHistories`, `raw` is `RawHistories`.  `pool` and `round` are
`retryState.Agents` and `Round`; `asked` is a history variable, the models in the order in which the
run turned to them.  The counters `fails`, `timeouts`, `rates` and `empties` are those of the loop
and of `retryHandler`.  `full` stands for the comparison of `lastInputTokens` with the window of a
model, of which some are `Narrow`.  `ends` are the terminal events the run records itself or its
deferred function records for it.

**ToolBatch.** `slots` are the `toolSlot`s of a batch, `cache` is `alreadyCall`, `unmarked` the
tools of `UnmarkedTools`.  The file is seen through its versions: `disk` is the one that is there,
`mark` the modification time `MarkRead` stored.  `seen` and `advice` are history: what the model was
shown, and whether it followed the advice of a refusal.

**EventStream.** `fan`, `src`, `out` are the three channels of capacity 64, `held1` and `held2` the event a
goroutine holds between its receive and its send; `gaveUp` is history: the waits that ran into their
grace, `stopSend`'s, the fan-out's, the wrapper's.  A stalled reader is the only thing that
lets a grace pass, as the graces are seconds long.

**Scheduler.** `timers[e]` is the timer stored under the key of entry `e`; `shots` are the timers that may
still fire and the callbacks at work, which outlive their place in the map.  `copy` is what the reload
under way has read, `recent` that the last one is less than 200 ms ago.  `missed` is
history: the watcher has dropped an event, or was not there for it, since it last read.

**McpManager.** `job[a]` is where an actor is in `Reconnect`, `ReconnectServer`, `Disconnect`,
`renew`, `refresh` or `RegisterAll`, with the client it has in hand; `defs[s]` are the definitions the registry
holds for the server, a sequence because `RegisterAll` appends.  `disturbed`, `overtaken` and `gone` are history:
the interleavings which the properties name as their exceptions.

### 2.2 Abstractions

Texts, messages, arguments and results are model values; formatting, logging, truncation and the
rendering of a prompt are left out.  Timeouts are steps that may happen at any time; the TTL of the
marker may expire whenever nobody refreshes it.  Failures of a send, a lookup, a write of the
archive or a removal are choices.  The chat API, the users and ToriiDB are modelled from how the
code uses them and are marked `external` in the map.

Hypotheses are constants, so that the same model answers with and without them:

* `DoubleTaps` (Connector): whether two updates that concern one prompt are handled at once.
  The bots start a goroutine per update, so they may.  The run takes `FALSE`; with `TRUE` (and two
  handlers) `AnswersInOrder` is violated, see section 6.
* `TextsAreForOne` (Connector, hypothesis of `AnswersAreInOrder`): no chat is asked questions that want
  text by two prompts.  `OnText` takes a text for the question the chat is busy with
  (`runtime/listener.go:314-339`), so a text written for one prompt can be recorded for the next.  The
  run's instance satisfies it; TLC refutes `AnswersInOrder` without it even with `DoubleTaps = FALSE`.
* `Overlap` (PendingTask): whether an attempt of a task starts while another has still
  something to write.  Nothing in the code prevents it.  The run takes `FALSE`, and the properties about a
  live run, the results and the question are proved for `~Overlap`; with `TRUE` TLC finds a second
  resume and a lost cancel function.  `QuestionCarriesResults` and `RemovedOnlyWhenHandled` are
  proved for both.
* `StableLookups` (Connector, hypothesis of one theorem): a chat lookup does not fail and then
  succeed for the same session.
* `InWindow` (ToolBatch): whether somebody writes the file between an edit's write and the `Stat`
  after it (`tools/file/fresh.go:23-27`).  With `TRUE` `FreshIsSeen` is violated, since that write's time is
  marked as read; the run and the theorem take `FALSE`.

Exceptions that depend on what happened, not on the instance, are in the properties themselves: a
wait given up (EventStream), an event the watcher missed (Scheduler), a reconnect overtaken by a removal
(McpManager).

## 3. The runs

| Run | Question | Instance |
|---|---|---|
| `broker` | Safety of the registry and the refinement of `PromptLifecycle` | a confirmation and a chat question, two listeners that overlap, two `Resolve` per prompt |
| `connector` | Safety, refinement and liveness of the front-end | one chat, a two-question prompt (choice, text), a one-question prompt whose session has lost its chat, a confirmation, one handler |
| `session_gate` | Safety of the slots, claims, counters and steers | a leg, a resumed run, a send and a steer over two temp- sessions (one of them new), two slots each |
| `task` | Everything about the file, with a crash | two attempts of one tool call each, one crash |
| `task_cancel_kept` | finding: a cancel while a tool runs | two attempts, an inline question, no crash |
| `exec_loop` | Are requests well formed, do retries end, is one end told? | two models at one provider, one at another, one of each narrow; four iterations, one steer, one retry of each kind, two old messages |
| `tool_batch` | Confirmation before execution; edits only on what was seen | three batches of up to two calls among a read, two edits, a command and a question; two writes by others |
| `file_reread` | finding: the read that was advised changes nothing | three batches of one call, one write by others |
| `event_stream` | Order, completeness, ends, and that the run leaves | channels of one event, up to six events, two requests, both kinds of callers |
| `scheduler` | Do timers follow the file; does a due task fire? | one skill, two times, any initial files, one change, one crash |
| `scheduler_twice` | finding: a one-shot entry fires twice | the same without a crash, two firings |
| `mcp` | Clients and tools against reconnects, removals, renewals, polls | one server, the daemon's start, the poll, two more goroutines, two clients, one change of the catalog |

**Bounds and why they are enough.** `MaxResolves` = 2 allows the duplicate `Resolve`
(two windows answer one prompt, or an answer races a disconnect); a third meets the same missing entry.  Two
listeners are what overlapping needs; the theorems cover any number.  Three prompts for one chat
let one be shown, one wait and one fail; a prompt with two questions has a first, a next and a
last.  Four requests and two slots let the gate be free, partly full, full with a waiter; the
hazards of the counter need three requests at most (one leaves, one enters, one asks).  Two
attempts are an interrupted run and its resume; `MaxCalls` = 1 gives each attempt a result to lose,
and `MaxCrashes` = 1 puts the crash at every point of either attempt.

Four iterations give the three calls a compaction needs (it keeps the last of them) and one more
request that shows its outcome; three models give a move inside a provider and one
away from it.  Three batches are a read, an edit, and what comes of it; two calls per batch
are what it takes to run concurrently, and two foreign writes put one before and one after a read.  A
channel of one event is empty or full, so every wait of `EventStream` is reached; six events
are enough to fill all channels and both hands with a stalled reader and still hold one back.  In `Scheduler`
one change meets the callback, the reload and the start in every order.  In `McpManager` two
clients are one that is used and one that takes its place; the two goroutines with the poll make
three actors at one server, and the proofs have any number.

**Deadlock.** `mcp` is checked for deadlock: its poll never ends.  The other configurations say `CHECK_DEADLOCK FALSE`:
requests, prompts, attempts, events and iterations are finite in number, and when all are dealt
with the daemon idles.  That nobody waits on somebody who is gone is stated by the liveness
properties instead.

**Types.** The type invariant of every concrete module is proved (`TypeCorrect`, `ManagerTypes`), on the way with
the bounds that are not a matter of kinds: no channel overfull, no count negative, no message number beyond
those sent.  No run lists it, but for `SchedulerTypeOK`, which also says that a timer in the map is one that may still
fire or whose callback has just begun (`TimersAlive`).

## 4. Fairness

Weak fairness is given to goroutines that are runnable: the Go scheduler runs them, `time` delivers
its timers, and a call of a chat or model service returns, with an error if need be, because its
client has a timeout.

* `Connector`: the listener's loop, each handler, and an `Ask` whose reply is in its channel.
* `PendingTask`: the steps of an attempt that has begun, its deferred calls, its cleanup, the end
  of the refresh of the marker, and the marker's TTL.
* `EventStream`: `Execute`, the stream of a model's answer, the fan-out goroutine and the wrapper,
  for as long as the process has not panicked.  Not the reader: `RunLeaves` holds although it stalls.
* `Scheduler`: the clock, the start, the watcher and the callbacks.  Not the writers.
* `McpManager`: every actor that is inside an operation, and the poll, whose ticker comes again.
  `SF_vars(List(Poller))`: a server may fail any `tools/list`, but not those of the poll for ever.

Nothing is assumed of users, of contexts that may be cancelled, of crashes, of resumes, of notifications
or of shutdowns.  `PendingBroker`, `SessionGate`, `ExecLoop` and `ToolBatch` state no liveness and have no
fairness.

## 5. Theorems

Each proof module holds the theorems of one component.  The proofs have one case per action, as
`Next` has.

* **PendingBrokerProofs.** `TypeCorrect`, `ClaimedByOne`, `AnsweredOnce`, `WakeupNotLost`,
  `ClaimedForWaiting`: the invariants and the action property of the run `broker` for any number of
  requests and listeners.  The inductive invariant adds to each property where a reply can be:
  an entry in the map has no reply anywhere; one that has left it has at most one, in the channel, in
  flight or received; a claimed entry is held by exactly one listener.  `BrokerImplementsLifecycle`
  maps every step to a step of `PromptLifecycle` or to a stutter.  `FateIsFinal` is drawn from it: a step that
  is one of `PromptLifecycle` changes neither an answered nor a withdrawn prompt, nor the reply it had.
* **ConnectorProofs.** `FreeChatServed`: no lost wake-up over both channels.  `BusyChatKept`:
  under `StableLookups` a busy chat is never given a second prompt; the strengthening is that
  the chat of the prompt in the loop's hand is free from the claim to the end of the send, which
  holds although the lock was released, because only the loop makes a chat busy.
  `ConnectorImplementsLifecycle` maps every step to one of `PromptLifecycle`; it needs that a prompt that is
  in a hand, shown in a chat or with a handler is claimed (`PromptsClaimed`).  `AnswersAreInOrder`, under
  `~DoubleTaps` and `TextsAreForOne`: `OrderInv` says that the answers recorded for a prompt that waits for its
  user are those to its first questions, in order, and its last message asks the next one (`Ready`); that an event is
  about a message really sent; and that a prompt has at most one handler, which knows at each of its steps
  what it needs to go on (`Stage`).  `TypeCorrect` needs neither assumption: `Kinds` says that a handler that is at
  work has a prompt with a message in a chat (`InHand`) and that no message number is beyond those sent (`MessagesSent`).
* **SessionGateProofs.** `TypeCorrect`, `SlotsHeld` (a counting argument over
  finite sets of requests), `NotStuck`, `IdleClaims`, `SteeredAtMostOnce` and `SteersLost`.  For `NotStuck` three parts
  are added: `EntryHomes` (an entry belongs to one session), `CountsMatch` (its counter is the number
  of runs that count on it) and `EntriesAlive` (an entry still in the map is kept by a run that
  counts on it, or is about to, or is about to delete it).  The two about steers share `SteerInv`: a steer
  is at one place of one sequence at most, it is nowhere before it is appended, and the list it was
  appended to is the one its session's runs look at or was cleared.  `GateCaps` says what the channel is for, from
  the same invariant: no more runs inside than its capacity, nobody waits at a full channel but for a run inside,
  and `RemoveConcurrent`, whose receive has a default, always finds a token.
* **PendingTaskProofs.** `TypeCorrect`, `QuestionCarries`, `RemovedHandled` for every value of
  `Overlap`; `LiveExcluded`, `CancelFound`, `ResultsStay`, `QuestionStays` under `~Overlap`.  The
  first group needs that a copy that will be written back or archived has the
  results it must have; the second rests on `Serial`: at most one attempt is not at rest, the
  cancel function and the marker belong to it, and while a question is on disk nobody works.
* **ExecLoopProofs.** `ProvidersOnce`, `EndToldOnce`.  `ProvidersLeft` says that neither the model
  in use nor one that is left in the pool is at a provider the run has turned away from;
  `EndsKept` counts the ends told so far against where the run is.  `RequestsAccepted` and `RefusalsShrink` come
  from `Requests`: the history is `Well` (no two results answer the same call, a call has its results before the next
  call, a result is one of the call before it) up to the batch the run is in, and turns only grow.
  `Well` and not `Paired` is what every way of shortening keeps: a history that is only `Paired` may be cut
  between a call and a late result.  `Strip`, `TrimTools` and the cut of `ToolHistory` each have their lemma.  What `At`
  returns is proved although it is a recursive definition: of the numbers at which it might
  fail there would be a least one.  `FileAsTheEnd`: a run that answered leaves no open pending file behind, one that
  asks its user leaves one, and a canceled one has removed it exactly if the user canceled; `FileKept` adds what
  the deferred close will find when the run leaves.  `TypeCorrect` joins these invariants with the bounds of the counters.
* **ToolBatchProofs.** `AnsweredFirst`: in `Vets`, calls behind the one being vetted are new,
  and none is running before the vetting is over.  `FreshSeen`, for `~InWindow`, rests on three
  facts about the mark: a read that will mark a version has shown it (`ReadsPast`), at most
  one edit is under way (`OneEdit`), and the marked version was seen (`MarkSeen`).  `TypeCorrect` adds that an answer
  that is kept for a repeated call is a result.
* **EventStreamProofs.** `AbandonedPanics`: while a stream may send, `fanoutEvents` is open
  or the stream was given up (`StreamsKept`).  `EndHeard`: what the caller can read was published
  before (`PublishedFirst`), so an end it has seen was; without one an IPC caller publishes the failure
  itself, and `/v1/send` puts it in the channel before that is closed (`EndPublished`).  `LogIsAhead`: in `Chain`
  the three channels, the two hands and what was published and recorded are consecutive stretches of what was
  emitted, which is what a wrapper in front of the readers must keep.  `LogEndsOnce` adds what an end
  has done to each goroutine (`OneEnd`, `Drained`).  `TypeCorrect`: no channel is overfull (`Caps`), and the goroutines
  stand where their hands are (`Places`).
* **DaemonProofs**, first half, over `McpManager`.  `RenewalsSpare` needs only that two renewals are never at work at once (`RenewalsApart`).
  `ToolsServed` is inductive together with the types.  `RemovedGone` rests on `HandsListed`: an actor about to
  put a client in the map works for a server that is in `mcp.json`, or one of the named overlaps has happened.
  `ManagerTypes`: whoever is about to register was told a catalog (`ToldCatalog`), so the registry and `m.toolsSum`
  hold nothing else (`Values`).
* **DaemonProofs**, second half, over `Scheduler`, whose `SchedulerInit`, `SchedulerNext` and so on have their
  prefix because the module extends both.  `TimersAlive` and `TimersAreTheFile`, from
  `Sound`: `Aimed` says that an entry that is to come has, of all timers and callbacks, the armed one of the map
  or none, which is why an `Unmap` never takes the timer of such an entry; `Synced` says that what is armed,
  and what the watcher has in hand while it reloads, is what the files say, or an event is under way, or one was
  missed.  That `FreshId` finds a number is a pigeonhole argument over the finite set of timers.

The theorems hold for all values of the constants that satisfy the assumption of the module, which
asks of bounds only that they are natural numbers, of capacities that they are positive, and of the
scheduler's names and times that they are finitely many.

Every safety invariant and action property that a passing run checks is stated by a theorem.  Only
model-checked: liveness (`EventuallyClaimed`, `LeftBehindReappears`, `RunLeaves`, `DueTaskFires`,
`CatalogFollowed`), because the prover has no `ENABLED`.

## 6. Findings

Three are runs that TLC refutes; `PROJECT.json` quotes the line that says otherwise.

1. `task_cancel_kept`: a cancel while a tool runs keeps the pending file (`agents/exec/toolCall.go:657`).
2. `file_reread`: an edit is refused because the file has changed, the read that the refusal asks for is
   answered from the cache, and the edit is refused again (`agents/exec/toolCall.go:421`).
3. `scheduler_twice`: a one-shot entry fires twice when a reload falls between the removal of its timer and of
   its entry (`runtime/scheduler.go:228`).

Others came up while modelling.  The models contain them, and the properties say where they stop:

* Two taps handled at once record an answer for a question that has not been shown
  (`runtime/listener.go:282`; `DoubleTaps`).
* A text is taken for the text question its chat is busy with, whatever the user was reading when it was
  written (`runtime/listener.go:314-339`; `TextsAreForOne`).
* The undo of `markRunning` decides under the entry's lock and deletes after it
  (`agents/exec/steerWait.go:42`): a run that enters in between counts on an entry that leaves the map, and
  `/v1/send` starts a run beside it.
* A new temp- session is not claimed, so a second leg can take it
  (`agents/exec/subagent/ensureSession.go:25`).
* Two users who resume one task both get a run (`tools/interactive/askUser.go:535`), and an attempt that ends
  removes the cancel function of another (`agents/exec/cancel.go:38`; `Overlap`).
* A steer in a message that `TrimFallback` or `RawToolFallback` drops is gone, although
  `compact` carries steers over.  After a steer, a run that goes on appends `RawHistories` to `history.json`
  again (`session/history/saveHistory.go:20-58`).
* A cancelled run whose reader stalls for longer than `fanoutSendGrace` hangs: the fan-out goroutine
  leaves and nobody empties its channel (`agents/exec/execute.go:197`).  A stream that outlives
  `sendStopGrace` may send on the closed channel (`agents/exec/execute.go:206`).
* The write of a third party between an edit's write and its `Stat` is taken for seen
  (`tools/file/fresh.go:23-27`; `InWindow`).
* Scheduler: the watcher drops an event that comes within 200 ms of a reload, and starts after the first
  reload, so a change can stay unseen until the next one; two concurrent changes of `tasks.json` lose
  one (`runtime/task.go:43`); a fired task moves a skill to the trash that a cron still needs.
* MCP: `Disconnect` removes tools after it has let `m.mu` go (`runtime/mcp/mcp.go:212`), so those of a
  client that has just connected can go; `RegisterAll` appends a second set of definitions where its log
  line says "overwriting"; a reconnect replaces a client that stays open (`runtime/mcp/mcp.go:191`), and one that has
  read `mcp.json` before a removal brings the removed server back; a server whose renewal
  fails is out of the map and nobody tries it again.

## 7. Not modelled

What a model provider says; which model is chosen first; summaries and memory (text);
the tools' own work, the sandbox and permission rules; rendering in the terminal, the browser and
the chats, which is the larger half of the source; service files, keys and assets.  They hold no state
that the modelled parts share, or their correctness is a matter of texts and tables, and a
definition for them would only repeat the code.

Left out inside modelled components: sizes at which arguments and results are truncated; several
questions of one task in `PendingTask`; the configuration of a session; `Close` of the bots; the archive's
loss of results appended while it is written; tokens as numbers in `ExecLoop`; images and all
tools that write files except `write_file` and `patch_file`; the subscribers behind the publisher and the rotation of the log in
`EventStream`; OAuth, transports and the errors kept for display in `McpManager`; the firing of a
cron, which changes none of the scheduler's state.

Components with state of their own that no module has yet: the list of subscribers, whose hazard needs an array
with aliasing; the three legs of subagents and `waitResume`; the bookkeeping of IPC connections and
web confirmations, beyond what they do to the broker; the configuration watcher with the reload of the
bots; the versions of the file history; the cleaner of old temp- sessions.  `PROJECT.json` lists their hazards with the reason.

## 8. Plan

Done: the broker, the Connector, the gate, the pending task, the loop, the batches, the event stream, the
scheduler and the MCP clients, with proofs of all their safety properties.  Next, ordered by how much
of the system's promises hangs on the part:

1. `PubSub`: the shared array of subscribers and lock-free publishers; each live subscriber is sent
   each event once, in order, unless an unsubscription overlaps.
2. `SubagentWait`, which composes gate, event stream and pending task; `IpcConnection` and
   `WebConfirm`, which compose the broker.
3. `ReloadBots`, `FileHistory`, and the session cleaner as an action of `SessionGate`.
