# Verification of Free Claude Code

Free Claude Code (`src/src/free_claude_code/`) is one asyncio process that
stands between coding agents and model providers. It accepts the Anthropic and
the OpenAI Responses protocols over HTTP, runs each request against a chain of
provider models, offers a browser chat of its own, and drives managed Claude
Code processes from Telegram and Discord. Almost all of its state is shared by
tasks of one event loop, so its difficult bugs are interleavings at an `await`,
cancellations that arrive at the wrong one, and work that nobody finishes; the
file of the conversations is written by timer threads besides.

This directory holds TLA+ models of the parts whose state is hardest to test,
configurations that check them with TLC, and proofs checked with TLAPS.
`PROJECT.json` lists components, runs, the mutants that show that each property
can fail, the lines each definition models, the hazards and the theorems.

    tlc -workers 2 -config trees.cfg MCMessageTrees.tla
    tlapm ProviderAdmissionProofs.tla

Paths below are relative to `src/src/free_claude_code/`.

## 1. Inventory

| Component | State it keeps | Operations | What is hard about it | What makes it correct |
|---|---|---|---|---|
| Provider admission `providers/admission.py` | recovery episode (leader, probe, waiters, generation, cooldown), semaphore, attempts per execution | open, resolve and close an attempt; correction, failure, exhaustion; cancellation at every await | waiters parked on a condition, permits issued under a lock and used later, cancellation inside the clean-up | slots conserved, one owner of the half-open probe, no lost wake-up, every caller answered |
| Sliding-window limiter `core/rate_limit.py` | deque of grant times | `acquire`, `acquire_if` | several sleepers for one slot, two clock readings, early timers | never more than the limit in any window; never sleeps in vain |
| Provider generations `runtime/provider_manager.py` | current, retired and unpublished runtimes, leases, refresh task, clean-up tasks | acquire/release, replace, refresh, account change, close | clean-up started from three places, failing clean-ups, refresh cancelled by the holder of a lock | nothing closed under a user, nothing lost, every operation ends |
| Message trees `messaging/trees/`, `messaging/turn_intake.py` | graphs, reference index, queue and claim per tree, node states, tasks | intake, admission, claim, report, hand-over, stop, clear | commands against messages on their way, tasks cancelled before they start, drains that time out, partial effects of a command that raises | one task per claim, queue and graph and index agree, what was stopped stays stopped |
| Messaging workflow `messaging/workflow.py`, `node_runner.py`, `node_event_pipeline.py` | state lock, admission tokens, startup notice | message handling, commands, restore, close | tokens captured before an await | stale messages are discarded |
| Candidate execution `application/execution.py`, `routing.py` | candidate index, commit flag, progress deadline | stream, fall back, time out, clean up | failure after part of an answer was passed on | at most one candidate reaches the client |
| Chat sessions `application/chat/`, `runtime/chat_sqlite.py` | active operation per session, settlement, segments; rows of turns and generations | send, retry, regenerate, compact, stop, delete, start, close | an answer against its stop; writes of unknown outcome; restart | exactly one terminal event, equal to the stored status; nothing stays running |
| Platform delivery `messaging/limiter.py`, `platforms/outbox.py` | compacting queue, worker, futures, retries | enqueue, fire-and-forget, shutdown | a retry that returns after newer work | every future settled, the newest edit wins |
| Conversation persistence `messaging/session/` | memory, timer, generation, dirty flag, file | save, flush, clear, load | timer threads and three locks, failing writes, crashes | the file never goes back, no save is lost, what was flushed or cleared stays so |
| Voice notes `messaging/voice.py`, `platforms/voice_flow.py` | pending notes | transcribe, cancel | cancellation during a transcription | a cancelled note is not submitted |
| Managed sessions `cli/managed/` | pending, registered and closing sessions; one process each | create, register, remove, stop all | stop against start, a stop that fails | one owner of a session id, no process left |
| Connected accounts `providers/openai_codex/`, `github_copilot/` | credentials in memory and in a file, login task | sign in, refresh, recover, disconnect | two processes sharing a file, rotated tokens | a valid sign-in is not lost or brought back |
| Application runtime `runtime/application.py` | owned resources, closed flags | start, configure, close | a close that fails half-way | resources closed in order, each once |
| Stream recovery `providers/openai_chat/`, `providers/stream_recovery.py`, `core/anthropic/streaming/` | attempt, holdback buffer, block ledger, tool calls under assembly | push, retry, continue, repair a call | a cut-off after part of the answer has reached the client | the client sees one well-formed stream, says nothing twice, and every mended call is whole |
| Model catalog, HTTP surface, adapters, configuration, launchers, web tools | little or none shared | translate, validate, write files | - | functions of their input |

Interactions. The HTTP handlers and the chat acquire a lease of a *provider
generation*, resolve a provider and stream through *candidate execution*. A
provider opens each physical call through *admission*, which consults the
*limiter*. *Delivery* to a chat platform uses the same limiter class. The
messaging *workflow* holds its state lock while it calls the *tree* manager,
which calls the processor that owns the tasks; tasks execute the *node runner*,
which reports to the tree and starts a *managed session*. Every tree transition
yields a snapshot for *persistence*. The *application runtime* closes all of it
in order.

## 2. Modules

| Module | Role |
|---|---|
| `ProviderAdmission` | the admission controller and its executions |
| `ProviderAdmissionProofs` | its invariants, proved |
| `CandidateExecution` | one inference request: lease, candidates, response, client |
| `CandidateExecutionProofs` | its invariants, proved |
| `RateQuota` | what a strict sliding-window limiter promises |
| `RateWindow` | the limiter as coded; implements `RateQuota` |
| `PlatformDelivery` | the messaging limiter and the outbox, over `RateWindow` |
| `PlatformDeliveryProofs` | the limiter's invariants and its refinement; that the delivery uses it as modelled, that every waiting call is owned, and that the newest edit wins; proved |
| `ProviderGenerations` | the provider manager |
| `ProviderGenerationsProofs` | its inductive invariant, the lease counters and its safety properties, proved |
| `ChatOutput` | what an OpenAI-chat provider writes: ledger, writer, tool calls |
| `ProviderStream` | one answer of such a provider: retries, continuations, repairs; over `ChatOutput` |
| `ProviderStreamProofs` | its inductive invariant, which says what the client knows of the answer, and its safety properties, proved |
| `ChatAnswers` | what a chat promises about the answer of its newest turn |
| `ChatSessions` | one chat: its service and the transactions of its store; implements `ChatAnswers` |
| `ChatSessionsProofs` | its inductive invariant and the refinement, proved |
| `MessageTrees` | intake, trees, queues, tasks and commands |
| `MessageTreesProofs` | its inductive invariant and safety properties, proved, with the induction they need over queues and subtrees |
| `SavedState` | what a durable store promises |
| `SessionStore` | the session store and its debounced writer; implements `SavedState` |
| `SessionStoreProofs` | its inductive invariant and the refinement, proved |
| `MC...` | the same modules as instances for TLC |

A step is what a task does between two suspension points: nothing else runs in
between on an asyncio loop. A critical section that never awaits is one step; a
task that may have to queue for a lock is at a program point of its own.

### ProviderAdmission

`pc` is the await at which an execution's caller is: between attempts (`idle`),
about to enter the condition's critical section (`gate`), parked on it
(`waiting`), the leader's back-off, the limiter, the semaphore, the physical
call, the queue for the lock after the answer (`settling`), and `aclose()`.
`episode` is `_RecoveryEpisode`; `permit` is the `_GatePermit` an execution
last received and may use much later. Each `_resolve_*` method is an action or a
few, one for each of its branches; `notify_all` is part of the action that
calls it. Cancellation is an action at each suspension point, with the
different clean-up the code has there: `CloseDetached` is the second
cancellation inside `aclose()`, which releases the slot while the shielded
abandonment runs on. Delays are abstract: `ready` and the phases
`cooling`/`cooled` say whether a time has passed, and the limiter may admit at
any later time, because `RateWindow` describes when.

`Finish` and `Quit` are the callers (`openai_codex/provider.py` among them): an
accepted or failed operation ends, and one whose attempt was corrected or failed
may be ended by its caller before it asks again.

Left out: a second cancellation while an abandonment outside `aclose()` queues
for the condition's lock (`admission.py:522`, `:594`); the abandonment is one
step there.

### RateQuota and RateWindow

`RateQuota` keeps a clock and the history of grants and allows a grant when the
Limit-th last one has left the window. `RateWindow` keeps what the code keeps:
the deque is the history after `popped`, the loop that purges it is `Purged`,
the capacity check and the stamp read the clock separately (so the stamp may be
later), sleepers wake up to one clock unit early, and `acquire_if` may refuse.

### CandidateExecution

One request from its arrival to the end of its response. `app` is the
application task (`api/routes.py`, `api/response_streams.py`), which acquires
the lease of the configuration, asks for the first chunk, then streams or
collects, closes the body and gives the lease back. `body` is the executor's
generator (`application/execution.py`): the candidate it is at, whether a chunk
of it has been handed on (`committed`), and its program point; it runs only when
`app` asks for a chunk or closes it. `left` is what remains of
`progress_deadline`, which all candidates share until one makes progress.
`client` may leave at any moment (`api/request_lifetime.py`); the cancellation
is delivered where the task awaits, and the clean-up it starts has awaits of its
own. `sent` is what the client gets, each piece with the candidate it is from;
`silence` is a history variable that counts the ticks the request has awaited
since its last progress.

The clock does not stop at the deadline. What the timer cancels takes its time,
and a stream is closed without a timeout once an error is on its way, the expired
deadline among them (`execution.py:442`-444), so a client may wait longer than one
timeout for its answer; `MaxDelay` bounds how much longer in the model. What the
code does guarantee, and `OneTimeout` says, is that once one timeout has been
awaited since the last progress no upstream is asked for anything more, whatever
the candidates before it have done. That the late closing ends at all is assumed
(see Fairness).

What a candidate's provider does is free: it may be refused, fail before or
after its first chunk, stay silent, or end. How the route chose its candidates
is an input (`MaxCandidates`). A stream whose closing is itself cancelled counts
as closed.

### PlatformDelivery

`PlatformDelivery` extends `RateWindow` with the worker as its one task: the
steps of the worker call the limiter's actions. `calls` is what the bot has
asked for, in order: an edit of one status message (they share one key) or
something else with a key of its own; awaited by its caller, forgotten to the
limiter, or an edit forgotten to the outbox, which makes a task that makes the
limiter's. `ready` holds the tasks that were made and have not started; they
start in the order they were made. `queue` and `job` are `_queue_list` and
`_queue_map`, `held` what the worker has popped (with `_active_futures`), `fut`
the futures. An operation ends with a result, a connection problem (which may
come after its effect), a request to wait, another error, or a cancellation of
its own. `Retry` is the pause of `_wrapped`. `CloseOutbox`, `BeginShutdown` and
`EndShutdown` are the three steps of the platform's `close()`; the last may be
reached before the worker has ended (`cut`: the timeout, or a cancelled close).

Calls other than edits never share a key, although two identical bulk deletions
would. What the queued edits display, and the throttling of their rendering
(`ui_updates.py`), are left out.

### ProviderGenerations

Generation g is the g-th runtime published. `leases`, `retired`, `cleanupTask`
and `shut` are the fields of `_ProviderGeneration`, and `cleanups` counts the
clean-ups that are at work on each. `CloseGeneration` is `_close_generation`: a
caller who finds a task waits for that one, and nothing but this keeps a
generation from two clean-ups at once. `tracked` is `_retired`, `unpublished`
counts rejected candidates. `replace`, the explicit refresh and
the account change run under `_replace_lock`; `pc` names the await each is at,
`stopping` the refresh task it is waiting for. `BackgroundStarts/Ends` is the
refresh task with its own lease; it can be cancelled before its first step, when
its `finally` never runs. Any clean-up may fail, and then the generation stays
tracked and `close()` tries again. `Cancel` cancels the caller of an operation
at any await; the clean-up tasks it was waiting for go on. The contents of the
model cache are left out.

### ChatOutput and ProviderStream

`ChatOutput` has no variables: it is the block ledger, the writer above it and
the assembly of tool calls as operators on an output and the events it has
written. Text and reasoning are sequences of letters, which may repeat, and the
arguments of a call are two pieces. A client checks each event the way
`assert_anthropic_stream_contract` (`core/anthropic/stream_contracts.py`) does.

`ProviderStream` is `_OpenAIChatStreamRunner`: a step handles one chunk of the
upstream's stream, its end, or a failure. `held` and `committed` are the
holdback buffer, `mend` the repair under way (a continuation of the text, or
the completion of the arguments of one call), `attempts` the attempts of the
provider execution that all of this shares, `open` those whose stream is not
closed. `Held` names the calls whose arguments are held back until they are
whole. `Meant` is what the model means to say; it says it letter by letter, and a
continuation is a passage of it that begins anywhere in what was said, or at its
end, and breaks off anywhere (`Continuations`). `continuation_suffix` sees letters
only, and so does `Suffix`: an overlap by accident is stripped like a real one.
The history variable `astray` records the kinds, text or reasoning, for which
letters have led it wrong: the passage ends within what was said, or an overlap
reaches further than what it repeats (`Misleads`).

Left out: the Responses writer, the buffers for names encoded as aliases beyond
`Held` (a name and its alias are one and the same here, so nothing is said of how
a name is restored), the empty arguments flushed for the tool `Task`, opaque
reasoning, and the lengths of texts: whether a continuation without any overlap is
short enough to be appended (`recovery.py:118`) is a free choice, and one that is
too long to be used is not distinguished (`provider.py:1533`). `Contract` follows
the checks of `assert_anthropic_stream_contract` except for its last, that there
be at least one block. Assumed of the outside: an adapter reports a malformed
native call only when none has begun; a model that goes on says a passage of what
it means to say (one that says something else has no right answer to be compared
with).

### ChatAnswers and ChatSessions

`ChatAnswers` is the answer of the newest turn: which operation writes it and
how far it is. Only a newer operation takes it over, an unfinished answer is
retried, a completed one is replaced by a whole new one or a failure and never
taken back, and a deleted chat stays deleted.

`ChatSessions` is one chat as coded. `op` is the active operation: its work task
and the supervisor that waits for it never run at once, so one program point
`op.pc` stands for both. `db` is the rows of the chat, and each transaction of
`runtime/chat_sqlite.py` is an operator on it, with the conditions its SQL
checks. A store call runs in a worker thread, so cancelling its caller does not
undo it: calls that must not be lost are shielded, and a flush that is not may
land later (`late`). A call may fail before or after its transaction has
committed, which the service finds out by reading again (`reconcile`,
`reread`). `del` is `delete_session`; `phase` the server's process, which may
die and repairs what was left running when it starts.

Left out: preferences, the creation of chats, the publication of events, the
size of the context, and an update of the session whose caller is cancelled while
its thread lands later (`late` is for flushes only).

### MessageTrees

A message of the user goes through the intake (`Receive`, `Discard`, `Admit`),
becomes a node, waits in its tree's `queue` or claims the tree (`active`), and
its `task` executes it. `asked` is `cancellation_requested`; a task that is
cancelled before its first step (`launched`) never runs its `finally`, and goes
to `finishing` through the recovery task of `processor.py`, one that runs goes
to `unwinding`. `status` and `session` say whether a node still has its status
message and a session to resume; `indexed` and `trees` are the repository.

Decisions a reader should know of:

- The token of `turn_intake.py` is captured and the reply resolved in one step.
  A `/clear` of a reply in between has the effect of one before both, and a
  command on the whole chat in between makes the token stale in either order.
- A node processor may absorb its cancellation and still report: the tests of
  tree ownership do so, and the aggregate must not listen to it.
- A drain of cancelled tasks ends with the tasks or with its timeout
  (`manager.py:60`). The timeout is real: stopping a CLI process alone may take
  the same five seconds (`cli/managed/session.py:274`). `EndCommand` therefore
  needs nothing but that claims which only have to be given back are.
- Commands hold the workflow's state lock while they drain, so commands and
  admissions do not overlap (`draining`).
- The node whose status message is cleared keeps its prompt and fails; if it is
  the active one, a later cancellation of that claim raises (`Raises`), after
  part of the command's effects. The command's effects up to that point are part
  of the action.
- `stopped` is a history variable for `StoppedStaysStopped` alone.

`MaxWork` bounds messages and commands together, a message counted twice, so that
one run has three messages and a command as well as two messages and three
commands.

Left out: restoring trees at start, snapshots, messages delivered twice (ids are
not reused), the owner of the cancellation's user interface, voice notes,
rendering. A runner's CLI session is seen only through what it reports.

### SavedState and SessionStore

`SavedState` is a version in memory, a version in the file and the version last
acknowledged; a restart loads the file. `SessionStore` is the code: the main
thread is the event loop, which alone edits, flushes and clears (every caller in
`messaging/workflow.py`, `turn_intake.py` and `node_runner.py` is a function of
the loop), and each armed `threading.Timer` is a thread named by its generation.
The contents are abstracted to a version, which an edit may raise by one.

The three locks: the store's is held for one step, except by `clear_scope`,
which keeps it from `BeginClear` until it returns (`StoreFree`); the timer's
lock makes `Claim`, `Current` in `Enter`, and `JudgeClean` atomic; the writer's
is held while a thread is in `file`. Acquiring the writer's lock and the check
of the generation are one step, since nobody sees a lock taken. `FailToWrite`
covers every exception of `_write_file` before the replacement takes effect.
`Crash` kills all threads at any point and loads the file, at most `MaxCrashes`
times. `promised` and `failed` are history variables.

Left out: a file that cannot be parsed at the start (it is logged and the state
starts empty), a snapshot that raises, and a thread that cannot be started.

## 3. Runs

| Run | Bounds | States | Shows |
|---|---|---|---|
| `admission` | 3 executions, 2 slots, 2 attempts each | 233 386 | slots, probes, no lost wake-up, leadership, answers |
| `admission_stuck` | 2 executions | - | finding 1 |
| `candidates` | 4 candidates, 3 chunks, a deadline of 3 ticks, awaited for up to 2 more | 8 454 | one voice, streams inside the lease, one answer, nobody asked after one timeout, requests end |
| `delivery` | 2 calls, limit 1 in a window of 2, clock to 4 | 2 956 966 | every pending future is owned, the newest edit wins, the window's refinement and no vain sleep |
| `generations` | 2 clients, 3 generations, 2 rejected candidates | 13 332 | no use after close, nothing leaks, clean-up once, operations end |
| `stream` | 2 tool calls (one held back), 4 attempts of 4 chunks, a text `<<1, 2, 2, 3>>`, reasoning `<<1, 2, 1>>` | 231 703 | the stream contract, nothing said twice, mended calls are whole, one attempt open at a time, repairs end |
| `stream_mixed` | the same, with calls written as text and native ones in one answer | - | finding 4 |
| `chat` | 2 operations of 1 segment, 1 trouble | 624 454 | running rows are owned, terminal events are true, settling writes are accepted, refinement, commands settle |
| `trees` | 3 messages and 1 command, or 2 messages and 3 commands | 462 032 | claims, queues, index, restorability, stop, every node settles |
| `trees_stop` | 2 messages, 2 commands | - | finding 2 |
| `sessions` | 3 saves between two starts, 3 edits, 1 crash | 374 666 | flushes and clears stay done, no save is lost, refinement, saves settle, calls return |
| `sessions_dirty` | 2 saves, no crash | - | finding 3 |

The type invariants are not in the configurations where a proof has them
(every module but `ProviderStream`) or where a violation would show in the
properties at once; each module states one, and it is the first thing
to add to a configuration after a change.

Why the bounds are enough to be interesting. In `admission`, three executions
give a leader, a follower and a newcomer, two slots leave one of them waiting
for the semaphore, and two attempts let an episode be led, handed over and
exhausted. In `candidates`, four candidates and a deadline of three ticks let
the deadline fall in any of them, between two of them and in the clean-up, two
ticks more let a closing outlast it while others follow, and three chunks are a
first one, a middle one and a last one. In `delivery`, two
edits can be compacted, overtake each other through the outbox, be retried twice
each and meet the close at every point, and the window of one grant makes the
worker sleep before the second; the worker is the limiter's only task here, so
what several sleepers do to one window is proved for any number of tasks, not
checked. In `generations`, three generations leave a retired one in use while
the next is retired and a third is current. In `stream`, four attempts are a
retry before the commit, a continuation, and the repair of each of two calls,
any of which may fail; the text has a letter twice in a row and the reasoning one
that comes back, so that continuations overlap truly, by accident and both. In `chat`, the second operation is a retry, a
regeneration, a compaction or a new turn over whatever the first has left, and
one trouble is a failed call, a lost outcome, a change of the session by another
request or a dead process at any point; a second trouble multiplies the states
without new kinds of left-overs. In `trees`, three messages are every shape of
conversation up to a chain or a fork of three, in one tree or several, with a
command at any moment; the second and third command matter only for claims that
outlive the first. In `sessions`, three saves are a timer's thread still writing
while a second is superseded before it claims and a flush or a clear overtakes
both; the crash can fall anywhere.

`admission`, `generations`, `trees` and `sessions` check for deadlock: a
terminated system stutters in an action `Quiescent` that says what termination
means, and the store can always flush once more. A request, a provider's answer,
a chat with its operations used up and a closed platform are over at some point,
so `candidates`, `stream`, `chat` and `delivery` do not; there the liveness
properties, or `PendingIsOwned` and `NeverLoops`, say that nothing is left
waiting.

### Fairness

- Tasks of the event loop that can run do run: weak fairness of a task's own
  steps.
- Physical calls, clean-ups and discoveries return, because the HTTP clients
  have timeouts; a CLI process ends or is stopped; a drain has a timeout.
- `asyncio.Lock` and the semaphore are FIFO, and the limiter's sleepers are few
  and each waits for a definite time: strong fairness of admission and of
  `close()` getting its lock.
- The clock advances, timers expire and their threads run.
- Nobody has to cancel, to quit, to give a command or to send a message, and no
  call has to succeed.

Per run: `candidates` is fair to the executor, to the application task and to
the clock (a provider may stay silent, so that only the deadline ends it);
`trees` asks only that the event loop does not stop while one of its tasks, a
reporting runner or a drain can go on (weak fairness of all of them together, less
than the scheduler gives); `chat` is fair to the work, the settlement, the
deletion, the end of an update and the end of the shutdown, not to the user.
`stream` and `delivery` check safety and assume no fairness (`NeverLoops` says
that every step of a stream brings it nearer to its end).

## 4. Findings

1. **A leader that leaves between two attempts leaves its followers waiting**
   (`admission_stuck`, `providers/admission.py:738`). After a correction or a
   failure the episode records its leader before that execution has asked for
   its next attempt. If its caller ends there (the Codex provider awaits a token
   in between), `abandon()` and `fail()` do not tell the controller, and every
   other execution waits on the condition for a leader that is gone. The run
   `admission` shows that this is the only way to be left unanswered.
2. **`/stop` can stop half of the chat** (`trees_stop`,
   `messaging/trees/runtime.py:247`). `/clear` in reply to the status message of
   the executing node takes that message away; if its task outlives the drain,
   the next `/stop` raises while it looks for the status message of the
   cancelled claim, and the trees after it keep executing. It also fails the
   messaging step of the shutdown.

3. **A failed save can leave the store clean** (`sessions_dirty`,
   `messaging/session/persistence.py:128`). `_mark_clean_if_current` decides
   under the timer's lock and clears the flag after it has released it. When a
   newer save is asked for and fails in between, the flag is cleared after the
   failure has set it: the store says that it is clean, its state is not in the
   file, and no timer is left. The tests ask that a failed save keep the store
   dirty. At present only tests read the flag; `UnsavedHasSaver` and
   `PromiseKept` do not depend on it and hold.
4. **A call written as text closes the blocks of native calls** (`stream_mixed`,
   `providers/openai_chat/tool_calls.py:137`). A tool call that a model
   has written into its text is given the number of calls so far as its index,
   which is the index the first native call of the same answer uses. The native
   call finds its state started, opens no block of its own, and its arguments go
   to a block that is closed already, or to the other call. The contract of the
   stream (`core/anthropic/stream_contracts.py:138`) and the chat service
   (`application/chat/service.py:1160`) reject such a delta. The run `stream`
   shows that answers with calls of one sort keep the contract.

Three behaviours the properties make room for, without a statement of the code
that the run could refute:

- A retry of a failed edit is queued again under the key of its message, where
  it takes the place of a newer edit, or comes after it (`messaging/limiter.py:297`).
  The class says that the queue ensures 'only the latest version of a message
  update is processed' (lines 22-23); `NewestWins` holds for everything but such
  retries, and among calls given in the same way: an awaited edit is queued at
  once, a forgotten one a turn or two of the event loop later.
- When the write that begins a generation ends with an unknown outcome, the
  store cannot be read either, and the user stops the operation meanwhile, the
  row stays running while the service goes on accepting commands
  (`application/chat/service.py:1478`); the next start repairs it. `lost`
  in `OwnedWhileRunning` marks this case.
- `continuation_suffix` strips the longest overlap there is, down to one letter,
  whether or not the model meant to repeat it: 'Hel' continued by 'lo' becomes
  'Helo', and 'bana' by 'na' stays 'bana'
  (`core/anthropic/streaming/recovery.py:113`). A continuation that repeats
  something from the middle of what was said, and breaks off before its end, is
  appended whole when it is short (line 118). So an answer that was interrupted can
  lose letters or say some twice. The tests show overlaps that are meant; nothing
  in the repository says that the joint is exact. `SaidOnce` leaves out only
  the kinds whose continuation is of one of these two sorts (`astray`); where no letters mislead, the
  client reads the beginning of what the model meant to say.

## 5. Proofs

TLC checks instances; the theorems hold for every finite set of executions and
of clients, every positive `MaxConcurrency`, `MaxAttempts`, `Limit` and `Window`,
and every number of saves, edits, crashes, generations, attempts, operations of a chat,
messages and commands. The assumptions are those the modules state by name
(`AdmissionAssumption`, `ExecutionAssumption`, `WindowAssumption`,
`DeliveryAssumption`, `GenerationsAssumption`, `OutputAssumption`,
`StreamAssumption`, `ChatAssumption`, `TreesAssumption`, `StoreAssumption`).

**ProviderAdmissionProofs.** `TypeCorrect` is proved action by action. The
properties about the episode are not inductive by themselves: that an active
probe has an owner depends on which permits are still current, and that a parked
task is registered depends on the leader not being a waiter. `EpisodeInv` is
their conjunction with what they need: a closed episode has no leader, probe or
waiter; a detached abandonment belongs to a caller that is gone; neither the
leader nor an execution past the gate is a waiter; a normal permit is never the
leader's; whoever asks has budget. `EpisodeInvariant` proves it inductive, with a
lemma for each group of actions, and `ProbeHasOneOwner`, `NoLostWakeup` and
`AdmittedMayStart` follow. `LeadershipPasses` is the action property, proved from
`EpisodeInv` of the state before the step. `SlotsConserved` adds the cardinality
of the holders, for which each action moves at most one execution in or out
(`SlotTaken`, `SlotReleased`).

**CandidateExecutionProofs.** For routes and timeouts of any length. That the
chunks a client gets are one candidate's is not inductive: it must be known that
nothing has been sent before a candidate is committed, and that a body that
yields is committed (`Voice`). That nothing stays open needs where the body is
while the application is where it is (`Phases`): a body that runs has the lease,
one that is over has closed its stream. That a client is answered once needs the
way each kind of request takes to its last piece (`Answering`). That nobody is
asked after one timeout needs `Clock`: whatever the candidates do, `left` is
what the silence leaves of one timeout, and nothing when it has lasted longer.
`OneTimeoutHolds` is then about each step that leads to a read. `ExecutionInv` is their conjunction with the types; there is one lemma
for each action, `ExecutionCorrect` puts them together, and `OneVoiceHolds`,
`StreamsHaveLeaseHolds`, `AnsweredOnceHolds` and `OneTimeoutHolds` follow.

**PlatformDeliveryProofs.** The limiter first. `DequeCorrect` proves the deque to
be the youngest part of an ordered history; from it each step of the limiter is a
step of the quota or leaves it unchanged (`LimiterImplementsQuota`), the bound
over the whole history is inductive (`WindowNeverExceeded`), and a sleeper faces
a full window (`NeverSleepsInVain`). All of it holds for any number of tasks, also
when they are woken for the same freed slot. Then the composition: every step of
the delivery is a step of its limiter or leaves it alone (`WindowStep`), so these
theorems hold of what the bot sends (`DeliveryUsesLimiter`,
`DeliveryKeepsQuota`, `WorkerSleepsInNeed`). Last the queue: that a pending
future is owned is inductive together with the facts that a job's key stays in the
queue as long as its job (compaction adds no key, the worker takes both) and that
the worker lives while the limiter accepts work (`DeliveryInv`). `SettlingKeeps`
treats all the steps that leave the queue alone, `EnqueueKeeps` the first try and
the retries. `EveryCallIsOwned` is what a caller sees, for any number of calls.
That the newest edit wins is a matter of order (`NewestInv`): the tasks that have
not started stand in the order of their calls, for each way, although those of
the outbox go to the end of the line half-way (`ReadyInOrder`, kept by
`TailInOrder` and `TurnInOrder`); so no call is tried while an older one of its
way has yet to start (`FirstTries`), a queued edit tried once is the newest tried
(`NewestQueued`), and while it is made the newer ones have no answer
(`NewestHeld`). `LastEditWins` follows.

**SessionStoreProofs.** That a promise is kept is not inductive: it must be known
that a thread about to write has nothing older than the file. `StoreInv` says
why: every edit asks for a new generation, so a snapshot of the newest
generation is the newest state (`SnapshotsCurrent`) and only such a one passes
the check; there is one writer at a time (`OneWriter`), so nothing overtakes it
between the check and the replacement; the main thread's own generation stays
the newest while it is in a call (`MainCurrent`), so a flush never returns
without having written; and the timer is always that of the newest generation
and alive (`TimerNewest`). `StoreCorrect` proves it inductive action by action
(`LeaveInv` treats all the ways a thread can end), `PromisesAreKept` and
`NoSaveIsLost` are parts of it, and under it every step is one of `SavedState`
or leaves it unchanged (`StoreImplementsSavedState`).

**ProviderGenerationsProofs.** That nothing is closed under a user needs to be
known of the counters what they count: `LeasesCounted` says that a generation has
as many leases as there are clients, refreshes and operations that hold one, and
the proof follows each acquisition and release through a cardinality
(`OneMoreHolder`, `OneHolderLess`). What is cleaned up is retired and has no
lease, and its task is set exactly while its one clean-up runs and after that has
succeeded (`CleanInv`); a retired generation gets no new one, because only the
published one is leased and a refresh that has not started is that of the
published one (`AgesInv`, `RefreshInv`). `LockInv` says which operations exclude
each other, and `CloseInv` what is left when `close()` has returned from each
of its waits. `GenerationsCorrect` is their conjunction; `ClientsStayOpen`,
`PublishedIsOpen`, `NothingIsLeaked` and the action property
`CleanedUpAtMostOnce` follow.

**ProviderStreamProofs.** For any number of attempts, chunks and calls. What the
client makes of an answer is a fold over all the events ever written, held back,
dropped or let through. The invariant avoids the history: `View` is what a client
knows that has read everything the output has written, and `Good(base, w)` says of
what an operation writes that the client who knows the output `base` knows the
output of `w` after it. Each operation of the writer and of the tool calls, down
to `start_tool_block` and up to `finish_success` and the repair of all calls, is shown
to keep `Good`, whatever the state of the others; the composition of a chunk, of
an error or of a continuation is then a chain of such facts. `OutOK` is what they
need of the output: the block text is written to is open and the last of its kind,
each started call has a block of its own with its arguments, no block is open that
the output does not know of. The runner's invariant `StreamInv` adds that what is
held back is what the client lacks (`Answer`), that each call is as the upstream
has sent it (`AsSent`), and that before a mend a call is part or whole, and whole
once it is closed (`StoppedWhole`), without which a closed call could be shown cut
off. `StreamStep` proves it inductive for answers that do not mix native calls
with calls in their text (`~Mixed`): for those that do, the invariant fails with
the contract, as `stream_mixed` shows. `ContractKept`, `NothingSaidTwice` and
`MendsWhole` are read off it (`WhatTheClientKnows`). That nothing is said twice or
left out, except where letters mislead, rests on `SuffixGood`, a fact about `continuation_suffix` for texts of every length and
whatever their letters: if no overlap reaches further than what is repeated
(`NoAccident`), and the passage goes at least as far as what was said, it adds
exactly what is new, or nothing to a passage that repeats nothing.
`SuffixShortest` says what it does without that proviso, accidents included: what
was said with the suffix after it is the shortest text that begins with what was
said and ends with the continuation, or the two have no overlap and the
continuation is dropped as too long.
`OneAtATime` and `AnswersEnd` (every step uses up an attempt, or what is
left of the one under way) need only the counters and hold of mixed answers too.

**ChatSessionsProofs.** That a settling write is accepted, and that an event is
true, depends on everything a chat knows of the row it writes. `PlaceInv` says,
for each await of an operation, whether its generation is in the store and as
what; `ClaimInv` that either its completion or one canceller claims an operation,
and that the cancellation is delivered before a completion can; `SettlementInv`
how far the settlement is, also when a write is made a second time;
`NumbersInv` that rows bear numbers of operations that were started, so that a
new one cannot be taken for an old one; `WritingInv` and `DeleteInv` whose rows
are running and that a deletion is alone when it removes. `ChatCorrect` proves
the conjunction inductive with a lemma for each action, and `RunningIsOwned`,
`EventsAreTrue` and `SettlementsLand` are read off it. Under it every step of the
chat is a step of `ChatAnswers` or leaves the answer alone
(`ChatImplementsAnswers`).

**MessageTreesProofs.** For any number of messages, in trees of any shape. The
invariant `TreesInv` relates what the code keeps in different objects: a node has
a task that lives exactly if its tree's claim is its own (`ClaimInv`); a queue has
each pending node of its tree once and somebody executes before it (`QueueInv`);
what may run is in a tree the repository has (`ServedInv`); the index knows the
prompts and live status messages of those trees (`IndexInv`), and each reply in
them is to something it knows (`GraphInv`). The last two are not preserved by
themselves: a removal must take everything that hangs from what it takes, and
nothing of another tree. This is a fact about the recursive search in the graph,
for every graph: `SubtreeIsClosed` (what replies to the subtree is in it: the
search grows until nothing is left to find, and there are only finitely many
references), `SubtreeIsLeast` (it is within whatever has the reference and is
closed) and `SubtreeHangs`; `DescendantsAreLeast` is the same for what a failure
takes along, and `Kept` for what is left of a queue. The admission, the
hand-over and the removal of a subtree are split by what they decide before
their effects (`AdmittedTo`, `FinishEmpty` and `FinishNext`, `ClearReplyRaises`
and `ClearReplyTakes`). `TreesServed`, `IndexIsRight`, `TreesRestorable` and
`StoppedForGood` follow from `Invariance`, `CancelledForGood` from the
invariant before each step: a report is heeded only while its claim is neither
cancelled nor over.

Induction over data. The induction theorems of the library take an operator as a
parameter, which the provers cannot instantiate. `UpTo`, `Recursion` and their
like in `MessageTreesProofs` and `ProviderStreamProofs` get by without: they
state induction with a set instead of a predicate and recursion with a function
of steps, up to a bound, from the well-foundedness of the numbers. They reach
functions that iterate up to a bound over values from a set known beforehand, as
the queue and the graph do, and the folds of `ProviderStream`, for each of which
a lemma (`StopToolRuns` and the others) names the iteration.

Only model-checked: every liveness property (`RequestAnsweredOrLeaderGone`,
`RequestEnds`, `OperationsEnd`, `EveryNodeSettles`, `SaveSettles`, `CallsReturn`,
`CommandsSettle`), which is beyond the prover. Every safety property that a passing
run checks is a theorem.

## 6. What is left, in order

1. `ConnectedAccount`: two processes and one credential file. Two hazards wait
   for it: a refresh that goes on with its own older token when the saved one is
   about to expire too (`providers/openai_codex/auth.py:453`), and a sign-in that
   is cancelled between its write and its publication (`auth.py:398`), after
   which the file holds an account the process does not have.
2. Snapshots of trees, captured in one turn and saved in a later one
   (`messaging/workflow.py:680`), and restart: `MessageTrees` composed with
   `SavedState`.
3. `ManagedSessions` (`cli/managed/session.py:192`) and `ApplicationShutdown`.

### Not modelled

Protocol conversion, the adapters of the other provider protocols,
configuration, launchers, the desktop application and web tools are by far the
larger part of the lines. They translate, validate, write files and start
processes; they keep no state that tasks share and are well served by table
tests. The share of the implementation that the modules map is small for that
reason. The HTTP surface reaches the modelled parts through candidate execution,
which has its routes, responses and lifetimes. Voice notes become text messages
of the workflow when their transcription ends; the registry that cancels them is
a candidate for a later module.
