# Lexicon: a verification development

TLA+ models of the Lexicon meeting assistant (`src/src`, Python/asyncio, and
its React client in `src/frontend`), the TLC runs that check them on small
instances, and TLAPS proofs, for every instance, of the safety of the command
queue, the transcript buffer, the agent runtime and its turns, the gateway, the client with
its prompts and sub-agents, and the scheduler. Line numbers refer to the repository's files;
paths below drop the leading `src/`,
so `src/engine/queue.py` is the file `src/src/engine/queue.py` of PROJECT.json.

How to run everything here:

    tlc -workers 2 -config queue_lanes.cfg MCCommandQueue   # any pair of the table below
    tlapm CommandQueueProofs.tla                            # the proofs of a module, see section 6

## 1. The system

A client records a meeting, its speech is transcribed, and each final
transcript chunk becomes a message to an LLM agent of that meeting, which
answers with cards (definitions of terms, questions, notes). One Python process
serves all clients on one asyncio event loop, so *the code between two awaits
that really suspend is atomic*, and nothing else is: every interleaving in these
models comes from an await. Other processes (scripts, command lines, the
browser) interleave with it freely. The user can also send a prompt, which a
connection's loop hands to a sub-agent and whose answer it awaits.

    browser --ws--> gateway.server --> gateway.router --> engine.queue --> engine.runner --> engine.runtime --> LLM, tools
       ^                |                   |                 ^   (lanes)        |               |
       |                |            |      gateway.session   |                  |          engine.context
       |                |            +-- prompts --> engine.orchestrator --> sub-agents (runtimes of their own)
       +---- cards -----+--- listeners <------ agent output --+------------------+          tools --> vault, QMD, feedback.sqlite
                                                                                             scripts (seeding) ----^
    audio.provider ..> audio.buffer ..> (flush callback)      |
    cron.scheduler -------------------------------------------+---- engine.hooks (digest at the end of a meeting)

The dotted arrows are the intended wiring of the audio package: no code of the repository creates a
`TranscriptBuffer` yet, so its callers and its callback are free in the model.

### Components, their state, and what makes each correct

| component | state | operations | hard part | what must hold |
|---|---|---|---|---|
| **Command queue** `engine/queue.py` | waiting messages and debounce timer per session, semaphore per lane, active runs, steer callbacks | `enqueue` (steer, overflow), debounce, drain, run, `stop` | a timer, a finished run and a new message race to drain one list; a run waits for a permit while the session's next timer fires | no message lost, duplicated or stranded; turns in order; permits balance; no run is created after `stop` (queued ones may still start) |
| **Transcript buffer** `audio/buffer.py` | pending text, speaker, timer task, lock | `feed`, `close`, timer flush | the lock is held across an awaited callback; a flush cancels the timer, even when the timer *is* the flush | no chunk lost, repeated, out of order, or under another speaker's name; pending text always has a timer |
| **Agent runtime** `engine/runtime.py`, `engine/runner.py` | conversation, steering queue, transcript file | `run`, tool calls, `inject_transcript`, `_manage_context` | overlapping runs share the conversation; compaction awaits an LLM between reading and assigning it | nothing is forgotten; calls keep their results; every steered chunk is used once |
| **Context management** `engine/context` | none of its own: it maps conversations to conversations | token count, soft trim, hard clear, compaction | three thresholds, two cuts, lengths that a trim can raise or lower; what one call has cleared the next sees | the request fits or nothing is left to clear; old results go first; order and pairs kept |
| **LLM providers** `engine/llm` | the calls assembled from a stream | convert messages, stream, choose a provider | calls of one response arrive in interleaved pieces, and a response may be cut off anywhere; three providers differ in what they then emit | the tool executed is the first call, with its own input or none |
| **Gateway** `gateway/server.py`, `router.py`, `session.py` | connections, sessions, lanes, output listeners, text buffers | connect, transcript, control, persona switch, disconnect, output | state read before an awaited send and used after it; disconnect at any point | agents match sessions; output reaches only its own client; the session a client was bound to ends with its connection, and its lane loses its listeners |
| **Agent registry** `engine/registry.py` | agents by id, in order of creation | create (by sessions, and by the first run of a persona's cron jobs), remove, lookup with fallback | lookups for agents that are gone; agents of cron jobs stay for good and answer as fallbacks | a live session runs on its own agent |
| **Cron** `cron/*` | job objects, `jobs.json`, APScheduler's triggers | add, remove, enable, disable, execute, run now, start, stop | three copies of a job, executions that end after an edit, crashes | the copies agree; definitions survive; runs are counted |
| **Orchestrator** `engine/orchestrator.py` | runs of sub-agents | `route_to_agent`, `_run_subagent` | the cap is shared by all connections, and a connection waits for its sub-agent even when the client has left; truncated streams | the cap holds; every run is discarded, however it ends |
| **Memory** `engine/memory/*` | working memory, short-term and episodic files | recall, store, flush, prune | as the program uses it, nothing: see section 7 | |
| **Hooks** `engine/hooks/*` | handlers by event | register, trigger | the digest hook runs after the session's end | the digest reaches the meeting's agent (it does not: section 5) |
| **Frontend client** `frontend/src/lib/wsClient.ts`, `hooks/useMeeting.ts`, `hooks/useWebSocket.ts` | sockets, reconnect timers, pending requests | connect, reconnect, prompt, correlate replies and errors | close events of a replaced socket; handlers that close over the last render; sends that are dropped | one live socket; a page that wants to be connected is in the end; every prompt is accounted for and settles |
| **Knowledge base**: tools, vault, search, feedback database, scripts | notes, rows, processes | write, append, search, feedback, seed | processes that outlive their calls, torn files, two names for one file, a script that checks and then writes | what an agent is told is so; seeding replaces nothing; every call returns |

Speech-to-text provider, skills and workspaces, shared configuration and the
frontend's views are adapters, data or rendering (see section 7).

### How the parts interact

- *Calls.* The router calls `CommandQueue.enqueue`; the queue calls
  `AgentRunner.handle_run` in a task of its own; the runner finds an agent in the
  registry and iterates over `AgentRuntime.run`.
- *Callbacks.* While a run executes, `enqueue` in mode "steer" calls
  `inject_transcript` of that run's agent. The runner calls the output listeners
  of the run's lane, which are closures over the state of a connection.
- *Prompts.* `_handle_agent_prompt` awaits `Orchestrator.route_to_agent` inside the
  connection's receive loop: what the client sends later waits. Sub-agents of
  all connections share one cap.
- *Files.* Tools write the vault from the event loop, or through the obsidian command
  line in a process of its own; the seeding scripts write the same files.
- *Shared state.* All runs of an agent share one conversation and one steering
  queue; all connections share the registry, whose *first* entry is the fallback
  of every lookup that fails.
- *Cron jobs.* The scheduler enqueues a due job on a lane of its persona; the first run of that lane
  registers an agent `cron-<persona>`, which nothing removes.
- *Hooks.* The end of a meeting triggers a hook that enqueues a digest on a lane
  of its own. The scheduler triggers hooks before and after an execution.

What the models found worth worrying about is listed, at its line, under
"hazards" in PROJECT.json. Where the code does go wrong at a hazard, the properties
that touch it name that case and say what holds around it; the hazard's note says which case that is.

## 2. Modules

| module | models | state |
|---|---|---|
| `CommandQueue` | `engine/queue.py`, whole | one variable per field of `CommandQueue`; `runs` keeps every `AgentRun` made; `arrived`, `steered`, `dropped` are history |
| `SessionInbox` | what the queue promises its callers (abstract); `Safety` is its specification without fairness | an inbox per session, turns that take it whole |
| `TranscriptBuffer` | `audio/buffer.py`, whole | `buf` is the object's fields; `holder`, `lockQueue` the asyncio lock; `inflight` the callback being awaited; `chunks`, `entries` history |
| `AgentRuntime` | `AgentRuntime.run`, `_manage_context`, steering; `AgentRunner.handle_run`; `compactor._compact` | `messages` is the conversation, each element the set of log numbers it stands for; `log`, `injected`, `overlapped` history |
| `Gateway` | `websocket_endpoint`, router handlers, `SessionManager`, `AgentRegistry`, `_resolve_agent`, the listeners, the digest hook, the cron jobs' lane | `conns` holds the local variables of each connection's handler; `status`, `laned` the session manager; `agents` the registry; `waiting` the messages that have no run yet, each with its lane; `made`, `cards` history |
| `CronScheduler` | `cron/scheduler.py`, `store.py`, `defaults.py` | `objects` every job object of this process, `file` jobs.json, `schedule` APScheduler; `wanted`, `counted`, `mishaps` history |
| `Orchestrator` | `route_to_agent`, `_create_subagent_runtime`, `_run_subagent`; the router's choice of agent and skills | `activeRuns`; `subagents`, the runtime each caller waits for |
| `MeetingClient` | `wsClient.ts`, `useWebSocket.ts`, the agent requests of `useMeeting.ts` | the variables of `createWSClient`, the browser's sockets, the hook's state and what the last render saw; `lost`, `mishaps` history |
| `PromptPath` | composes `MeetingClient` and `Orchestrator` by the receive loop of `server.py` and `_handle_agent_prompt` | `conns`, the handler of each connection; both directions of each socket |
| `LLMTurn` | `engine/context/*`, message conversion and streams of `engine/llm/*`, the event loop of `AgentRuntime.run` | `messages` with lengths; the response being streamed, what has arrived and what is assembled |
| `KnowledgeBase` | the writing and the waiting tools, `vault/writer.py`, `qmd_client.py`, `feedback/terms.py`, the seeding scripts | `files`, `calls` and their `process`, `rows`, the `seeder` |
| `CommandQueueProofs`, `TranscriptBufferProofs`, `AgentRuntimeProofs`, `LLMTurnProofs`, `KnowledgeBaseProofs`, `GatewayProofs`, `PromptPathProofs`, `CronSchedulerProofs` | theorems about the modules they are named for | |
| `MC...` | instances for TLC: values of functions and sets that a `.cfg` cannot write, symmetry sets |  |

History variables never occur in the guard of an action (the counters that bound
a run do, see section 4). Definitions marked `(mutant)` are deliberate bugs, used
by no specification: exchanging a definition for its mutant must make TLC find
the property that PROJECT.json names violated, which shows that the property
depends on that line of the code.

Some correspondences that are not obvious:

- **Drain is a step of its caller.** `_drain_session` holds the session's lock
  around a body without a suspension, so the lock is never contended, and the
  drain belongs to the action `DebounceFires` or `FinishRun` that calls it.
- **`Startable` in `DebounceFires`.** A timer sleeps for a second; a task that is
  ready runs before the loop waits. So no timer fires while a run could take a
  free permit. Without this guard the model would let a queue overlap its runs
  even on an idle lane, which the program cannot do.
- **Messages are numbers, items are sets of them**: a summarised item carries
  those messages whose text fits into its 500 characters (`SummaryLen`), and the
  others are `dropped`.
- **Tasks that are cancelled.** `_cancel_timer` inside a flush that the timer
  itself runs marks the running task; the error is raised at its next
  suspension. `CallbackCancelled` is that suspension; a callback that never
  suspends (`waits = FALSE`) is not hit by it. The repository
  fixes no callback, so `CallbackWaits` is a parameter.
- **Compaction.** `CompactionReturns` assigns the digest of `snapshot`, the list as it was when the
  summary was asked for. Whether a conversation is over budget is a free choice
  once it is longer than the protected parts.
- **Gateway and queue.** Of the queue `Gateway` keeps only that a run takes messages
  that wait on one lane, the oldest first: how many it takes is open, and a run may start
  while an earlier one of its lane still executes, as the code lets it when permits are short
  (`queue_contended`). That allows every choice of debounce, drain and permits; the
  order of runs, steering and overflow are the subject of `CommandQueue`.
- **Agents.** Session n has agent n. The agent `cron-<persona>` is the persona itself; it is registered by the
  run that looks it up (`Registered`), or its creation raises and the run is over.
- **Replies.** `Connect` creates the session, `Bind` happens after `send_json`
  returned; `Disconnect` may happen in between.
- **Cron objects.** `_execute_job` keeps the object it looked up; replacing a job
  makes a new object with the same id. So an execution refers to the n-th object
  of an id, which need not be the current one.
- **Sub-agents.** A run id of the orchestrator is the caller that waits for it: a
  connection awaits its sub-agent and so has one at a time. Building the runtime
  suspends nowhere, so test, slot and runtime are one step.
- **Sockets** are numbered in the order of `connect()`; the close event of a socket
  may come after a newer one was made. `rendered` is what the handlers and
  callbacks of the last React render closed over. The list of pending requests is a set of their
  numbers: a new one goes to the end of the list, so the first is the least.
- **Streams.** The pieces of a response's calls arrive in any interleaving that
  the index of a piece permits; Claude's blocks come one after the other and are emitted
  when they end, the calls of the OpenAI and LiteLLM providers at the finish.
- **Lengths.** `LLMTurn` has the constants of the pruner, the counter and the compactor
  at their real values and conversations of real lengths in characters; only what
  text they consist of is abstracted.
- **Notes.** A note is the sequence of the texts in it, each text the number of the call that
  gave it first (a retry gives the same text again), with a flag whether the file is
  `whole`. The process of a call is separate from the call: it may end later,
  or never. Tools that only ask (`qmd_search`, `web_search`, `blog_scan`, `rss_fetch` and
  those like them) differ in whether a second question follows the first.

## 3. Properties

Each property's comment in its module says which behaviour of the code it is
about. The main ones:

- **Queue.** `ExactlyOnce`: a message is in exactly one place (waiting in one
  session, in the input of one run, steered, dropped). `NoneStranded`: while the
  queue is running, waiting messages have a timer, or a running run whose cleanup
  drains them. It is not evident: a timer that finds a run active gives up for
  good, and of two overlapping runs the first to end removes the other's entry.
  `TurnsInOrder`, `PermitsBalance`, `DepthBounded`, `StopDrainsNothing`.
  Liveness: `EveryMessageAnswered`. Refinement: `ImplementsInbox`.
- **Buffer.** `NothingLost`, `OneSpeaker`; liveness: `EveryChunkFlushed`, which
  says too that pending text has a timer and that callers get out of the lock.
- **Runtime.** `NothingForgotten` (for runs that do not overlap; the recent messages
  are there as they are), `InOrder` (with calls directly before their results, whatever runs
  interleave), `SteeringComplete`, `TranscriptCovers`.
- **Gateway.** `AgentsMatchSessions`: the registry has the agents of the sessions that have not
  ended and those of cron runs, and a connection that has gone leaves its session ended and no
  listener on its lane; sessions that a connection made and is not bound to are exempted, for the
  code leaves them alive. `OutputStaysHome`: cards and buffered text stay with the connection that
  made the session, and text of a run that ended with success is never shown again. A card
  may hold text of a run that failed or that still executes, since a client's runs
  share one buffer and may overlap. `LiveRunOnOwnAgent`.
- **Cron.** `DefinitionsKept`, `EnabledIsScheduled`, `StateSettles`;
  each names the mishaps (a torn write, a schedule that raises, a job replaced
  during its own execution) under which the code does not keep it.
- **Prompts.** `RequestsAccounted` relates what the page shows as waiting to the two
  directions of every socket, to the connections and to the sub-agents. `OneSocket` names the two
  mishaps (a late close event, two reconnect timers at once) under which the client
  loses count of its sockets. Liveness: `Reconnects` holds through them all;
  `RequestsSettle`: only a closed socket keeps a request waiting.
- **Turns.** `BudgetKept`, `RequestPaired`, `CallIntact`.
- **Knowledge.** `ReportsTrue` is about what agents believe: written is written, failed
  is not, nothing twice; it names the timeouts and crashes after which
  nobody can know. `SeedsYield`: a seeding replaces no note and
  leaves none out. Liveness:
  `CallsReturn`.

## 4. Runs

"States" are distinct states, with 2 workers a run takes from a second to about
two minutes.

| run | question | bounds | states |
|---|---|---|---|
| `queue_lanes` | all safety properties of the queue when lanes are contended and queues overflow | 2 sessions, 2 lanes with 1 permit each, cap 2, policy summarize, 4 messages | 252 k |
| `queue_uncontended` | with as many permits as sessions, is a session serial? yes | 2 sessions, 2 permits, cap 2, drop_new, 5 messages | 303 k |
| `queue_live` | is every message answered; does the queue implement `SessionInbox`, liveness included? | 2 sessions, 1 permit, drop_old, 3 messages | 3.5 k |
| `queue_contended` | *violated:* "concurrency=1 (strict serial)" per session | 3 sessions, 2 permits, 4 messages | |
| `buffer_shared` | all properties of the buffer | 2 callers and the timer, 2 speakers and None, batch of 2 words, 3 chunks, 1 forced flush | 46 k |
| `runtime_runs` | all properties of the runtime with up to two runs at a time | head 1, tail 2, 3 runs, 2 tool calls, 2 steered chunks | 1.1 M |
| `gateway_clients` | all properties of the gateway | 2 clients, 3 sessions, 2 messages, 1 persona with cron jobs, every client action | 768 k |
| `gateway_digest` | *violated:* a digest runs on the agent of its meeting | 2 clients, 2 sessions, 2 messages | |
| `cron_jobs` | all properties of the scheduler | a default job and a user's job, 2 edits, 2 executions, 2 starts, crashes | 533 k |
| `prompt_path` | does every prompt get somewhere, while sockets fail, close late and are made again? | 1 page, 4 sockets, 2 prompts, 1 other user call, 1 failure, cap of 1 sub-agent | 443 k |
| `llm_turns` | what goes to an LLM and which call is executed of what comes back | 3 providers, 5 responses, inputs up to 356 000 and results up to 120 000 characters, budget 100 000 tokens, head 1, tail 2, 2 runs, 3 calls | 376 k |
| `knowledge` | is what an agent is told so, while processes hang, answer late and die, and scripts write? | 2 agents, 2 names for one file, 2 tool calls, 2 starts of `seed_terms.py`, the other script, 1 crash | 335 k |

Every bound is a constant named in its module. Why they are enough:

- *Queue.* Four messages are the fewest with which a session overflows (2 + 1),
  is drained, and another session keeps the lane busy; with two lanes of one
  permit a drain after a run (which always goes to the main lane) meets a run of
  the other lane. Fewer permits than sessions is what makes runs of one session
  overlap. The caps of the code (20 messages, 4 permits) are scaled down so that
  both limits are hit; the proofs cover every value.
- *Buffer.* Three chunks: one pending, one that flushes it by speaker or by
  count, one that waits for the lock meanwhile. One forced flush is one more
  contender for the lock. Words per chunk are 1..2, so a chunk may fill a batch
  alone.
- *Runtime.* Head 1 and tail 2 let a conversation be compacted after four
  messages and again after that; two tool calls put a boundary between and
  inside runs; three runs let a third run see what two overlapping ones left.
- *Gateway.* Two clients, one of which can end while the other's session runs;
  a third session allows one reconnect or persona switch; two messages allow a
  waiting message whose session ends, and a digest. Two messages are also two runs that overlap on one
  lane and share a buffer, or a cron job whose agent then answers another lane.
- *Cron.* Two executions overlap on one job or run on two; two edits make
  remove-and-add and disable-and-enable; two starts are a restart.
- *Prompts.* Four sockets are as many as these calls and failures can ask for, so
  the bound never holds `connect()` back; two prompts make an error blame the
  wrong one and fill the cap of one. The cap of the code (4) is scaled down; both ways of not getting a
  sub-agent (no workspace, no room) and of leaving it occur.
- *Turns.* The lengths are chosen around the thresholds: 356 000 characters alone
  leave 11 % of the budget, a result of 1500 is exactly the length that is not trimmed,
  two results of 120 000 cross 70, 85 and 90 %, and 100 characters are about to be
  cleared to more than they were. A second run begins with what the first has left.
- *Knowledge.* Two calls are a retry, an overwrite or two agents on one file; a second
  start of the seeding is what comes after a crash of the first. `ReportsTrue` was also
  checked with three calls.

Deadlock is checked except in `buffer_shared` and `cron_jobs`, where
nothing need happen once the bounds are used up (for the buffer, that it stops
nowhere else is what its liveness property says). `CommandQueue`, `AgentRuntime`,
`Gateway`, `PromptPath` and `LLMTurn` have an explicit idling step whose guard says when the system may rest, so any
other stop is reported; in `KnowledgeBase` the second script can always run once more.

### Fairness

- `CommandQueue`: weak fairness of each timer, of each lane's next start and of the
  end of each run. The event loop runs ready tasks and due timers; asyncio
  semaphores serve their waiters in order; a run ends because streams and tools
  end or raise. Nothing obliges a caller to enqueue or to stop. The number of
  messages is bounded in every run, so the starvation of a debounce timer by
  speech that never pauses for a second (every message cancels the timer,
  `queue.py:243`) is outside `EveryMessageAnswered`; it is recorded as a hazard.
- `TranscriptBuffer`: weak fairness of the timer, of entering the lock and of the
  end of the callback. Nothing obliges a caller to feed.
- `PromptPath`: weak fairness of the page's event loop (timers, renders, deliveries,
  sockets that open or fail and those that close) as a whole, and of the task of each
  connection: it receives, its sub-agent's run ends, it replies or hangs up. Nothing obliges
  the user to act, an open socket to fail, or a lane to report an error.
- `KnowledgeBase`: weak fairness, for each call, of its return, its timeout and its second question.
  Nothing makes a process end, a script run or a server answer. (The timeout of an HTTP
  client is one of each read; a server that sends without end is not considered.)
- The other specifications state safety only and no fairness.

## 5. Findings

Two statements of the repository that the code does not keep; each is a run
that ends in a counterexample.

1. **`queue_contended`** `engine/queue.py:264`. "Session Lane: one per
   conversation, concurrency=1 (strict serial)" (`queue.py:6`). A run enters
   `_active_runs` after it has its lane's permit. While it waits for one, the next
   debounce of its session creates another run, and both execute together when
   two permits are free.
2. **`gateway_digest`** `engine/hooks/builtin.py:103`. The digest of a meeting is
   put on a lane whose agent does not exist, after the meeting's own agent was
   removed: another meeting's agent processes it, or none.

Seen while modelling. The properties above hold with these (some name them as mishaps):

*Queue, buffer, runtime, gateway, cron*

- When the first of two overlapping runs ends, it removes the other's entry from
  `_active_runs` and its steer callback: `is_running` is then false although a
  run executes (`queue.py:315`, `:225`).
- A flush by timer cancels its own task: at the callback's first suspension the entry,
  whose text has been cleared, is cut short (`buffer.py:130`).
- The result of an awaited summary overwrites what an overlapping run appended
  meanwhile, its input included (`runtime.py:226`), although the last messages are
  said to be "never compacted" (`compactor.py:27`).
- A chunk steered into a run that calls no further tool waits for a tool call of a
  *later* run (`runtime.py:338`), whereas steering is described as immediate
  (`queue.py:35`).
- After a run that fails, the text it had emitted is the start of the next run's
  cards (`server.py:292`). Two runs of a client that overlap fill one buffer: the first to end
  shows text of the other, and what the other emits while those cards are sent is lost (`server.py:290`).
- The agent of a persona's cron jobs stays registered (`runner.py:173`). If it is the oldest, it answers
  the digests and the messages of ended sessions.
- A paused session accepts transcripts: only the lane is tested (`router.py:151`).
- A client that leaves while its connect reply is sent, switches persona, or
  connects twice leaves an active session with its agent (`server.py:314`); after
  a persona switch, whose session id "stays the same" according to its docstring
  (`router.py:265`) but does not, the connection stays bound to the session that has ended.
- `_sessions` is never shrunk (`session.py:80`).
- `jobs.json` is truncated and rewritten in place, and an unreadable file is taken for an
  empty one: a crash during a save loses all jobs at the next start (`store.py:127`).
- An added cron job whose trigger cannot be constructed stays in memory but not in
  the file (`scheduler.py:285`); a job stored with such a trigger keeps the
  scheduler from starting. A job whose new schedule yields no trigger at all
  keeps firing by its old one (`scheduler.py:124`). `run_now` of a
  disabled job does nothing though the endpoint answers "triggered"
  (`scheduler.py:184`). An execution of a replaced job writes its state into the
  entry of the new one (`scheduler.py:239`).

*Client, prompts and sub-agents*

- "A single connection per meeting" (`wsClient.ts:4`) fails when the close event of a
  replaced socket arrives late: it starts a reconnect beside the live socket. A failed
  socket may start two reconnect timers (`wsClient.ts:97`, `:133`).
- An error names no request; the client blames the first pending one of its last
  render (`useMeeting.ts:205`). `send` drops what it is given while no socket is open.
- The agent `doctor` has no workspace, so that every prompt to it is refused, although
  `router.py:376`, `AgentChatPanel.tsx:9` and `orchestrator.py:102`, `:247` name it.
- A response cut off at its limit leaves the loop over the run by `break`; the run's generator
  stays suspended, so its end (the stored response, `agent:done`) is never reached
  (`orchestrator.py:265`).
- The delegation context, put into working memory for the sub-agent, is replaced by
  what the recall of memory returns (`runtime.py:244`, `orchestrator.py:157`). Each run
  of a sub-agent leaves a memory directory that nothing reads again (`orchestrator.py:137`).

*Turns*

- Compaction follows the prunings, so that the summary sees only placeholders of what they
  cleared, and may be longer than what it replaces: a request may be larger after a
  compaction than before it (`BudgetKept` says so). Clearing replaces results shorter
  than the placeholder too.
- The budget counts skills and memory twice and tool definitions never.
- A compaction may cut between a tool call and its result; the result then stands
  behind a summary (`compactor.py:116`).
- The runtime executes the first tool call of a response and forgets the others. The
  chat providers emit nothing of a response that ends with "length", and the OpenAI one nothing of
  a response that ends with "stop", so that a call is dropped in silence; Claude's executes
  a call that was cut off with no input.

*Knowledge base*

- The two vault hooks are registered (`hooks/builtin.py:154`) and nothing triggers them: the
  program never refreshes QMD's index, and a search before a write cannot find what was
  written since. An error of a query is reported as "no results" (`qmd_client.py:111`).
- The obsidian tools do not kill their process at its timeout (`obsidian_cli.py:45`): it may write
  after the agent was told that it failed, and an append that is tried again is then there
  twice.
- A note torn by a crash counts as existing and is left as it is by later seedings. `load_seeds.py`
  tests for a note and then writes it; `seed_patterns_concepts.py` overwrites without a test.
- `term_feedback` does not normalise the slug it is given. Feedback on cards is a TODO in the
  router (`router.py:308`). `blog_scan` promises "only NEW" articles and lists all unread ones.

## 6. Proofs

Every theorem below holds for every value of the module's constants that satisfies the
ASSUME of that module (counts are naturals, sets of actors that are counted are finite, a
cap or a capacity is positive, the list of seed terms is not empty, and so on; each is named where the constants are declared).
The bounds of the runs are constants too, so that a theorem holds for any number of
messages, chunks, runs, connections or edits.

| module | theorem | property |
|---|---|---|
| `CommandQueueProofs` | `TypeCorrect` | `TypeOK` |
| | `NothingStranded` | `NoneStranded` |
| | `DepthStaysBounded` | `DepthBounded` |
| | `NoRunAfterStop` | `StopDrainsNothing` (of steps) |
| | `NoPermitLeaks` | `PermitsBalance` |
| | `SerialWhenUncontended` | `StrictSerial`, if every lane has a permit for each session |
| | `NothingLostOrTwice` | `ExactlyOnce` |
| | `TurnsStayInOrder` | `TurnsInOrder` |
| | `ImplementsInboxSteps` | every step is one of `SessionInbox`, or a stutter |
| `TranscriptBufferProofs` | `BufferTypes` | `TypeOK` |
| | `NoChunkLost` | `NothingLost` |
| | `OneSpeakerPerEntry` | `OneSpeaker` |
| | `OneTimer` | pending text has a timer, whose task waits for the lock once |
| `AgentRuntimeProofs` | `RuntimeTypes` | `TypeOK` |
| | `ConversationInOrder` | `InOrder` |
| | `NoMessageForgotten` | `NothingForgotten` |
| | `SteeringKept` | `SteeringComplete` |
| | `EveryRunPersisted` | `TranscriptCovers` |
| `LLMTurnProofs` | `TurnTypes` | `TypeOK` |
| | `CallsStayPaired` | `RequestPaired` |
| | `BudgetIsKept` | `BudgetKept` |
| | `FirstCallIntact` | `CallIntact` |
| `KnowledgeBaseProofs` | `KnowledgeTypes` | `TypeOK` |
| | `ToolsTellTheTruth` | `ReportsTrue` |
| | `SeedingYields` | `SeedsYield` |
| `GatewayProofs` | `GatewayTypes` | `TypeOK` |
| | `NoAgentLeaks` | `AgentsMatchSessions` |
| | `OwnAgentRuns` | `LiveRunOnOwnAgent` (of steps) |
| | `SuggestionsStayHome` | `OutputStaysHome` (an invariant, and of steps) |
| `PromptPathProofs` | `PathTypes` | `TypeOK` |
| | `RequestsAreAccounted` | `RequestsAccounted` |
| | `ClientHasOneSocket` | `OneSocket` |
| `CronSchedulerProofs` | `CronTypes` | `TypeOK` |
| | `DefinitionsAreKept` | `DefinitionsKept` |
| | `EveryEnabledJobFires` | `EnabledIsScheduled` |
| | `StateIsSettled` | `StateSettles` |

The arguments:

### Command queue

- `TypeInv` is `TypeOK` together with "every number in a lane's queue or in
  `_active_runs` is the number of a run". `TypeOK` alone is not inductive: a start
  reads `runs` at the head of a lane's queue. Every operator on queues
  (`Queued`, `Summarize`, `DrainSession`) has a lemma that it keeps types.
- `StrandInv` adds `ActiveRunsRun` (what `_active_runs` holds is RUNNING) and
  `NoneStranded`. Both are needed: when a timer gives up because a run is
  active, that run must still be one whose end will drain; and when a run ends it
  may empty the entry of *another* run of its session, after which the only thing
  that saves waiting messages is that its own drain has just emptied the queue
  (`DrainEmpties`).
- `DepthBounded` needs the length of a summarised queue: at most half of it, plus
  the summary, plus the new message (`QueuedLength`), which is where the limit 4
  for small caps comes from.
- `PermitInv` adds `LaneShape`: the runs in a lane's queue are distinct, are of that lane
  and are in phase "queued". Then a start moves exactly one run
  from waiting to RUNNING, and the number of RUNNING runs of a lane
  changes by exactly what its semaphore changes.
- `StopDrainsNothing` needs only that every drain tests `_running` (`StoppedDrain`).
- `StrictSerial` has a hypothesis, `EnoughPermits`: each lane has a permit for every
  session. (`queue_contended` is the counterexample without it.) `SerialInv` says that a
  session has at most one live run, in `_active_runs` if it executes and in its lane's queue if
  it waits. The sessions of a lane's executing runs and of one that waits are all different, so by counting
  there is a permit for it (`PermitLeft`); and no timer fires while a run can take one.
- What steps do to messages is said once, by `MoveLemma`: a step steers one message, queues
  one, drains one session whole, or moves none. `ExactlyOnce` follows by induction
  with `Fresh` (a message that is anywhere has arrived), and `TurnsInOrder` from that
  and from the order inside `Summarize`.
- The refinement needs `EndsInMessage`: the last item of a session that waits is a message,
  never a summary, so that a drain takes a nonempty turn. Each kind of step is then a step
  of `SessionInbox` or changes neither inboxes nor turns.

### Transcript buffer

The lock is held across the callback, so while an entry is in flight nothing is pending
(`HeldIsEmpty`). A task that resumes to commit its chunk therefore starts a new text with
its own speaker, whatever the speaker was when it asked for the lock; with `AllLabelled`, each
text agrees with the labels of its chunks, that is `OneSpeaker`. `TimerWaits` ties the timer to
the pending text and to its one place among the waiters for the lock: a timer
that is cancelled must leave that queue, and a new one may then be made.

### Agent runtime

- `Conversation(ms, lg)` says that one list is in order, of nonempty elements, and has its tool
  results behind their calls. Appending the newest messages keeps it (`Lengthened`), so does
  replacing the middle (`Digested`), and a list keeps it when the log grows behind its
  back (`LogGrows`). It is stated of `messages` *and* of every snapshot, and for this
  reason it does not matter which of several overlapping compactions writes back which list.
- `NothingForgotten` needs `Alone`: before the first overlap at most one run executes,
  its snapshot is the conversation itself, and the last elements are the last messages one by one
  (`Aligned`). The protected tail of a digest is what keeps `Aligned` true.
- `SteeringComplete` is inductive. A growth of the log either adds no chunks (`QuietGrowth`) or adds one
  update that takes all that wait (`MergingGrowth`).
- `TranscriptCovers` needs `Accounts`: a message in the log shows in the flags of its run, which
  are never taken back, and a run enters the transcript when it ends, so at most once.

### Turns

- `Conversation(ms)` says of a list that its calls and results are paired (`Paired`), that what is
  cleared is older than every result that is not (`OldestFirst`), and that a cleared result is too short
  to be trimmed (`CutIsShort`: otherwise a soft trim of the next call would undo a clearing).
  Each thing that is done to the conversation keeps it: appending messages of which none is cleared
  (`Appended`), the soft trim (`SoftTrimKeeps`), clearing the results up to any place (`ClearKeeps`) and
  a summary in place of the middle (`SummaryKeeps`). Token counts decide which of these
  happen and how far a clearing goes, and these arguments do not look at them.
- `Fitting` is the other part of `BudgetKept`: the LLM is called with a conversation that fits in
  90 % of the budget or in which nothing is left to clear. A count is a sum over a list (`Total`, a
  recursive function), so its lemmas are inductions on the length. The library's induction theorems
  cannot be instantiated here, for they take a predicate as a parameter; `Inductive` says the same
  of a *set* of numbers, by a least counterexample, which the order of the naturals provides. With it: a sum
  of naturals is one, a list that is nowhere heavier weighs no more (`SumsGrow`), and a list with a summary,
  which is not counted, for its middle weighs no more than the whole did (`AroundAtMost`). `PrunedFits`
  goes through the returns of the pruner: it stops under the limit, or it has been through
  all results; `CompactedFits` says that compaction adds nothing that is counted.
- `Streams` ties what is assembled to the pieces that have arrived, call by call. If an event with a call
  is emitted, the first call has begun (`FirstCall`): a response is cut off in its last call only, and
  Claude's blocks come one by one. So the smallest index assembled is 1.

### Knowledge base

- `ReportsTrue` speaks of calls that have returned, but a process goes on after its call was given
  up, and a crash leaves processes whose calls nobody remembers. `NotesInv` says of both what
  `ReportsTrue` says of calls: a call *wrote* when its tool reported so or when its process is done
  and nobody has asked it yet (`Wrote`). Then a text in a note comes from a call that wrote
  (`TextsGiven`); what wrote is in its note, unless a call that replaces it covers it, a seed stands there or
  the note is torn (`Reported`).
- Nothing is there twice (`TextsOnce`) because an agent gives a text again only when every call with it has
  failed or timed out (`Superseded`), and a failed call has no process any more (`CallFits`).
  So of two calls that wrote the same text the older one timed out.
- Each lemma about notes is said of values (`NotesStay`, `NotesLost`, `NotesReplaced`, `NotesAppended`: nothing
  is written, a torn write or a seed, a replacement, an append), and each action is one of them or,
  for a server that dies while it writes, two in a row.
- `SeedInv`: what the seeding has passed is there, for no step removes a note; what it is about to write is
  there only if an agent's write has raced it. Every write of an agent sets that flag when it hits the
  place (`AgentsWrite`), and the script of patterns and concepts writes to other folders.
- `FeedbackInv` is the last part of `ReportsTrue` with the types of its counters.

### Gateway

- A session is made by one connection (`MadeOnce`), and a connection listens only on lanes of
  sessions it made (`ListensToMade`): that separates clients.
- `Agree`: the registry has each live session's agent once, next to the agents that cron runs have
  created, which no step takes away (`CronKept`, `StartAgrees`), and the sessions with a lane are the live ones.
  `GoneIsOver`: what a connection was bound to when it left has ended. Both are needed for the disconnect that
  overtakes the reply to a connect.
- `RunsPaid` bounds the number of runs by the messages that have been enqueued and wait no more. `TextHeard`
  says that a connection that is there listens to every run whose text it still holds, and that run has not
  ended with success: `CardsSent` clears the buffers of those that hear. So a new card, made of a buffer, shows no
  such run again (`NewCards`), whichever runs overlap.

### Client, prompts and sub-agents

- `SocketInv` is about the client alone. `connect()` makes a socket only when the current one is
  not live, so a second live socket needs a close event that takes the variable away from a newer one:
  that is the mishap "lateClose" (`OneLive`). Of one timer `reconnectTimer` knows
  (`TimersKnown`), so `disconnect()` clears it; only a second one escapes.
- `SlotInv` is about the orchestrator alone: slots are the callers that have a sub-agent, so
  test, slot and end count the same things, for any number of callers.
- `Located` says where a request that waits can be. Each step adds a message to one channel,
  takes the first of one or empties one (`Added`, `Taken`, `Emptied`), and what leaves one place
  arrives at another, is shown or is thrown away. A connection may take a prompt on
  without losing one because it has none unless it waits for a sub-agent (`Idle`), and its loop begins
  without one because it begins when its socket opens (`Begun`).
- `GreetInv`: what a connection that is not bound has been sent, or could be sent, begins with
  a handshake. The second half is what makes it inductive: `onopen` sends the handshake to the socket of
  `ws`, which need not be the one that has opened, but then to the one that prompts would be sent to.

### Scheduler

- An execution changes no definition (`DefinitionsSame`), so `Kept` (file, live jobs and what
  clients asked for agree) is a matter of edits, start and stop; the torn write and the trigger
  that raises are the two exceptions that the property names.
- `FileMatches`: an execution of a job that was not replaced works on the object
  that `_jobs` has, and a job with none under way is in the file as it is in memory.
  `Counts` counts executions under way among those begun, which makes the bounds of `total_runs` inductive.

TLC checks each of these properties too, and the strengthened invariants were checked
before they were proved.

### Only model-checked

Every invariant and every property of steps that a passing run checks is proved. What is left is
liveness under fairness, which is beyond the prover: `EveryMessageAnswered`, `EveryChunkFlushed`,
`Reconnects`, `RequestsSettle`, `CallsReturn` and the fairness part of `ImplementsInbox`
(its safety part is the theorem `ImplementsInboxSteps`).

## 7. What is not modelled

- *Agent runtime and registry:* `register_tool`, the wait for the recall of memory (it changes
  the prompt only), the construction of an agent from its persona.
- *Gateway:* memory queries (a read), the audio key, the status and settings endpoints.
- *Memory:* `engine/orchestrator.py` makes one per run of a sub-agent; it is recalled
  from once, gets the entries of that run and is then dropped. Eviction, a
  second recall, a flush of what was evicted and pruning are not reachable; `store_note`,
  `store_episodic`, `clear_working` and the transcript index have no caller. A model of
  them would be of a program that does not exist.
- *Hooks:* of the built-in hooks only the digest has an effect on other parts. The vault
  hooks are never triggered, the memory hook finds nothing to store, the others log.
  Registration happens once, at the start.
- *LLM providers:* `complete()`, used for summaries (in the model an answer or an error), and
  LiteLLM's own fallback lists.
- *Cron:* one-shot jobs, whose fate is how APScheduler treats past dates.
- *Tools, vault, search:* the branch of `_ddg_search` for the package `duckduckgo_search` (`web_search.py:100`), which is
  no dependency of the program and would block the event loop; the texts that
  `seed_patterns_concepts.py` writes (only where they go, and that nothing is tested first); `obsidian_move` (renames by an external command), blogwatcher's
  database, the vault reader, maintenance of the index (no caller in the running program).
- *Feedback database:* sessions and rankings, single statements each.
- *Scripts:* all but the two that seed the vault; they run once by hand, and
  `run_migrations.py` imports a package that the repository does not have.
- *Frontend:* cards, transcripts and statistics (appended and shown), rendering. Of audio capture,
  a start and a stop that overlap are not modelled: what they race for is a browser's
  microphone.
- *Speech-to-text:* threads and sockets of the Deepgram SDK; what it delivers is the environment
  of `TranscriptBuffer`. Skills and workspaces are files read once; shared types and settings
  have no behaviour.

## 8. Plan

The modules of the plan are written, in this order: `CommandQueue` with `SessionInbox` and
proofs, `TranscriptBuffer`, `AgentRuntime`, `Gateway`, `CronScheduler`; then
`Orchestrator`, `MeetingClient` and their composition `PromptPath`, `LLMTurn` (context
management and providers), `KnowledgeBase`. Memory and hooks, planned at first, are not, for the
reasons in section 7.

Two hazards have no property, because no bounded run can show them: a timer
that speech keeps restarting (`queue.py:243`), and a run whose LLM never stops calling
tools (`runtime.py:280`).

Every safety property of a passing run is a theorem; a change to the code that a module models is
to be made in the module first, and the runs and proofs say what it breaks.
