# A verification of anywh

anywh runs coding agents (Claude, Codex) on a machine of the user's and lets
phones and desktops follow and drive them. This directory holds TLA+ models of
the parts of it where the order of things matters, the TLC instances that
check them, and theorems about them checked by TLAPS. Every definition is a
translation of the code under `relay/src` (PROJECT.json, "map", names the lines
each one stands for); where a comment or a document says something the code
does not do, a run of its own shows it ("findings").

## The system

| Part | State | Operations | What must hold |
|---|---|---|---|
| Agent host, `agentHost/agentHost.ts`, `claudeProcess.ts`, `registry.ts` | agents by id, each with a process, a task queue, turn bookkeeping; `registry.json`; removing ids; room victims | spawn, send, stop, remove, hibernate, interrupt; process lines and exits; timers; drain and restore | no message dropped silently, stops win, the room cap, nothing left behind by a drain, nothing runs for a removed agent |
| Event log, `agentHost/eventLog.ts` | segments on disk, an active file, indexes | append, rotate, compact, retain, recover a torn tail, read from a cursor | a reader sees every record in order or is told of the gap |
| Socket server and client, `agentHost/socketServer.ts`, `hostClient.ts` | connections, subscriptions, replays, cursors | hello, subscribe, replay, live push, reconnect | exactly-once delivery to the consumer, gaps and resets told |
| Codex agents, `agentHost/codexPool.ts` and `agentHost.ts` 774-960 | one shared app-server, threads, turn ids | start thread, start turn, interrupt, notifications, loss of the server | a turn always ends, on the right agent |
| Host lock and process tree, `agentHost/instanceLock.ts`, `processTree.ts` | OS locks, /proc | acquire, sweep by mark | one host per profile |
| Session driver over the host, `runtimes/hostSessionDriver.ts` | the turn in flight, a subscription, a cursor | sendTurn, followTurnInFlight, stop, records, state changes | a turn of the relay ends once, with its own records |
| Runtimes, `runtimes/*` | per-turn processes, the Codex daemon | spawn, handshake, idle reaping, kill escalation | daemons do not outlive their use |
| Shared session, `session/sharedSession.ts` | a turn queue, history, clients, drafts, model, cwd | submit, edit, stop, clear, answer, follow | turns run one at a time, edits and clears meet the history they were made for |
| Choices, `session/choiceMachine.ts` | the pending choice, deferred and queued approvals, their mirror on disk | present, answer, defer, flush, discard, rehydrate | an answer reaches the question it was given to, once, across restarts |
| Rooms, `session/roomManager.ts`, `roomChannel.ts`, `roomContextStore.ts`, `roomWorktrees.ts` | members, queued messages, reports and outboxes, tombstones, files, worktrees | delegate, report, message, stop, remove with undo, purge, sweep | a report reaches its recipient once; a worktree on disk is always recorded |
| Bridges, `bridges/*` | none of their own | MCP and HTTP glue | an answer goes to the call that asked |
| Push, `push/*` | devices, retries in memory, presence leases | notify, retry, reject | retried a bounded number of times, silent while somebody looks |
| Plan usage, `planUsage/*` | readings, back-off, in-flight reads | decide, read, ingest | no read while one is in flight or backed off |
| Host services, `host/*` | wakeups, background jobs, profiles, terminals | arm, fire, poll, cancel | a wakeup or a job's result is delivered once, also across a restart |
| Client, `client/src/lib/relay`, `client/src/hooks` | connection, message log, tabs | reconnect, resend, page | the log shown is the relay's |

The client talks to the relay over web sockets; the relay runs a session's turns
through a driver; for room agents the driver talks to the agent host over a
unix socket; the host owns the agent processes and outlives the relay. The
behaviours that are hard are all of one kind: a single-threaded event loop with
many awaits, where what was read before an await is used after it, over
processes and connections that may end between any two steps.

## The modules

| Module | Models | Uses | Instances |
|---|---|---|---|
| `AgentHost` | the agents of the host, their queues, a room's cap, the drain | | `MCAgentHost`: `HostOne`, `HostLive` |
| `ReliableStream` | the abstract promise of a record stream | | |
| `LogStream` | one log, its reader, the server's subscription, the client | implements `ReliableStream` | `MCLogStream`: `StreamOne`, `StreamReturns` |
| `ChoiceMachine` | what is asked of a person, as pure operations with the writes they make | | through `SharedSession` |
| `SharedSession` | one session: its queue, conversation, questions, record | extends `ChoiceMachine` | `Session`, `SessionEdit` |
| `CodexAgents` | the host's Codex agents and the app-server they share | | `Codex` |
| `HostSession` | one session's driver over the agent host | | `Driver`, `DriverStop` |
| `Rooms` | a room's manager: queues, reports, digests, removal | | `MCRooms`: `Rooms`, `RoomsLive`, `RoomsRound` |
| `...Proofs` | theorems and their proofs | the module they name | |
| `LogStreamRefinement` | the proof that `LogStream` keeps `ReliableStream`'s promise | `LogStreamProofs` | |

They meet at narrow interfaces. `HostSession` sees of `AgentHost` one agent that
takes a message, shows it on its log and ends its turn, and of `LogStream` a
stream read in order, which is what `LogStream` is shown to give.
`SharedSession` sees of the driver that a turn starts and ends (done, stopped,
failed), which is what `TurnsSettle` of `HostSession` is about. `Rooms` sees of
each session a queue of turns, one at a time, and whether the host took a turn's
message.

The 12 runs are what the hazards need; definitions called `Mut...` are faulty
variants of the one they precede, used by no specification: PROJECT.json,
"mutants", says which property each breaks.

## AgentHost

### State

| Variable | Code |
|---|---|
| `current` | `AgentHost.agents`: which object an id names |
| `removing` | `AgentHost.removing`: ids whose log is being deleted |
| `agent` | an `Agent`: `life` = lifecycle, `ending`, `turn` = turnInFlight, `bg` = backgroundTasks > 0, `since` = messagesSinceInit, `settle` = settleTimer, `removed`, `logError`, `stops` |
| `cli` | its process: `st` none/up/gone (gone: `hasExited`, exit not reported yet), `in` = stdin, `out` = stdout not read yet, `work` and `busy` = the CLI's own turn, `eof` = told to end |
| `sweep` | `Agent.pendingSweep` |
| `queue`, `pc` | `Agent.queue` (`serialize`) and the await at which its head task stands |
| `room` | the locals of `makeRoomFor` and, by their union, `roomVictims` |
| `phase`, `cut` | `draining`, `closed` and the locals of `close()` |
| `saved` | `registry.json` (lifecycles) |
| `msg` | history: what became of each message |

An agent is a pair of an id and a generation, because a removed agent's object
can still have tasks queued when its id is spawned again.

### Actions

`Req...` are the requests (`handle`), which run up to `serialize`; `Run...` are
the queued tasks from their turn to their first await; `Waited`, `RoomAnswered`,
`ForkSucceeds`, `ForkFails`, `Detached`, `EndDone` what follows an await;
`OnExit`, `OnLine`, `Settle`, `SweepEnds`, `LogFails`, `LogDeleted` the
callbacks; `Drain`, `DrainCuts`, `DrainEnds`, `Closed` the parts of `close()`;
`HostRestart` a start after a close or a crash. Each is one uninterrupted run of
the event loop. Promise continuations run before the next event, so an I/O or
timer event requires `Quiet`: no object whose queue could go on at once. Requests
do not: several arrive in one read of the socket, each dispatched in a
continuation of its own.

A message's fate is a history variable: queued, overtaken by a stop, refused,
written, done, or lost with its process. Lost messages are told apart by what
the agent shows afterwards (`cut` when it shows stopped or failed, `dropped`
when it looks hibernated) and by whether an earlier message was still waiting
for its `init` when they were written (`crowded`).

The agent CLI is not in the repository. `TakeTurn`, `FoldIn`, `EndTurn`,
`Background`, `Exit`, `Crash` state what `onLine`, its comments and
`docs/agent-host.md` rely on: it announces a turn with `init`, may fold a message
into a turn, ends a turn with `result`, may start a turn of its own when a
background task ends, and exits when its stdin ends or it is killed.

### Left out

Codex agents (`CodexAgents` has them); `interrupt`, `stop_task` and `mark_awaiting`, which write to the
CLI or set `awaitingUser` but change no lifecycle (an interrupted turn is an
`EndTurn`); stop reasons and failure texts; the policy's choice of whom to
hibernate (any hibernatable agent may be chosen, at most one such request
waiting per agent); a log moved aside by the restore; agents of other rooms (an
agent without a room is one whose room never fills). Saves are atomic, as
`AgentRegistry.save` makes them; one that fails leaves the old file and is only
reported.

### Runs

| Run | Bounds | Shows |
|---|---|---|
| `HostOne` | 1 id, 2 generations, 1 message, 1 stop, queues of 3; a removal, hibernations, a drain; crashes of CLI and host, failing forks and log writes, background tasks, a CLI slower than the settle timer | `TypeOK`, `SavedTellsOfWork`, `RemovedIsOver`, `NoReuseWhileDeleting`, `DrainLeavesNothing`, `SweepAlone`, `StopWins` |
| `HostLive` | 3 agents, cap 2, two idle, 2 messages, 2 lines of output on their way, a drain, nothing fails; fair | `OneStartPerVictim`, `NoWaitCycle`, `AloneNotDropped`, `Answered`, `DrainCloses` |

A log that fails ends the agent, except that `write()` begins a turn after it
when the record that failed is that of its own message (agentHost.ts:531, 537):
`LogFails` has both outcomes.

The turn bookkeeping knows of a message only whether it was written since the
last `init`. `HostOne` spends its bounds on what else may happen to one message;
one stop and queues of three put the stop before, between and behind the tasks that
carry it. `HostLive` adds the second message, which may be in stdin behind the one
whose turn is being announced, be folded into that turn or come after it, and two
lines, an `init` and a `result` not read yet. A message is `crowded` when it was
written before the host had read that the one ahead of it was taken;
`AloneNotDropped` speaks of the others. `HostLive` starts from idle
agents (`IdleInit`, the state a spawn without a message reaches) so that its
bounds are spent on the race for places: three agents on two places let one
start take the other's victim, bring back an agent being hibernated, or find
nobody left to hibernate. Two generations are what reuse of an id
needs. Deadlock is not checked: with its messages and stops spent, an instance
may come to rest.

Disagreements of code and comment that the model shows and no run keeps, found
by instances since dropped for those above:

- The settle timer fires in a turn the CLI began by itself (seen as assistant
  output only, agentHost.ts:1119, not as `init`) and declares it over (1123); a
  message folded into that turn can then be dropped by a drain, which the comment
  at 1110 excludes. One agent, two messages and background tasks show it; so does, in
  their stead, a CLI that takes longer than the timer.
- `onLine` zeroes `messagesSinceInit` on any `init` (agentHost.ts:1132). Of two
  messages written before the first one's `init` is read, the second is then
  unread when the first one's result finds a count of zero and clears
  `turnInFlight`, and a drain or a hibernation drops it as an idle agent's.
  `AloneNotDropped` leaves such messages out (their fate is `crowded`); the
  comment at 1110 does not.
- A send queued behind a spawn that fails passes `refuseRemoved` (512), since
  `forget` does not set `removed` (491), and starts a process for an agent that
  is no longer known; the comment at 103 excludes it for removed agents.
- A start that gives up because a victim became busy (766) returns its other
  victims to a room whose place another start took: the room is then one over
  the cap of `docs/agent-host.md:119`.
- `onExit` sweeps a crashed process's leftovers by agent id although the agent
  may have been removed and its id spawned again since: `SweepAlone` holds of an
  object and its own processes, not across the objects of an id.

### Fairness

`Fairness` asks weak fairness of each agent's queue, of exits, sweeps, lines and
the drain's steps: the event loop runs every callback that stays due, and every
await in them is of a timer, a file operation or a process that the code kills
in the end (`terminate` escalates to SIGKILL, so `Exit` is fair once the process
was told to end). Nothing is assumed of the CLI's turns or of the relay: a drain
must end because of its deadlines.

### Theorems

`AgentHostProofs` proves, for all values of the constants under
`HostAssumption`:

- `TypeCorrect`: `Spec => []TypeOK`. `TypeOK` is inductive as it stands; the
  part that is not mere typing is that a queued send carries a message
  (`Tasks`), without which what is written to a process could not be typed.
- `IdsNotReused`: `Spec => []NoReuseWhileDeleting`. Inductive given `TypeOK`:
  only `ReqSpawn` gives an id an agent, and `Forget` takes the agent away in the
  step that enters the id in `removing`.
- `SweptAlone`: `Spec => []SweepAlone`. Not inductive alone: a start that is past
  `CanReplace` must have no process until its fork succeeds, or an exit could
  begin a sweep under it. `StartsAlone` adds that, and `Moves` sums up what one
  step of a queue can do to any object.

`AgentHostQueueProofs` proves seven more:

- `VictimsNotShared`: `Spec => []OneStartPerVictim`. Inductive given `TypeOK`:
  `Picks` says that a step of a queue picks victims for its own object alone,
  among agents that are nobody's.
- `StopsWin`: `Spec => StopWins`, an action property. It needs `Waiting`: a
  message waits in one place of one queue (or stopping one agent would not keep
  another from writing it), its task was counted no more stops than its agent
  has had, and fewer if it was overtaken (so `refuseStoppedSince` refuses it),
  and none that a process holds still waits (or its end would change an
  overtaken message's fate). `Waiting` needs `Born`: only an object that was
  never spawned looks unborn, and it has no queue, no process and no id, so that
  a spawn, which counts stops from zero, finds nothing counted before. `Rests`
  and `Serves` sum up what a step does to the waiting messages: nothing, or it
  ends one queue's head.

- `RemovedStaysOver`: `Spec => []RemovedIsOver`. A removed agent may be
  forgotten with tasks still queued, so the invariant `Forgetting` says more
  than the property: such an agent not only has no process and no fork under
  way, its queue stands at the start of a task, so that it is `Ready` and runs
  dry before its log's deletion can end (`ForgottenRests`); a spawn is the first
  task of its object and has no process before it, so a spawn that fails forgets
  its own agent and no running one (`SpawnsFirst`); and a remove that waits
  finds its own agent in the id, or the id being deleted (`RemovesOwn`).
  `Forget` goes by id, so without the last two a late remove of one object could
  forget the next object of the id.
- `DrainIsThorough`: `Spec => []DrainLeavesNothing`. `DrainedLast`: while a
  drain ends, an agent's starts all stand before its drain task, and an agent
  whose drain task is gone has no process and no start queued. The drain's task
  is therefore the last that can find a process, and it goes only when there is
  none (`HeadDrains`).
- `WorkIsTold`: `Spec => []SavedTellsOfWork`. `ProcessTold`: a process holds
  messages only while it is there, its agent then shows alive, starting, failed
  or stopped, and the registry says one of these of a known agent, except when
  the drain ended the start that made the process before it was handed anything.
  The exception is a start that returns from its fork to find the host draining
  (agentHost.ts:1013): it ends the process and throws before it persists.
- `StartsWaitInLine`: `Spec => []NoWaitCycle`. `Asking` says that a waiting
  start has asked one of its victims at a time, and none once it has its answer,
  so a request in a queue belongs to a start that still waits for it; and that a
  start waiting for room is not itself alive. A victim is alive when it is
  picked, so whoever `makeRoomFor` waits for waits for nobody, and the relation
  "holds as a victim" stays free of cycles (`NoHoldCycle`, `PickKeeps`).

- `WrittenNotDropped`: `Spec => []AloneNotDropped`, the claim of the comment at
  agentHost.ts:1110 for messages written alone, under one hypothesis on the
  constants, `Steady`: the settle timer outlasts the CLI and the CLI begins no turn
  of its own. It is as weak as the code allows: without either half TLC finds a
  message dropped. Two invariants carry it. `Held`: what a process was handed and
  has not finished is written or crowded, and in one place of one process, so that
  no other process's turn or exit settles its fate. `Heeded`, for each agent:
  - `Turns`: the lines not read yet alternate between `init` and `result`, the last
    one says whether the CLI is in a turn, and it works on messages in a turn alone;
  - `Counted`: while a message written alone is unfinished, `turnInFlight` is set;
    such a message in stdin is the first one there, no `init` is on its way and it
    is counted in `messagesSinceInit`; one the CLI works on is counted until the
    last `init` on its way is read; and the settle timer does not run in a turn
    the host has read all about. The two channels have to be related line by line
    because the timer and each line may come between any two steps of the CLI;
  - `Hibernates`: a process being ended as hibernated works on no such message and
    its queue waits for its exit, so nothing more is handed to it;
  - `Failing`, `Interrupted`: a drain ends an agent as hibernated only from its
    own task, which finds an agent at work either cut by `DrainCuts` or failed, and
    then the `log_error` task that ends it as failed stands before the drain's.
    `turnInFlight` is cleared when a log fails, so the order of the two tasks is
    all that keeps such an agent from looking idle to the drain.

  What an exit makes of the messages then follows from `Hibernates` (and from
  `ProcessTold`, for an agent ended by a remove, which keeps the life it showed), and
  what a restart makes of them from `SavedTellsOfWork`.

The last five share what a step of a queue does to the queues (`Kept`,
`GoesOn`), to the processes (`Processed`) and to the ids (`Forgets`), and what
every other step does (`Elsewhere`). TLC checked each of these invariants on the
instances of `HostOne` and `HostLive` before it was proved, `Held` and
`Heeded` on an instance with one agent, three messages and three lines, and on one
with two generations of the id.

Liveness (`Answered`, `DrainCloses`) is TLC's alone.

## LogStream

One agent's log (`eventLog.ts`), one subscription to it (`socketServer.ts`) and
the client that keeps the subscription across reconnects (`hostClient.ts`).
Every record has length 1, so offset, `seq` and index agree and sizes are
counted in records; `part` is a partial message, which compaction drops.

### State

| Variable | Code |
|---|---|
| `log` | the directory: `inc` its incarnation file (`named`: it exists), `recs` every record ever written, `cuts` the segments' bases, `first` the oldest kept, `packed` the compacted ones, `torn` a half-written tail; `failed` = `failure` |
| `maint` | the `maintenance` promise chain |
| `host` | whether the host runs, knows the agent (`agents`), deletes its log (`removing`); `life` counts the agents that had the id |
| `srv` | `Subscription`: `mode`, `cursor`, `sub`, `sentCaughtUp` |
| `rd` | its `LogReader`: the await it stands at (`io`), the open segment, the cursor, the step's records (`acc`), what the last read found, the segment to open (`tgt`) |
| `wire`, `toHost` | the socket's two directions |
| `cl` | `HostClient` and its `SubscriptionState`: connected, subscribed, the cursor (`next`, `seq`, `inc`), `sub`, a request without an answer (`wait`) |
| `got`, `raced`, `spent` | history: the record handed over last, the ids of records raced past, how much of the bounds is used |

### Actions

`AppendRecord`, `AppendFailsToRotate`, `AppendTears` are `append` and its two
failures, `rotate` and the listeners included; `Compact`, `EnforceRetention` the
maintenance; `HandleSubscribe`, `HandleUnsubscribe` the server's `onLine`;
`RemoveAgent`, `Destroyed`, `SpawnAgent` the agent's life as far as its log goes;
`Connect`, `Subscribe`, `Unsubscribe`, `SubscribeTimesOut` and the `On...` the
client; `Drop`, `RelayRestart`, `HostCrash`, `MachineCrash`, `HostRestart` what
fails and comes back.

The reader is split at its awaits, and a read of a file is two steps: the pool's
thread does it (`FileOpened`, `FileRead`), the event loop uses what it found
(`UseFile`, `FileGone`, `UseRecords`, `LeaveSegment`, `EndOfLog`), and anything
may happen in between. `CatchUp` is the loop of `catchUp` up to its next await;
`StepReturns` and `OpensOrGap` lead back to it. What the loop does without an
await is one step: the comparison with `endOffset` and the switch to live
(`EndOfLog`), a record's write and its push (`AppendRecord`).

A crash of the host leaves the log as it is, or with a torn tail, or a directory
deleted in part; a crash of the machine takes any suffix of the active segment,
which is not synced, and the relay with it. The relay comes back with a cursor
its consumer stored, at or behind the client's.

### Left out

What a record holds (truncation of large ones, `t`); an offset inside a record;
subscriptions to other agents on the connection, whose messages only share the
buffer; the `agent_state` broadcast; the handshake. A stored cursor of an older
incarnation is not modelled (a client's own, across a removal, is). A file's
`open` and `read` errors other than ENOENT end the connection, as `Drop` does.
The kernel's socket buffer is taken as empty: `wire` holds what `writableLength`
counts, and a drain is its emptying.

### What it promises

`ReliableStream` is the promise to a consumer: records in order, none still owed
left out, each once unless the consumer asks again, and what it is not handed
has expired (`Tell`), was never owed, or belongs to a log that is no more
(`Renew`). `LogStream` implements it with

| `ReliableStream` | in `LogStream` |
|---|---|
| `sent` | the ids of `log.recs` |
| `owed` | the places of the records kept and not partial |
| `base` | `log.first` |
| `at` | the client's `next`, or 0 while its cursor is of another log |
| `got` | the last record handed over, if of this log |
| `asks` | how often the consumer chose a place (`spent.subs`) |

With one segment this holds as it stands (`StreamSpec`). With several it does
not, because of a race in the reader (below): `StreamUnracedSpec` takes
from `owed` the records that were appended between a read that found the end of
the active segment and the use of its result (`raced`), and then it holds. The
stale read is thereby the only way a record that is kept gets lost.

### Runs

| Run | Bounds | Shows |
|---|---|---|
| `StreamOne` | 3 records in one segment, a buffer of 1, 1 drop, 1 removal, 1 failed write, 2 subscriptions or restarts of the relay | `LiveAtEnd`, `BufferBounded`, `StreamSpec` |
| `StreamReturns` | 2 records of both kinds, segments of 1, 1 retained, no buffer, a subscription from the start or the end, 1 crash of the host, 1 of the machine, 1 failed write or rotation, fair | `TypeOK`, `FilterBehindCursor`, `CatchesUp`, `StreamUnracedSpec` |

Three records put one before, one at and one behind any cursor in a segment; in
segments of one record, each record rotates the log, and the second has the
first's segment compacted and deleted while a reader stands in it, before it or
after it. `BufferBounded` is tight:
with one record less in its bound it fails. One failure of each kind suffices,
since after each the stream starts over from the cursor. Deadlock is not
checked: with its records spent, an instance comes to rest.

Disagreements the model shows; none has a run of its own:

- `step` takes a read of 0 bytes as the end of the segment and only then looks
  for a newer one (eventLog.ts:443): a record appended and a rotation made in
  between are passed over, though the comment at 441 says the segment is "fully
  read". This is what `raced` records.
- A host that dies between forgetting an agent (agentHost.ts:618) and deleting
  its log leaves a directory that the id's next agent reopens, incarnation and
  records included; eventLog.ts:146 says such an agent "starts again at seq 0".
- When retention deletes the segments after the one a reader stands in, the
  reader goes on at the oldest one left without a gap (eventLog.ts:446), and a
  gap met with records in hand is not returned (448), although the header says a
  reader is told (18). `ReliableStream` therefore allows `Deliver` to pass over
  what has expired.
- A log cut short by an OS crash that grows past a consumer's cursor before the
  consumer is back sends no `ahead` (482): the consumer goes on in the middle of
  other records under the same incarnation, which docs/agent-host.md:84 does not
  say. `StreamUnracedSpec` therefore asks for a step of
  `ReliableStream` only until the machine dies.
- A subscription from the log's end has no incarnation in its cursor: if the
  agent is removed and its id spawned again before the host reads it, it starts
  in the new log at the old one's end. `StreamOne` subscribes from the start.

### Fairness

`Fairness` asks weak fairness of the reader, the server's and the client's
handling of messages, of `Connect` and of `HostRestart`: the event loop and the
thread pool go on, the socket delivers, `scheduleReconnect` tries for ever, and
the host is a service that is started again. Nothing is asked of the agent, the
maintenance or the consumer. `CatchesUp` then says that a subscription that
stays in force ends up with everything owed and not raced past.

### Theorems

`LogStreamProofs` proves three invariants, for all values of the constants under
`ParametersAssumption`:

- `LiveIsAtTheEnd`: `Spec => []LiveAtEnd`. `LiveAtEnd` alone is not inductive.
  `LiveInv` adds that a reader works only for a subscription that catches up
  (`ReadsToCatchUp`: else the late end of a read could make a closed subscription
  live, or move a live one), that only a known agent is subscribed to and a log
  being deleted belongs to none (`OnlyKnownServed`: else `Destroyed` would replace
  the log under a live subscription), and the shapes of the records involved
  (`Shaped`).
- `StreamIsTyped`: `Spec => []TypeOK`. `TypeInv` adds what makes it inductive: a log
  is cut within itself (`LogOK`), and a reader stands in a segment at or behind its
  cursor, with less than a chunk of records of the log in hand (`ReaderOK`).
- `BufferStaysBounded`: `Spec => []BufferBounded`. A step is under way only while no
  more than `HighWater` messages wait (`KeepsUp`), and returns less than two chunks.

`LogStreamRefinement` proves that the stream keeps its promise:

- `StreamKeepsItsPromise`: the initial states are `ReliableStream`'s, and every step
  that leaves the machine alive and the agent not removed (`Sure'`) is one of
  `ReliableStream` or a stutter, under the mapping above with the raced records not
  owed. `UnremovedStreamRefines` concludes `Spec => StreamUnracedSpec` for
  `MaxRemovals = 0`, which is what `StreamReturns` checks of its instance.
- `FilterStaysBehind`: `Spec => []FilterBehindCursor`, with removals, deaths of the
  machine and everything else.

Both rest on `StreamInv`. Its core is `ChainInv`: the messages on their way to the
client, read one after the other, take its cursor to a place from which the
server's subscription goes on. Each message is a `Link` from one place to the next:
an event from at or before its offset to behind it, over nothing that is owed; a gap
ahead, and while the log is sure not past what has expired; a response nowhere,
unless it resets. `ReaderInv` continues the chain on the other side of the
subscription, at each await of the reader: what lies between `srv.cur` and the
reader's cursor is in its hands or not owed (`Follows`); what a read did not bring
is not owed, up to the last record it brought or the segment's end (`FoundAll`);
and a segment that is left was read through (`ReadThrough`). The race is exactly
where an append would break `FoundAll`: the record appended behind a read that
found the end joins `raced` in that step. `IdsInv` and `PendingInv` keep the
answers of earlier requests apart from the one in force, `SureInv` says what holds
of the log while nothing was lost. The instances agreed with `StreamInv` before the
proof was begun.

The proof walks the steps as the code does: `CatchUp`, `StepReturns` and
`OpensOrGap` each have a lemma that says that the chain goes on from where it was,
and each await of the reader one that restores `ReaderInv`. A step of the log needs
only that what was free to skip stays so (`Later`).

What is proved of data is proved for data of any size: that sets of offsets have a
greatest and a least element, that `InOrder` sorts and `FirstOf` takes the first.
These rest on a smallest counterexample (`SmallestCounterexample`), which stands in
for induction. `StreamSpec` is false in general (the race), so it is `StreamOne`'s
alone, and `CatchesUp`, as liveness, is TLC's.

## SharedSession and ChoiceMachine

One session of the relay: its turn queue, its conversation, the questions it has
open for a person, and its record on disk. A session is a room's worker
(`hosted`) or an ordinary one; the kinds differ in how approval is asked, in
whether a turn outlives the relay and in whether an edit can rewind.

### State

| Variable | Code |
|---|---|
| `cm` | `ChoiceMachine`: `choice` = pendingChoice, `card` = deferredApproval, `queued`, `staged`, `withdrawn`, `ignore` = ignoreUpTo, `active`, `live` = pendingApproval; `shown` is the card as last sent to the clients |
| `queue` | what was given to `enqueue` (and `/clear`) and has not left `turnQueue`; `dropped` stands for `discardedUpTo` |
| `run`, `turnSeq` | the turn between `onTurnStarted` and its `finally`, and `turnSeq` |
| `hist`, `loaded`, `cleared` | `history` (its turns), `historyLoad`, `historyCleared` |
| `conv`, `sid` | the transcript the agent resumes; the driver's session id (whether there is one) |
| `disk` | the session's record: what is asked, and the session id |
| `rejected` | `turnQueue` is a rejected promise |
| `trail` | every content the record had during the last handler: where a crash may leave it |
| `hostTurn`, `told`, `born`, `inputs`, `crashes` | the host's agent works; history: the calls the model was told to wait on, names of turns, bounds used |

Turns are counted, not described: of a message only its kind, its note and the
grants and verdicts it carries matter. A call that needs approval is a name; the
names of `Broad` stand for calls that only a rule for their whole tool can grant
(`grantRules.ts`).

### Actions

A handler runs to its end before another, so each is one action, its writes in
the order the code makes them: an operation of `ChoiceMachine` maps a machine and
the record's contents so far to the next machine and a longer list of contents.
`Crash` picks any of them (`trail`). `SubmitTurn`, `SubmitOther`, `StopTurn`,
`EditMessage`, `ClearConversation`, `AnswerChoice`, `AnswerCard`,
`AnswerBlocked`, `DiscardQueuedTurns`, `FollowTurnInFlight`, `AddClient` are the
calls from outside; `StartTurn`, `Skip`, `RunClear`, `PerformEdit`, `EditFails` what
the queue runs; `AskDeferred`, `AskBlocking`, `PresentChoice`, `EndTurn`,
`EndStopped`, `EndFailed` the turn in flight.

### Runs

| Run | Bounds | Shows |
|---|---|---|
| `Session` | 2 calls, one broad; 6 inputs, 3 turns, 2 waiting, 1 death of the relay; either kind of session | `TypeOK`, `NoCallForgotten`, `WaitingIsShown`, `DiskTellsAll`, `ShownIsRemembered` |
| `SessionEdit` | the same | `QueueNeverRejects` is violated |

Three turns put an edit or a `/clear` before, between and behind turns that are
shown; two calls make a card with one answered and one waiting. A second death
of the relay adds nothing: what it finds is a record the first one could find.

`NoCallForgotten` is the property that is hard to test: an agent told "wait for
the person" never asks again, so the call must be with the person, staged, in a
message under way, or owed a note, after any stops, edits, clears, answers and
restarts. `ShownIsRemembered` relates the conversation on screen to the one the
agent resumes.

Finding: `/clear` queued, then an edit of a later message. The cut is chosen
when the edit is asked for and made after the clear, past the end: the history
gets holes, reading them throws outside the turn's `try`, and the session takes
no further turn until the relay restarts.

Disagreements without a run:

- A call asked by a background task between turns is staged under a turn that
  has ended, and no later turn flushes it: it stays staged, unseen, until the
  person moves on. `NoCallForgotten` counts it as staged.
- A broad grant also covers a call that waits behind the card, though the
  comment at grantRules.ts:164 sets out to exclude it: the waiting calls counted
  are those at the answer, not those staged before the turn starts.
- An edit of a message of a conversation with a turn that never reached the
  transcript cuts at the wrong place: `ShownIsRemembered` leaves it out.
- After a restart `currentTurnId` is 0 until a turn is followed, and
  `ignoreUpTo` too: a call asked in between is withdrawn without being asked.

### Theorems

`SharedSessionProofs` proves the properties above for any calls, any bounds and
either kind of session: `SessionIsTyped`, `RecordTellsAll`, `WaitingStaysShown`,
`CallsAreRemembered`, `AgentRemembersWhatIsShown`. The proof has the layers of the code.
The lemmas on `ChoiceMachine` take any machine and any list of writes and show of
each operation that it leaves the machine well formed and its last write equal to
what the machine holds (`Sound`), that what waits is shown (`Shown`), and that it
lets go of no call unless it withdraws them all (`Keeps`, with two exceptions
that are spelled out). The handlers of `SharedSession` are
then built from these lemmas, one per action, and never look into the machine.
`IInv` adds to the properties (the machine's are in `Asked`: well formed, shown,
on record) what makes them inductive: `BlockedInTurn` (a blocked call belongs to
the turn that runs) and `ClearsAreSilent` (a `/clear` in the queue carries no word
for the model: else dropping or running it could break `NoCallForgotten`).

`ShownIsRemembered` speaks only of a conversation whose turns all have a line in
the transcript, and an edit may cut it back to such a part, so it is not
inductive. `Remembered` says that the two agree up to the first turn without a
line: the transcript begins with the turns shown before it, and ends with them if
there is none (`Agrees`). The turn in flight is the last shown and has no line
yet, so the agreement is about those before it; and a session without an id has
no transcript.

### Left out

Failed disk writes, `switchAgent`, deletion, Codex's history (read
asynchronously), refusal of an answer in a full room, turns that may end in
silence, wakeups, attribution, titles. Staged calls and queued messages are in
memory only; a crash loses them, as in the code, and `NoCallForgotten` says so.
What a hosted session's agent resumes is its process's matter:
`ShownIsRemembered` is about ordinary sessions.

## CodexAgents

The Codex agents of the host. They have no process of their own: one
`codex app-server` serves them all, started when it is needed and again after it
died, with one thread per agent; a message becomes a turn of its agent's thread.

### State

| Variable | Code |
|---|---|
| `known`, `agent` | `AgentHost.agents`; of an `Agent`: `life`, `sid` (has a thread), `turn` = turnInFlight, `tid` = codexTurnId, `last` = lastCodexTurnCompleted, `pend` = pendingInterrupt, `removed`, `logError`, `stops`, `cut` = cut short by the drain |
| `queue`, `pc`, `reply` | each agent's task queue (`serialize`), the await its head task stands at, and what that await settled with until the task goes on |
| `pool` | `CodexPool`: `daemon` and `starting` (`st`), `attached` |
| `server` | the app-server: threads it knows (`loaded`), and per thread its last turn, what it still has to say of it (`left`), whether it was told to interrupt it (`cut`) |
| `phase`, `saved` | where `close()` stands; `registry.json` |
| `fate`, `asked` | history: what became of each message; messages whose turn was to be interrupted |

A turn has its message for its id.

### Actions

`Req...` are the requests; `Run...` the tasks from their turn in the queue to
their first await; `Ensured`, `ThreadStarted`, `Resumed`, `TurnAccepted`,
`CallFailed` what follows an await of the pool; `OnAnswer`, `OnNotification`,
`Initialized`, `InitializeFails`, `ServerExits`, `IdleReap` what is read from the
app-server or happens to it; `Drain`, `DrainCuts`, `DrainEnds`, `Closed` the parts
of `close()`; `HostRestarts` a start after a close or a crash; `Crash` the death
of the app-server, which the host learns of later.

The app-server is not in the repository. What is assumed of it is what the code
relies on: it answers a `turn/start` before, between or after the announcement of
the turn and its end, it knows the threads it started or resumed, and it ends a
turn it is told to interrupt. A request is with it as soon as it is written and what it
says is read when it is said: a pipe that is late cannot be told from an
app-server that is. What is read in the same chunk as an answer, before
the awaiting task goes on, counts as said before the answer.

### Run

| Run | Bounds | Shows |
|---|---|---|
| `Codex` | 2 agents, one on a thread that exists and one on a new one; 2 messages; any 2 of: a stop, an interrupt, a removal, a hibernation, a drain, and six kinds of fault (the app-server dies, does not start, refuses, is reaped; a log fails; the host dies); fair | `TypeOK`, `WorkingMeansWork`, `AnsweredNotDropped`, `TurnsAreDue`, `StopEndsTurn` |

Two agents are what sharing an app-server needs: the death one of them meets is
the other's too, and they may start it together. Two messages let a turn follow
another on one thread, or two turns run side by side. Two extras let each
request meet each fault, or two requests each other; a fault alone is met in
every position of two turns. Deadlock is not checked: with its messages sent, an
instance may come to rest.

- `WorkingMeansWork` relates the host's `turnInFlight` with what the app-server
  does: answers, announcements and ends of a turn come in any order, and a flag
  left behind blocks every later message ("a turn is in flight"), while one
  cleared early lets two turns run on a thread. It is stated where no
  continuation is due.
- `TurnsAreDue`: no `turn/start` after a stop that overtook it, for a thread this
  app-server was not told of, or beside another turn of the thread.
- `AnsweredNotDropped`: a message whose send was answered does not vanish with
  the app-server or the host behind an agent that looks fine.
- `StopEndsTurn`: an interrupt asked for while the turn has no id yet is sent once it has.

Fairness: the event loop goes on; the app-server starts or fails to, answers
requests, announces turns, and ends those it was told to interrupt. Nothing
makes any other turn end, nobody need ask for anything and nothing need fail.

### Theorems

`CodexAgentsProofs` proves `TypeCorrect` (`TypeOK`), `WorksRight`
(`WorkingMeansWork`), `NotDropped` (`AnsweredNotDropped`) and `TurnsDue`
(`TurnsAreDue`) for any agents, messages, queue bound and set of faults, under
`CodexAssumption`. `StopEndsTurn` is liveness and stays with TLC.

None of the three is inductive. Whether an agent works is said by four things
that change in different steps: the agent's fields, its queue and await, the
app-server's thread, and the fate of the message. `IInv` says how they fit, for
each agent (`Right`):

- `TasksRight`: what a task carries and at which await its kind may stand; only a
  send to an agent with a thread resumes it or starts a turn.
- `MessagesRight`: a queued message was sent, is queued once, and is the
  app-server's turn already only for the task at that turn's await; one a stop
  overtook was queued before that stop. This is what makes `RunSend` and
  `ThreadStarted` see every stop.
- `ServerRight`: an app-server that is not up has nothing to say, a thread that is
  started or resumed has no turn running, and a thread counted as attached is one
  this app-server knows. This is what makes the `turn/start` after an await due.
- `WorkRight`: the flag is set for a turn the app-server runs or was given and has
  not ended, and what was saved of such an agent is not `hibernated`. The last is
  needed for `NotDropped`: only the registry survives the host.

Of all agents together: no message is two agents' (`Apart`), and no app-server is
up once the host has closed. A step of one agent leaves the others `Same`, so most
of the proof is about one agent; when the app-server or the host comes or goes,
`Kept` says what does not change for any.

### Left out

Rooms, reuse of ids and deletion of logs (`AgentHost`'s), approvals, account
limits, the tools of a room, and failures of the log other than at a message or
a notification. A closed host does nothing more, except that tasks waiting for an
app-server that was killed are told so.

Disagreements of code and comment without a run:

- `onLogError` (agentHost.ts:1181) clears `turnInFlight` before it calls
  `interrupt()`, which then finds no turn to interrupt: the turn of a Codex agent
  whose log failed goes on in the app-server. `StopEndsTurn` leaves such agents out.
- `sendCodex` goes on after `record()` failed: the agent, "failed for good"
  (agentHost.ts:99), is shown alive again, its turn starts, nothing of it
  is recorded and nothing ends it.
- A send whose `startCodexThread` fails leaves its agent `starting`, holding a
  place in its room.
- `sendCodex` does not look at `draining` again after its awaits: a turn may start
  in a host that drains.
- `close()` waits without bound for a `thread/start` or `turn/start` that is not
  answered, though `docs/agent-host.md:140` gives the shutdown a worst case.
- A send queued behind a spawn that fails may start a turn for an agent
  that is no longer known, as for a Claude agent.
- When the host dies between a `turn/start` to a hibernated agent and its answer,
  the agent is restored as hibernated. Its send was not answered, so
  `AnsweredNotDropped` does not speak of it.

## HostSession

One session's driver over the agent host: from `sendTurn` to the end of its
turn, over every await of `deliver`, with the records of the agent's log as the
only sign of what became of the message.

| Variable | Code |
|---|---|
| `turn` | `this.turn` (`started`, `settled` = `res`, `stopRequested`) and the await `sendTurn` stands at; `ask` = an interrupt request without an answer |
| `sub`, `cursor` | `subscription` (its next record) and `binding.cursors` |
| `sid`, `reset` | `sessionId`, `resetPending` |
| `call` | the request `send` or `spawn` under way |
| `up`, `news` | the connection; an `agent_state` event on its way |
| `host`, `log` | the agent in the host and its log, as this driver meets them |
| `used`, `hist` | bounds used; history |

`Connected`, `Removed`, `Ask`, `Delivered`, `Refused`, `NotConnected`,
`TimesOut` follow `sendTurn` from await to await; `Read`, `StreamClosed`,
`AgentState`, `Interrupted` are what arrives, `FollowedIdle` the timer that ends a
followed turn whose agent is idle; `Stop` (again while a turn goes on, too),
`Clear`, `Follow` the other calls; the rest is the host (`HostTakes`, `HostWrites`, `HostEnds`, `HostRefuses`,
`HostExit`) and what fails between them.

| Run | Bounds | Shows |
|---|---|---|
| `Driver` | 2 turns, 1 `/clear`, any 2 of 8 kinds of fault; fair | `TypeOK`, `EndsOnOwn`, `StopBeforeSendHolds`, `ClearedIsGone`, `TurnsSettle` |
| `DriverStop` | the same with 1 fault | `StoppedIsNotDelivered` is violated |

Two turns are one to be misled and one to mislead it; two faults let the second
hit the recovery from the first. `EndsOnOwn` names the two ways a turn may end on
a record that is not its own. `ClearedIsGone` excepts a reset forgotten on the
way, which is itself a disagreement: `resetPending` is in memory only, so after
`/clear` and a restart of the relay the next message goes to the agent that
still holds the old conversation, and a turn followed in between hands the old
id back (sharedSession.ts:1421; the driver itself, for Codex, at 342), though the comment at hostSessionDriver.ts:123
says the next turn replaces it.

Finding (`DriverStop`): the host answers `interrupted: false` also while a
message it accepted waits for the agent to start; the driver takes it as "not
delivered", ends the turn as stopped, and the message is written afterwards.

One more without a run: a followed agent that is starting, whose start fails
while the connection is down, leaves a turn that nothing ends, Stop included:
`interrupt` answers `interrupted: false`, but a followed turn counts as
`started`. `TurnsSettle` is about turns the session sends.

Fairness: the relay's and the host's event loops go on, `scheduleReconnect`
tries for ever, and the agent's CLI ends its turns; nobody need stop or clear,
and nothing need fail. `Interrupted` is fair on its own: a person who stops a turn
over and over, and the answers to that, keep nothing else from going on.

### Theorems

`HostSessionProofs` proves `DriverIsTyped`, `StoppedIsNotRequested`,
`ClearedStaysGone` and `TurnsEndOnTheirOwn` for any number of turns, clears and
faults.

- `Typed` adds to `TypeOK` what places of `sendTurn` exclude each other (`Placed`):
  a request is open only at its await, no subscription stands while the agent is
  removed, a log is empty before its agent first starts. Without the last two a
  cursor could stand past the end of a log that was just replaced.
- `StopInv` for `StopBeforeSendHolds`: a stop stays with its turn until the turn is
  over, so that every check before a request sees it.
- `ConvInv` for `ClearedIsGone`: conversations are numbered as they begin, and
  unless the reset was forgotten the session knows no cleared one, while an agent
  that is still in one is `Barred`: a reset waits, and no turn is past the removal.
  What waits in the host was therefore sent before the clear it would offend.

- `EndInv` for `EndsOnOwn`, which speaks of what the log will still say. A message
  waits once, and the end of turn that names it is the last record that does
  (`ShapeInv`); the host knows only of turns whose request it took (`PlaceInv`),
  and while it creates an agent only of the turn it creates it for (`SpawnInv`);
  a turn that was not given up is `Past`: nothing of it is to be read, wherever
  reading goes on from (`PastInv`). So nothing but its own message is before a
  turn that is not `Misled` (`OnlyOwn`), and the first end of turn after its
  message answers it or will (`OwnInv`). `Past` has to hold at the cursor too,
  because a turn that is followed starts reading there.

Most steps end the turn or leave it where it stands (`Ends`); the lemmas on
`EndTurn`, `Settle` and `Rejected` say so once. `StaysKeeps`, `UntakenKeeps` and
`OverKeeps` do the same for `EndInv`, with `AnswerKeeps` and `DropKeeps` for what
the host does. `TurnsSettle` is liveness, and TLC's alone.

### Left out

Attempts of the Codex app-server, background subagents, plan usage,
model changes, and what is only shown. `FollowedIdle` acts on an agent that is
idle when the second is over: one that went to work again within it
(hostSessionDriver.ts:332 looks before, not after) is left out, as is the followed
agent without a conversation or a cursor, whose log is read from its start (356).

## Rooms

The manager of one room: the principal, its workers in a tree, each worker's
queue of messages, its last report, and each agent's outbox of reports to be
handed to it in one digest. `room` is what is on disk, `relay` the manager's
memory and the sessions' turns, `works` the agents with a turn in the host.

| In `room[x]`, `relay` | Code |
|---|---|
| `life`, `parent`, `stopped`, `queue`, `report`, `outbox` | `RoomMembership`: membership, `parentId`, `stopped`, `queuedMessages`, `report`, `outbox` |
| `cur`, `turns` | the session's turn and the turns behind it |
| `sending`, `digests`, `failed`, `timers` | `sending`, `digests`, `digestFailed`, `digestTimers` |
| `purges`, `removals` | `purgeTimers`; where each `removeAgent` stands |
| `up`, `reconciling` | the connection to the host; between `connected` and the end of `reconcileHost` |
| `rejected` | sessions whose request to the host `failPending` rejected and whose turn has not settled yet |

The handlers call each other (`stopAgent` marks, stops, hands off, considers a
digest), so they are written as functions of a state, and `Become` takes the
last one as the next state, starting the turns of idle sessions on the way.
`LaunchWorker`, `MessageAgent`, `Report` are the principal's and the workers' tools;
`PersonWrites`, `StopAgent`, `ResumeAgent`, `RemoveAgent` (with `HideRemoved` and
`WindowOpens` after its awaits), `RestoreAgent`, `Purge` the person's; `Taken` and
`Settle` what becomes of a turn; `Disconnect`, `Connect`, `Reconcile`,
`RelayRestarts` the host and the relay. `Disconnect(S, T)` rejects the requests of
the sessions in S, of which the host had taken those of T; the turns of S settle
(`Rejected`) before anything else goes on, as the rejections of one `failPending`
run before the next event of the loop.

A stop looks at no request that has left (hostSessionDriver.ts:403 looks at
`stopRequested` before it sends, not after the answer): the host may take the
message of a stopped turn, of a removed agent too, and `onDelivered` then runs
(282). So a stop chooses which turns' requests had left (`left`), `OnWay` are the
turns whose request may still reach the host, and `Taken` is for any of them. What
the late answer may change is `removeQueued`'s matter (roomManager.ts:864): it takes
that very message from the head of the queue, or nothing.

`QueuedUntilTaken` is about the answers of turns a queue has gone past. A message
leaves its queue because the agent was stopped or deleted, or on account of
its own turn: `hist.own` notes, when a turn is taken or refused, that its own
message was waiting just then, so an answer that takes another message, sent after
the stop, breaks the property. And a message that no longer waits does not leave
for the host: `hist.late` notes one whose turn was not stopped when the host took
it, which is what a queue dropped without halting its turns would give. What
the code does not promise, and the property does not say, is that a dropped message
is never taken: one whose request had left is (`DriverStop` shows it of the driver).

| Run | Bounds | Shows |
|---|---|---|
| `Rooms` | 2 workers, 2 messages, 1 report of an agent's own, not urgent (the relay's come on top, and are), 2 requests of the person or 1 and a fault | `TypeOK`, `NoReportLost`, `ReadersAreLive`, `QueuedUntilTaken` |
| `RoomsLive` | the same with 1 stop or 1 fault, and urgent reports; fair | `QueuesMove`, `DueIsTold` |
| `RoomsRound` | the same with a stop, no fault, and urgent reports; fair | `RoundIsTold` is violated |

Two workers make the trees that matter: two siblings, or a chain with an agent
in the middle to be stopped or removed while it holds another's report. Workers
are symmetric in `Rooms`, which checks no liveness.

`RoomsLive` asks weak fairness of `Goes`, all that a running relay does by
itself: turns end, timers fire, the client reconnects, and as long as one of
these can happen one does.

Finding (`RoomsRound`): p started a, a started b; a reports to p (its digest
waits for b), the person stops b. `handOffOutbox(b)` considers only a, and the end
of b's turn returns early because b is stopped: nothing looks at p's outbox again
until something else happens, though nothing under p is running any more.
`DueIsTold` therefore speaks of rooms where the principal started every agent.

Disagreements without a run: two digests of one agent may wait at once after a
stop and a message while its interrupted digest turn is ending (roomManager.ts:195
says "at most one at a time"); a restore also brings back a descendant that was
removed on its own before; an agent launched while `removeAgent` waits for the
worktrees stays live under a removed parent and goes with it when it is deleted. A message
whose acceptance was lost with the connection is sent again: delivery is at least
once.

Some handlers make two writes where the model makes one, so that a death of the
relay between them is not met: `recordReport` writes the report and then the outbox
(roomManager.ts:1039, 1044), `handOffOutbox` empties one outbox and then fills the
other (1170, 1173), and `stopAgent` and `removeAgent` mark the agents before they
hand off (414, 597). A relay that dies in the first or second place never hands the
reports over; in the third they stay with an agent that is stopped or removed.
`NoReportLost` and `ReadersAreLive` are about deaths between handlers.

### What is proved

`RoomsProofs` proves the four safety properties of the run `Rooms` for every set of
workers and all bounds, under `MembersAssumption` (the principal and "nobody" are
not workers) and `BoundsAssumption`: `TypeCorrect`, `ReportsReachReaders`
(`NoReportLost`), `OutboxesAreRead` (`ReadersAreLive`), `QueuesHoldMessages`
(`QueuedUntilTaken`). They follow from `RoomInvariant` (`Spec => []IInv`); `IInv`
says `Good`, that no turn waits behind an idle session (`Idle`), and that only
members have work in the host. `Good` has six parts besides the types:

- `Tree`: the principal is above every worker that was ever started and is never
  stopped, and a worker not started yet has left no trace. With it
  `liveAncestorId` always finds somebody (`LiveAncestorIs`): where reports go
  when an agent is stopped or removed.
- `Readers`: an agent with reports waiting is live. It is `ReadersAreLive`, and
  not inductive alone: `handOffOutbox` moves an outbox to what `LiveAncestor`
  gives.
- `Kept`: `NoReportLost` said of removed workers too. A worker below a removed
  agent comes back with its report when the agent is restored, so the report has
  to have waited somewhere all the while.
- `Queues`: a message is in one place of one queue and exactly while its fate is
  "queued"; a message not sent yet has no fate; one that was taken or refused left
  its queue for its own turn; none left for the host too late.
- `Heads`: a turn made for a message is a worker's, the first in line behind an
  idle session or the one it runs, and until the host takes it or it is told to
  stop, its message is the head of the queue. Without it the turn of a message
  dropped meanwhile could leave for the host unhalted, and the answer to a turn
  find another message at the head.
- `Sending`: what the manager believes it is sending to an agent is what the
  agent's session has a turn for, and it believes that delivered exactly when the
  host took it.

The handlers are functions of a state, so `Good` is a predicate of a state and
holds between the parts of a handler: a lemma for each part (`SubmitGood`,
`PumpGood`, `RecordReportGood`, `HandOffGood`, `MarkStoppedIs`, `PurgedGood`...)
says what it leaves alone and what it keeps. A step composes them, and
`BecomeGood` ends it. Where a handler is in between (an agent marked stopped whose
outbox is not handed off yet) its lemma says for which agents `Readers` or
`Sending` holds already. `Above(z, x)` is defined as the least set closed under
parents, not as a walk: that somebody is in it is shown with any closed set
(`AboveAll`), that somebody is not with one without them (`AboveIn`), and no proof
needs an induction over the tree, which is out of the provers' reach.

TLC finds the parts of `IInv` invariant on the instance of `Rooms`. `QueuesMove`,
`DueIsTold` and the counterexample to `RoundIsTold` are liveness and TLC's alone.

Left out: the cap on places, warm-up parking (`parkBehindLeader`), notifications
of prompts, worktrees (and removals refused for their sake), `awaitingUser`,
tombstones. What the host does to a stopped or removed agent is
`AgentHost`'s.

## Not modelled

PROJECT.json, "components", lists every part with the reason. Two kinds remain.
Parts that could be modelled in the same way and are not: worktrees, wakeups and
background jobs, `switchAgent` and the client's message log; for these the hazards have a note instead of a property. And parts
with nothing for a model checker to find: parsing, display, routes, installers,
translations and the user interface, which make up most of the repository's
lines.
