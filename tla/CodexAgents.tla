----------------------------- MODULE CodexAgents -----------------------------
(***************************************************************************)
(* The host's Codex agents (relay/src/agentHost/codexPool.ts, the Codex    *)
(* branches of agentHost.ts, runtimes/transports/codexDaemon.ts): one      *)
(* `codex app-server` for the whole host, started when it is needed and    *)
(* again after it died, and one thread on it per agent.  A message becomes *)
(* a turn of the agent's thread.                                           *)
(*                                                                         *)
(* As in AgentHost, one step is one run of the event loop between two      *)
(* awaits.  Here no id is spawned twice and the agents are in no room: the *)
(* cap and the deletion of logs are AgentHost's.  A turn has its message   *)
(* for id.                                                                 *)
(*                                                                         *)
(* The app-server (not part of the repository) knows the threads it        *)
(* started or resumed, answers a `turn/start` before, between or after it  *)
(* announces the turn and its end, and ends a turn it is told to           *)
(* interrupt.  A request is with it once written, and what it says is read *)
(* when it says so: a late pipe cannot be told from a late app-server.     *)
(***************************************************************************)
EXTENDS Naturals, Sequences

CONSTANTS
  Agents,
  MaxMessages,  \* bound: messages sent in a behaviour
  MaxExtras,    \* bound: other requests made, and things that go wrong
  Existing,     \* agents that are spawned on a thread the relay already has
  MaxQueue,     \* bound: tasks waiting in one agent's queue
  Faults        \* what may go wrong

ASSUME CodexAssumption ==
  /\ Existing \subseteq Agents
  /\ MaxMessages \in Nat /\ MaxExtras \in Nat /\ MaxQueue \in Nat \ {0}
  /\ Faults \subseteq {"crash", "initialize", "refuse", "idle", "log", "host"}

VARIABLES
  known,   \* this.agents
  agent,   \* the fields of each Agent object
  queue,   \* agent.queue: the tasks serialized on each agent, head first
  pc,      \* the await the head task of each queue stands at
  reply,   \* what that await settled with, until the task goes on
  pool,    \* CodexPool: `daemon` and `starting`, and `attached`
  server,  \* the app-server: the threads it knows, and per thread its last
           \* turn and what it still has to say
  phase,   \* serving, or where close() stands
  saved,   \* registry.json
  fate,    \* what became of each message (history)
  asked,   \* messages whose turn was to be interrupted (history)
  extras   \* how much of MaxExtras is used

host == <<known, agent, queue, pc, reply>>
codex == <<pool, server>>
hist == <<fate, asked>>
vars == <<host, codex, phase, saved, hist, extras>>

Messages == 1..MaxMessages
Lives == {"unborn", "starting", "alive", "hibernated", "stopped", "failed"}
Kinds == {"spawn", "send", "stop", "remove", "hibernate", "drain"}
Stages == {"idle", "ensure", "thread", "resume", "turn"}
Says == {"accepted", "started", "completed"}
(* "overtaken": still to be handed over when its agent was stopped.  "taken":  *)
(* recorded and on its way; "given": its send was answered.  "told": lost, and *)
(* the agent or the answer says so; "dropped": lost, and the agent looks fine. *)
Fates == {"new", "queued", "overtaken", "refused", "taken", "given", "done", "told", "dropped"}

Fresh == [life |-> "starting", sid |-> FALSE, turn |-> FALSE, tid |-> 0, last |-> 0,
          pend |-> FALSE, removed |-> FALSE, logError |-> FALSE, stops |-> 0, cut |-> FALSE]
NoServer == [st |-> "none", loaded |-> {}, turn |-> [a \in Agents |-> 0],
             left |-> [a \in Agents |-> {}], cut |-> {}]

Task(k, m, n) == [kind |-> k, msg |-> m, stops |-> n]
Simple(k) == Task(k, 0, 0)

Draining == phase # "serving"
Busy(a) == queue[a] # <<>>
Top(a) == queue[a][1]
At(a, kinds, stage) == Busy(a) /\ Top(a).kind \in kinds /\ pc[a] = stage
Queued(a) == {queue[a][i].msg : i \in 1..Len(queue[a])}

MutStoppedSince(a) == pc[a] # "thread" /\ agent[a].stops # Top(a).stops
StoppedSince(a) == agent[a].stops # Top(a).stops
Refused(a) == agent[a].removed \/ StoppedSince(a)

(* The turn is claimed before startTurn is called: the await is one of it.   *)
InTurn(a) == agent[a].sid /\ pc[a] \in {"ensure", "resume", "turn"}
TurnOf(a) == IF InTurn(a) THEN Top(a).msg ELSE server.turn[a]

(* Continuations run before the event loop takes its next event.             *)
Ready(a) == Busy(a) /\ (pc[a] = "idle" \/ reply[a] # "none")
Quiet == \A a \in Agents : ~Ready(a)

Extra == extras < MaxExtras /\ extras' = extras + 1
Fail(f) == f \in Faults /\ Extra

(* persist(), of the agents of K as f has them. *)
Saves(K, f) == [a \in Agents |-> IF a \in K THEN [life |-> f[a].life, sid |-> f[a].sid]
                                             ELSE [life |-> "unborn", sid |-> FALSE]]
Persist == saved' = Saves(known', agent')

-----------------------------------------------------------------------------
TypeOK ==
  /\ known \subseteq Agents
  /\ agent \in [Agents -> [life : Lives, sid : BOOLEAN, turn : BOOLEAN, tid : Messages \cup {0},
                           last : Messages \cup {0}, pend : BOOLEAN, removed : BOOLEAN,
                           logError : BOOLEAN, stops : Nat, cut : BOOLEAN]]
  /\ \A a \in Agents : queue[a] \in Seq([kind : Kinds, msg : Messages \cup {0}, stops : Nat])
  /\ pc \in [Agents -> Stages]
  /\ reply \in [Agents -> {"none", "yes", "no"}]
  /\ \A a \in Agents : pc[a] = "idle" => reply[a] = "none"
  /\ pool \in [st : {"none", "starting", "up"}, attached : SUBSET Agents]
  /\ server \in [st : {"none", "init", "up", "gone"}, loaded : SUBSET Agents,
                 turn : [Agents -> Messages \cup {0}], left : [Agents -> SUBSET Says],
                 cut : SUBSET Agents]
  /\ pool.st = (CASE server.st = "none" -> "none" [] server.st = "init" -> "starting" [] OTHER -> "up")
  /\ phase \in {"serving", "wait", "wait2", "end", "closed"}
  /\ saved \in [Agents -> [life : Lives, sid : BOOLEAN]]
  /\ fate \in [Messages -> Fates] /\ asked \subseteq Messages

Init ==
  /\ known = {}
  /\ agent = [a \in Agents |-> [Fresh EXCEPT !.life = "unborn"]]
  /\ queue = [a \in Agents |-> <<>>]
  /\ pc = [a \in Agents |-> "idle"]
  /\ reply = [a \in Agents |-> "none"]
  /\ pool = [st |-> "none", attached |-> {}]
  /\ server = NoServer
  /\ phase = "serving"
  /\ saved = [a \in Agents |-> [life |-> "unborn", sid |-> FALSE]]
  /\ fate = [m \in Messages |-> "new"]
  /\ asked = {}
  /\ extras = 0

-----------------------------------------------------------------------------
(* Interrupts: of the turn that has an id, or of the one that will.          *)

Interrupts(a) == agent[a].turn /\ agent[a].sid
Marked(a) == IF Interrupts(a) THEN [agent[a] EXCEPT !.pend = agent[a].tid = 0] ELSE agent[a]
(* interruptCodexTurn and CodexPool.interrupt of the turns ms[a], a in S: an  *)
(* app-server that is not working on them takes no notice.                   *)
Runs(a) == "completed" \in server.left[a]
Interrupted(S, ms) ==
  [server EXCEPT !.cut = @ \cup {a \in S : pool.st = "up" /\ Runs(a) /\ server.turn[a] = ms[a]}]
Interrupt(a, m) == Interrupted({a}, [b \in {a} |-> m])
Ask(S) == asked' = asked \cup ({TurnOf(a) : a \in {b \in S : Interrupts(b)}} \cap Messages)

(* r is what the request leaves of the agent before it interrupts. *)
Stop(a, r) ==
  /\ agent' = [agent EXCEPT ![a] = [r EXCEPT !.pend = Marked(a).pend]]
  /\ server' = IF Interrupts(a) THEN Interrupt(a, agent[a].tid) ELSE server
  /\ Ask({a})

-----------------------------------------------------------------------------
(* Requests.                                                                 *)

Enqueue(a, t) == queue' = [queue EXCEPT ![a] = Append(@, t)]
Accepts(a) == phase # "closed" /\ a \in known /\ Len(queue[a]) < MaxQueue
NextNew(m) == fate[m] = "new" /\ \A k \in 1..(m - 1) : fate[k] # "new"
Become(ms, f) == fate' = [m \in Messages |-> IF m \in ms THEN f ELSE fate[m]]

(* spawnAgent; m is the message that comes with it, or 0. *)
ReqSpawn(a, m) ==
  /\ ~Draining /\ agent[a].life = "unborn"
  /\ m # 0 => NextNew(m)
  /\ known' = known \cup {a}
  /\ agent' = [agent EXCEPT ![a] = [Fresh EXCEPT !.sid = a \in Existing]]
  /\ Enqueue(a, Task("spawn", m, 0))
  /\ Become({m}, "queued")
  /\ UNCHANGED <<pc, reply, codex, phase, saved, asked, extras>>

ReqSend(a, m) ==
  /\ ~Draining /\ Accepts(a) /\ ~agent[a].logError
  /\ NextNew(m)
  /\ Enqueue(a, Task("send", m, agent[a].stops))
  /\ Become({m}, "queued")
  /\ UNCHANGED <<known, agent, pc, reply, codex, phase, saved, asked, extras>>

(* The messages a stop overtakes: queued, or of a send not recorded yet.     *)
Overtaken(a) == {m \in Queued(a) : m # 0 /\ fate[m] = "queued"}

ReqStop(a) ==
  /\ Accepts(a) /\ Extra
  /\ Stop(a, [agent[a] EXCEPT !.stops = @ + 1])
  /\ Enqueue(a, Simple("stop"))
  /\ Become(Overtaken(a), "overtaken")
  /\ UNCHANGED <<known, pc, reply, pool, phase, saved>>

(* Bound: an interrupt is asked for where the code acts on it.               *)
ReqInterrupt(a) ==
  /\ phase # "closed" /\ a \in known /\ Interrupts(a) /\ Extra
  /\ Stop(a, agent[a])
  /\ UNCHANGED <<known, queue, pc, reply, pool, phase, saved, fate>>

ReqRemove(a) ==
  /\ Accepts(a) /\ Extra /\ ~agent[a].removed
  /\ Stop(a, [agent[a] EXCEPT !.removed = TRUE])
  /\ Enqueue(a, Simple("remove"))
  /\ UNCHANGED <<known, pc, reply, pool, phase, saved, fate>>

ReqHibernate(a) ==
  /\ Accepts(a) /\ Extra
  /\ Enqueue(a, Simple("hibernate"))
  /\ UNCHANGED <<known, agent, pc, reply, codex, phase, saved, hist>>

-----------------------------------------------------------------------------
(* Parts of the tasks.                                                       *)

Dequeued(a) == [queue EXCEPT ![a] = Tail(@)]
Settle(a, stage) ==
  /\ pc' = [pc EXCEPT ![a] = stage]
  /\ reply' = [reply EXCEPT ![a] = "none"]
Finish(a) == queue' = Dequeued(a) /\ Settle(a, "idle")

(* CodexPool.startThread and startTurn, once there is an app-server: what    *)
(* they send and await.  r is the agent, `attached` the threads it knows.    *)
Op(a, r, attached) == IF ~r.sid THEN "thread" ELSE IF a \notin attached THEN "resume" ELSE "turn"
Call(a, op) ==
  /\ Settle(a, op)
  /\ server' =
       IF server.st # "up" THEN server
       ELSE IF op # "turn" THEN [server EXCEPT !.left[a] = {"accepted"}]
       ELSE [server EXCEPT !.turn[a] = Top(a).msg, !.left[a] = Says]

(* CodexPool.ensure. *)
Ensure(a, r) ==
  IF pool.st = "up"
  THEN Call(a, Op(a, r, pool.attached)) /\ UNCHANGED pool
  ELSE /\ Settle(a, "ensure")
       /\ pool' = [pool EXCEPT !.st = "starting"]
       /\ server' = IF pool.st = "none" THEN [NoServer EXCEPT !.st = "init"] ELSE server

StartThread(a) ==
  LET r == [agent[a] EXCEPT !.life = "starting"] IN
  /\ agent' = [agent EXCEPT ![a] = r]
  /\ Ensure(a, r)
  /\ UNCHANGED <<known, queue, saved, fate, extras>>

(* sendCodex from its last checks on: the message is recorded, the turn      *)
(* claimed.  r is the agent before that, s what was saved of it.  The log    *)
(* may fail to take the message (onLogError), as it does once it is deleted; *)
(* the turn starts nevertheless.                                             *)
Take(a, r, s) ==
  LET claimed == [r EXCEPT !.turn = TRUE, !.pend = FALSE, !.life = "alive"]
      lost    == a \notin known /\ ~r.logError
  IN
  /\ \/ ~lost /\ agent' = [agent EXCEPT ![a] = claimed] /\ saved' = s /\ UNCHANGED extras
     \/ /\ IF lost THEN UNCHANGED extras ELSE Fail("log") /\ ~r.logError
        /\ agent' = [agent EXCEPT ![a] = [claimed EXCEPT !.logError = TRUE]]
        /\ saved' = Saves(known, [agent EXCEPT ![a] = [r EXCEPT !.life = "failed"]])
  /\ Become({Top(a).msg} \ {m \in Messages : fate[m] = "overtaken"}, "taken")
  /\ UNCHANGED <<known, queue>>

Refuse(a) ==
  /\ Finish(a)
  /\ Become({Top(a).msg}, "refused")
  /\ UNCHANGED <<known, agent, codex, saved, extras>>

(* forget(). *)
Forget(a) == known' = known \ {a} /\ agent' = agent /\ Persist

-----------------------------------------------------------------------------
(* The tasks.                                                                *)

(* spawnAgent: an existing thread is resumed by its next turn.  Then the     *)
(* message the agent was spawned with is queued like any other, unless the   *)
(* agent was stopped meanwhile.                                              *)
SpawnEnds(a) ==
  LET m == Top(a).msg IN
  IF m = 0 \/ StoppedSince(a)
  THEN Finish(a) /\ Become({m}, "refused")
  ELSE /\ queue' = [queue EXCEPT ![a] = Append(Tail(@), Task("send", m, 0))]
       /\ Settle(a, "idle")
       /\ UNCHANGED fate

RunSpawn(a) ==
  /\ At(a, {"spawn"}, "idle")
  /\ IF agent[a].sid
     THEN /\ agent' = [agent EXCEPT ![a].life = "hibernated"]
          /\ SpawnEnds(a)
          /\ UNCHANGED <<known, codex, extras>> /\ Persist
     ELSE StartThread(a)
  /\ UNCHANGED <<phase, asked>>

RunSend(a) ==
  /\ At(a, {"send"}, "idle")
  /\ \/ /\ Refused(a) \/ agent[a].turn
        /\ Refuse(a)
     \/ /\ ~Refused(a) /\ ~agent[a].turn /\ ~agent[a].sid
        /\ StartThread(a)
     \/ /\ ~Refused(a) /\ ~agent[a].turn /\ agent[a].sid
        /\ Take(a, agent[a], saved)
        /\ Ensure(a, agent[a])
  /\ UNCHANGED <<phase, asked>>

(* There is an app-server. *)
Ensured(a) ==
  /\ pc[a] = "ensure" /\ reply[a] = "yes"
  /\ Call(a, Op(a, agent[a], pool.attached))
  /\ UNCHANGED <<known, agent, queue, pool, phase, saved, hist, extras>>

Attach(a) == [pool EXCEPT !.attached = @ \cup {a}]

ThreadStarted(a) ==
  LET r == [agent[a] EXCEPT !.sid = TRUE, !.life = "alive"] IN
  /\ pc[a] = "thread" /\ reply[a] = "yes"
  /\ \/ /\ Top(a).kind = "spawn"
        /\ agent' = [agent EXCEPT ![a] = r]
        /\ SpawnEnds(a)
        /\ pool' = Attach(a)
        /\ UNCHANGED <<known, server, extras>> /\ Persist
     \/ /\ Top(a).kind = "send" /\ Refused(a)
        /\ agent' = [agent EXCEPT ![a] = r]
        /\ Finish(a) /\ Become({Top(a).msg}, "refused")
        /\ pool' = Attach(a)
        /\ UNCHANGED <<known, server, extras>> /\ Persist
     \/ /\ Top(a).kind = "send" /\ ~Refused(a)
        /\ Take(a, r, Saves(known, [agent EXCEPT ![a] = r]))
        /\ Call(a, "turn")
        /\ pool' = Attach(a)
  /\ UNCHANGED <<phase, asked>>

Resumed(a) ==
  /\ pc[a] = "resume" /\ reply[a] = "yes"
  /\ Call(a, "turn")
  /\ pool' = Attach(a)
  /\ UNCHANGED <<known, agent, queue, phase, saved, hist, extras>>

(* The turn has an id now, unless its end was read before this answer.  An   *)
(* interrupt that waited for the id is sent.                                 *)
MutNamed(r, m) == [r EXCEPT !.tid = m]
Named(r, m) == IF r.turn /\ r.last # m THEN [r EXCEPT !.tid = m] ELSE r
MutSaveTurn == UNCHANGED saved
SaveTurn == Persist

TurnAccepted(a) ==
  LET m == Top(a).msg
      r == Named(agent[a], m)
      late == r.pend /\ r.turn
  IN
  /\ pc[a] = "turn" /\ reply[a] = "yes"
  /\ agent' = [agent EXCEPT ![a] = IF late THEN [r EXCEPT !.pend = FALSE] ELSE r]
  /\ server' = IF late THEN Interrupt(a, r.tid) ELSE server
  /\ Finish(a)
  /\ Become({m} \ {k \in Messages : fate[k] # "taken"}, "given")
  /\ UNCHANGED <<known, pool, phase, asked, extras>>
  /\ SaveTurn

(* The app-server failed to start, refused or died.  A spawn forgets its     *)
(* agent; a send without a thread leaves it as it is; a turn fails it.       *)
CallFailed(a) ==
  /\ reply[a] = "no"
  /\ Finish(a)
  /\ Become({Top(a).msg} \ {m \in Messages : fate[m] = "done"}, IF InTurn(a) THEN "told" ELSE "refused")
  /\ IF InTurn(a)
     THEN /\ agent' = [agent EXCEPT ![a].turn = FALSE, ![a].life = "failed"]
          /\ UNCHANGED known /\ Persist
     ELSE IF Top(a).kind = "spawn" THEN Forget(a) ELSE UNCHANGED <<known, agent, saved>>
  /\ UNCHANGED <<codex, phase, asked, extras>>

(* stop and remove end no process: the turn was interrupted at once.         *)
RunStop(a) ==
  /\ At(a, {"stop"}, "idle")
  /\ agent' = [agent EXCEPT ![a].life = "stopped"]
  /\ Finish(a)
  /\ UNCHANGED <<known, codex, phase, hist, extras>> /\ Persist

RunRemove(a) ==
  /\ At(a, {"remove"}, "idle")
  /\ Finish(a)
  /\ Forget(a)
  /\ UNCHANGED <<codex, phase, hist, extras>>

Hibernatable(a) == agent[a].life = "alive" /\ ~agent[a].turn
RunHibernate(a) ==
  /\ At(a, {"hibernate"}, "idle")
  /\ Finish(a)
  /\ IF Hibernatable(a)
     THEN /\ agent' = [agent EXCEPT ![a].life = "hibernated"]
          /\ UNCHANGED known /\ Persist
     ELSE UNCHANGED <<known, agent, saved>>
  /\ UNCHANGED <<codex, phase, hist, extras>>

RunDrain(a) ==
  /\ At(a, {"drain"}, "idle")
  /\ Finish(a)
  /\ UNCHANGED <<known, agent, codex, phase, saved, hist, extras>>

-----------------------------------------------------------------------------
(* What the app-server says, read by the host.                               *)

(* onCodexNotification: recorded, then followed.  A log that does not take   *)
(* it fails the agent (onLogError), whose turn goes on.                      *)
Started(r, m) == [r EXCEPT !.turn = TRUE, !.tid = m, !.pend = FALSE]
Completed(r, m) == [r EXCEPT !.turn = FALSE, !.tid = 0, !.last = m]

(* What is left for the app-server to say of a, once it said so. *)
Said(a, says) == [server EXCEPT !.left[a] = @ \ {says}, !.cut = IF says = "completed" THEN @ \ {a} ELSE @]

OnNotification(a, says) ==
  LET m == server.turn[a]
      r == agent[a]
      seen == a \in known /\ r.sid /\ ~r.logError
  IN
  /\ server.st = "up" /\ says \in server.left[a] \cap {"started", "completed"}
  /\ says = "completed" => "started" \notin server.left[a]
  /\ Quiet /\ phase # "closed"
  /\ \/ ~seen /\ UNCHANGED <<agent, saved, fate, extras>>
     \/ /\ seen
        /\ agent' = [agent EXCEPT ![a] = IF says = "started" THEN Started(r, m) ELSE Completed(r, m)]
        /\ Become(IF says = "completed" THEN {m} ELSE {}, "done")
        /\ UNCHANGED <<saved, extras>>
     \/ /\ seen /\ Fail("log")
        /\ agent' = [agent EXCEPT ![a].logError = TRUE, ![a].life = "failed", ![a].turn = FALSE]
        /\ UNCHANGED <<known, fate>> /\ Persist
  /\ LET cut == IF seen /\ says = "started" /\ r.pend /\ ~agent'[a].logError THEN {a} ELSE {} IN
     server' = [Said(a, says) EXCEPT !.cut = @ \cup cut]
  /\ UNCHANGED <<known, queue, pc, reply, pool, phase, asked>>

(* The answer to the request a waits for. *)
OnAnswer(a) ==
  /\ server.st = "up" /\ Quiet /\ phase # "closed"
  /\ \/ /\ "accepted" \in server.left[a]
        /\ reply' = [reply EXCEPT ![a] = "yes"]
        /\ server' = [Said(a, "accepted") EXCEPT !.loaded = @ \cup {a}]
        /\ UNCHANGED extras
     \/ /\ server.left[a] = IF pc[a] = "turn" THEN Says ELSE {"accepted"}
        /\ Fail("refuse")
        /\ reply' = [reply EXCEPT ![a] = "no"]
        /\ server' = [server EXCEPT !.left[a] = {}]
  /\ UNCHANGED <<known, agent, queue, pc, pool, phase, saved, hist>>

(* The handshake ends: a new app-server knows none of the threads.           *)
Await(S, how) == reply' = [a \in Agents |-> IF pc[a] \in S THEN how ELSE reply[a]]
MutNewPool == [pool EXCEPT !.st = "up"]
NewPool == [st |-> "up", attached |-> {}]

Initialized ==
  /\ server.st = "init" /\ Quiet /\ phase # "closed"
  /\ server' = [server EXCEPT !.st = "up"]
  /\ pool' = NewPool
  /\ Await({"ensure"}, "yes")
  /\ UNCHANGED <<known, agent, queue, pc, phase, saved, hist, extras>>

MutStartFailed == pool
StartFailed == [pool EXCEPT !.st = "none"]

InitializeFails ==
  /\ server.st = "init" /\ Quiet /\ phase # "closed"
  /\ Fail("initialize")
  /\ server' = NoServer
  /\ pool' = StartFailed
  /\ Await({"ensure"}, "no")
  /\ UNCHANGED <<known, agent, queue, pc, phase, saved, hist>>

(* onCodexExit: an idle agent only lost its place, one with a turn failed.   *)
MutExited(a, r) ==
  IF a \notin known \/ r.life # "alive" THEN r
  ELSE IF ~r.turn THEN [r EXCEPT !.life = "hibernated"]
  ELSE [r EXCEPT !.turn = FALSE, !.tid = 0, !.life = "failed"]
Exited(a, r) ==
  IF a \notin known THEN r
  ELSE IF r.life = "alive" /\ ~r.turn THEN [r EXCEPT !.life = "hibernated"]
  ELSE IF r.turn THEN [r EXCEPT !.turn = FALSE, !.tid = 0, !.life = "failed"]
  ELSE r

(* finish(): every request waiting is rejected, then onExit.  What was given *)
(* to the app-server and not done is lost.                                   *)
Lost(f) ==
  [m \in Messages |->
     IF fate[m] = "given" /\ \E a \in Agents : server.turn[a] = m
     THEN IF \E a \in known : server.turn[a] = m /\ f[a].life \notin {"failed", "stopped"}
          THEN "dropped" ELSE "told"
     ELSE fate[m]]

Over ==
  /\ Await({"thread", "resume", "turn"}, "no")
  /\ pool' = [pool EXCEPT !.st = "none"]
  /\ server' = NoServer

ServerExits ==
  /\ server.st = "gone" /\ Quiet /\ phase # "closed"
  /\ Over
  /\ agent' = [a \in Agents |-> Exited(a, agent[a])]
  /\ fate' = Lost(agent')
  /\ UNCHANGED <<known, queue, pc, phase, asked, extras>>
  /\ Persist

(* The idle reaper: 15 minutes without a turn, a request or a notification,  *)
(* in which the app-server has said all it had to say.                       *)
IdleReap ==
  /\ server.st = "up" /\ Quiet /\ phase # "closed"
  /\ \A a \in Agents : server.left[a] = {}
  /\ \A a \in Agents : pc[a] \notin {"thread", "resume", "turn"}
  /\ Fail("idle")
  /\ Over
  /\ agent' = [a \in Agents |-> Exited(a, agent[a])]
  /\ fate' = Lost(agent')
  /\ UNCHANGED <<known, queue, pc, phase, asked>>
  /\ Persist

-----------------------------------------------------------------------------
(* close(), and the next start().                                            *)

TurnInFlight == {a \in known : agent[a].turn}

Drain ==
  /\ ~Draining /\ Extra
  /\ phase' = "wait"
  /\ UNCHANGED <<host, codex, saved, hist>>

DrainCuts ==
  /\ phase = "wait" /\ TurnInFlight # {} /\ Quiet
  /\ phase' = "wait2"
  /\ agent' = [a \in Agents |-> IF a \in TurnInFlight THEN [Marked(a) EXCEPT !.cut = TRUE] ELSE agent[a]]
  /\ server' = Interrupted(TurnInFlight, [a \in TurnInFlight |-> agent[a].tid])
  /\ Ask(TurnInFlight)
  /\ UNCHANGED <<known, queue, pc, reply, pool, saved, fate, extras>>

(* The turns are over, or the second grace is: every queue is waited for.    *)
DrainEnds ==
  /\ phase = "wait2" \/ (phase = "wait" /\ TurnInFlight = {})
  /\ Quiet
  /\ phase' = "end"
  /\ queue' = [a \in Agents |-> IF a \in known THEN Append(queue[a], Simple("drain")) ELSE queue[a]]
  /\ UNCHANGED <<known, agent, pc, reply, codex, saved, hist, extras>>

(* The agents are marked, then the app-server is killed: onCodexExit.        *)
Marks(a) ==
  IF a \in known /\ agent[a].life = "alive"
  THEN [agent[a] EXCEPT !.life = IF agent[a].cut \/ agent[a].turn THEN "stopped" ELSE "hibernated", !.turn = FALSE]
  ELSE agent[a]
Closed ==
  /\ phase = "end" /\ Quiet
  /\ \A a \in Agents : \A i \in 1..Len(queue[a]) : queue[a][i].kind # "drain"
  /\ phase' = "closed"
  /\ agent' = [a \in Agents |-> IF pool.st = "up" THEN Exited(a, Marks(a)) ELSE Marks(a)]
  /\ IF pool.st = "up" THEN Over ELSE UNCHANGED <<reply, codex>>
  /\ fate' = Lost(agent')
  /\ UNCHANGED <<known, queue, pc, asked, extras>>
  /\ Persist

(* The host starts again, after it closed or crashed: an app-server it left  *)
(* is swept, the agents are restored from what was saved.  What was not      *)
(* answered failed with its connection.                                      *)
HostRestarts ==
  LET life(a) == IF saved[a].life \in {"alive", "starting"} THEN "stopped" ELSE saved[a].life IN
  /\ Fail("host")
  /\ known' = {a \in Agents : saved[a].life # "unborn"}
  /\ agent' = [a \in Agents |-> IF a \in known' THEN [Fresh EXCEPT !.life = life(a), !.sid = saved[a].sid]
                                ELSE agent[a]]
  /\ queue' = [a \in Agents |-> <<>>]
  /\ pc' = [a \in Agents |-> "idle"]
  /\ reply' = [a \in Agents |-> "none"]
  /\ pool' = [st |-> "none", attached |-> {}]
  /\ server' = NoServer
  /\ phase' = "serving"
  /\ fate' = [m \in Messages |-> IF fate[m] \in {"queued", "overtaken", "taken"} THEN "refused" ELSE Lost(agent')[m]]
  /\ UNCHANGED asked
  /\ Persist

(* It dies; the host learns of it later (ServerExits).                       *)
Crash ==
  /\ server.st = "up" /\ phase # "closed"
  /\ Fail("crash")
  /\ server' = [server EXCEPT !.st = "gone", !.left = [a \in Agents |-> {}], !.cut = {}]
  /\ UNCHANGED <<host, pool, phase, saved, hist>>

-----------------------------------------------------------------------------
Requests(a) ==
  \/ \E m \in Messages \cup {0} : ReqSpawn(a, m)
  \/ \E m \in Messages : ReqSend(a, m)
  \/ ReqStop(a) \/ ReqInterrupt(a) \/ ReqRemove(a) \/ ReqHibernate(a)

Go(a) ==
  \/ RunSpawn(a) \/ RunSend(a) \/ Ensured(a) \/ ThreadStarted(a) \/ Resumed(a) \/ TurnAccepted(a)
  \/ CallFailed(a) \/ RunStop(a) \/ RunRemove(a) \/ RunHibernate(a) \/ RunDrain(a)

Events == Initialized \/ InitializeFails \/ ServerExits
Closes == DrainCuts \/ DrainEnds \/ Closed

Next ==
  \/ \E a \in Agents : Requests(a) \/ Go(a) \/ OnAnswer(a) \/ \E says \in Says : OnNotification(a, says)
  \/ Events \/ IdleReap \/ Drain \/ Closes \/ HostRestarts
  \/ Crash

Spec == Init /\ [][Next]_vars

(* The event loop goes on, and the app-server serves: it starts or fails to, *)
(* answers requests, announces turns and ends those it was told to interrupt. *)
(* Nothing makes it end any other.                                           *)
Fairness ==
  /\ \A a \in Agents :
       /\ WF_vars(Go(a)) /\ WF_vars(OnAnswer(a))
       /\ WF_vars(OnNotification(a, "started"))
       /\ WF_vars(a \in server.cut /\ OnNotification(a, "completed"))
  /\ WF_vars(Events) /\ WF_vars(Closes)

FairSpec == Spec /\ Fairness

-----------------------------------------------------------------------------
(* Properties.                                                               *)

Watched(a) == a \in known /\ ~agent[a].logError

(* The host's idea of who is working (turnInFlight) is right, however turns, *)
(* their answers, refusals and the deaths of the app-server interleave: an   *)
(* agent is in a turn exactly while its message is being handed over, the    *)
(* app-server works on it, or the news of its end or failure is on its way.  *)
(* A drain waits for it, sends are refused by it, idle agents are put to     *)
(* sleep by it.                                                              *)
TurnSomewhere(a) ==
  \/ InTurn(a) /\ fate[Top(a).msg] \in {"taken", "overtaken"}
  \/ server.st = "gone" /\ server.turn[a] # 0 /\ fate[server.turn[a]] = "given"
  \/ Runs(a)
WorkingMeansWork ==
  Quiet /\ phase # "closed" => \A a \in Agents : Watched(a) => (agent[a].turn <=> TurnSomewhere(a))

(* A turn/start is due when it is sent: it was not overtaken by a stop, its  *)
(* thread is one this app-server knows by then ("per-thread settings are     *)
(* given again", codexPool.ts:131), and the thread's last turn is over       *)
(* (sendCodex: "must not ... start two turns on one thread").                *)
Due(a) ==
  /\ fate[Top(a).msg] # "overtaken"
  /\ server.st = "up" => a \in server.loaded /\ ~Runs(a)
TurnsAreDue ==
  [][\A a \in Agents : (pc[a] # "turn" /\ pc'[a] = "turn" /\ Watched(a)) => Due(a)]_vars

(* A message whose send was answered is never lost silently: when the        *)
(* app-server or the host dies under its turn, the agent is shown failed or  *)
(* stopped, not hibernated or idle.                                          *)
AnsweredNotDropped == \A m \in Messages : fate[m] # "dropped"

(* A turn that was to be interrupted ends, also when it had no id yet: no    *)
(* stop, interrupt, removal or drain is lost between the host and the        *)
(* app-server.  (For an agent whose log fails meanwhile one can be.)         *)
Works(m) ==
  \/ \E a \in Agents : server.turn[a] = m /\ Runs(a)
  \/ \E a \in Agents : InTurn(a) /\ Top(a).msg = m
StopEndsTurn ==
  \A m \in Messages : m \in asked ~> (~Works(m) \/ \E a \in Agents : agent[a].logError)
=============================================================================
