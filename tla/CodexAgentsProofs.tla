-------------------------- MODULE CodexAgentsProofs --------------------------
(***************************************************************************)
(* Theorems about CodexAgents, for any agents, messages and faults.        *)
(*                                                                         *)
(* First the types (Typed), and for each operator what it does to the      *)
(* state, so that no later proof opens it again.  The properties need the  *)
(* stronger IInv: who works is decided by what an agent's queue and await, *)
(* the app-server's thread and the fate of the message say together, and   *)
(* each of the four is changed by other steps than the rest.  It is Right, *)
(* for each agent, and what ties the agents: no message is two agents' and *)
(* no app-server serves a closed host.                                     *)
(*                                                                         *)
(* A step of one agent leaves the others Same, so that Right must be shown *)
(* for one (LocalStep); a request or a notification is only a Part of a    *)
(* step, a task's end or its next await a FinishStep or a CallStep.  When  *)
(* the app-server or the host comes or goes, tasks and messages are Kept   *)
(* for every agent.                                                        *)
(***************************************************************************)
EXTENDS CodexAgents, TLAPS, SequenceTheorems

AgentType == [life : Lives, sid : BOOLEAN, turn : BOOLEAN, tid : Messages \cup {0},
              last : Messages \cup {0}, pend : BOOLEAN, removed : BOOLEAN,
              logError : BOOLEAN, stops : Nat, cut : BOOLEAN]
TaskType == [kind : Kinds, msg : Messages \cup {0}, stops : Nat]
PoolType == [st : {"none", "starting", "up"}, attached : SUBSET Agents]
ServerType == [st : {"none", "init", "up", "gone"}, loaded : SUBSET Agents,
               turn : [Agents -> Messages \cup {0}], left : [Agents -> SUBSET Says],
               cut : SUBSET Agents]
SavedType == [Agents -> [life : Lives, sid : BOOLEAN]]
FateType == [Messages -> Fates]

\* The host and the app-server agree on whether there is one.
Linked(p, s) ==
  p.st = (CASE s.st = "none" -> "none" [] s.st = "init" -> "starting" [] OTHER -> "up")

\* An answer is due only to an await that has none yet.
AnswerDue ==
  \A a \in Agents : "accepted" \in server.left[a] =>
    pc[a] \in {"thread", "resume", "turn"} /\ reply[a] = "none"

\* Only a task stands at an await.
HeadAwaits == \A a \in Agents : pc[a] # "idle" => Busy(a)

Typed ==
  /\ known \in SUBSET Agents
  /\ agent \in [Agents -> AgentType]
  /\ queue \in [Agents -> Seq(TaskType)]
  /\ pc \in [Agents -> Stages]
  /\ reply \in [Agents -> {"none", "yes", "no"}]
  /\ \A a \in Agents : pc[a] = "idle" => reply[a] = "none"
  /\ pool \in PoolType /\ server \in ServerType /\ Linked(pool, server)
  /\ phase \in {"serving", "wait", "wait2", "end", "closed"}
  /\ saved \in SavedType
  /\ fate \in FateType
  /\ asked \in SUBSET Messages
  /\ AnswerDue /\ HeadAwaits

-----------------------------------------------------------------------------
(***************************************************************************)
(* What the operators of CodexAgents are, as far as types go.              *)
(***************************************************************************)
LEMMA FreshIs ==
  /\ Fresh \in AgentType /\ Fresh.life = "starting" /\ ~Fresh.sid /\ ~Fresh.turn
  /\ Fresh.stops = 0 /\ ~Fresh.logError
BY DEF Fresh, AgentType, Lives

LEMMA NoServerIs ==
  /\ NoServer \in ServerType /\ NoServer.st = "none" /\ NoServer.loaded = {}
  /\ \A a \in Agents : NoServer.left[a] = {} /\ NoServer.turn[a] = 0
BY DEF NoServer, ServerType

LEMMA InterruptedIs ==
  ASSUME Typed, NEW S \in SUBSET Agents, NEW ms, NEW s, s = Interrupted(S, ms)
  PROVE  /\ s \in ServerType /\ s.st = server.st /\ s.loaded = server.loaded
         /\ s.left = server.left /\ s.turn = server.turn
<1>1. PICK T \in SUBSET Agents : s = [server EXCEPT !.cut = @ \cup T]
  BY DEF Interrupted
<1> QED BY <1>1 DEF Typed, ServerType

LEMMA InterruptIs ==
  ASSUME Typed, NEW a \in Agents, NEW m, NEW s, s = Interrupt(a, m)
  PROVE  /\ s \in ServerType /\ s.st = server.st /\ s.loaded = server.loaded
         /\ s.left = server.left /\ s.turn = server.turn
BY InterruptedIs, {a} \in SUBSET Agents DEF Interrupt

LEMMA MarkedIs ==
  ASSUME Typed, NEW a \in Agents
  PROVE  \E p \in BOOLEAN : Marked(a) = [agent[a] EXCEPT !.pend = p]
<1>0. agent[a] \in AgentType
  BY DEF Typed
<1>1. CASE Interrupts(a)
  BY <1>1 DEF Marked
<1>2. CASE ~Interrupts(a)
  BY <1>0, <1>2 DEF Marked, AgentType
<1> QED BY <1>1, <1>2

LEMMA AskIs ==
  ASSUME Typed, NEW S, Ask(S)
  PROVE  asked' \in SUBSET Messages
BY DEF Ask, Typed

LEMMA StopIs ==
  ASSUME Typed, NEW a \in Agents, NEW r \in AgentType, Stop(a, r)
  PROVE  /\ \E p \in BOOLEAN : agent' = [agent EXCEPT ![a] = [r EXCEPT !.pend = p]]
         /\ server' \in ServerType /\ server'.st = server.st /\ server'.loaded = server.loaded
         /\ server'.left = server.left /\ server'.turn = server.turn
         /\ asked' \in SUBSET Messages
<1>1. PICK p \in BOOLEAN : Marked(a) = [agent[a] EXCEPT !.pend = p]
  BY MarkedIs
<1>2. Marked(a).pend = p
  BY <1>1 DEF Typed, AgentType
<1>3. server' = server \/ server' = Interrupt(a, agent[a].tid)
  BY DEF Stop
<1>4. agent' = [agent EXCEPT ![a] = [r EXCEPT !.pend = p]] /\ Ask({a})
  BY <1>2 DEF Stop
<1>5. asked' \in SUBSET Messages
  BY <1>4, AskIs
<1>6. server \in ServerType
  BY DEF Typed
<1>7. \E q \in BOOLEAN : agent' = [agent EXCEPT ![a] = [r EXCEPT !.pend = q]]
  BY <1>4, Zenon
<1>8. /\ server' \in ServerType /\ server'.st = server.st /\ server'.loaded = server.loaded
      /\ server'.left = server.left /\ server'.turn = server.turn
  <2> DEFINE i == Interrupt(a, agent[a].tid)
  <2>1. /\ i \in ServerType /\ i.st = server.st /\ i.loaded = server.loaded
        /\ i.left = server.left /\ i.turn = server.turn
    BY InterruptIs
  <2> HIDE DEF i
  <2> QED BY <1>3, <1>6, <2>1 DEF i
<1> QED BY <1>5, <1>7, <1>8, Zenon

LEMMA BecomeIs ==
  ASSUME Typed, NEW ms, NEW f \in Fates, Become(ms, f)
  PROVE  fate' \in FateType
BY DEF Become, Typed, FateType

LEMMA SaysIs == Says = {"accepted", "started", "completed"}
BY DEF Says

LEMMA TopIs ==
  ASSUME Typed, NEW a \in Agents, Busy(a)
  PROVE  /\ Top(a) \in TaskType /\ Len(queue[a]) \in Nat \ {0}
         /\ Tail(queue[a]) \in Seq(TaskType) /\ Len(Tail(queue[a])) = Len(queue[a]) - 1
         /\ \A i \in 1..Len(Tail(queue[a])) : Tail(queue[a])[i] = queue[a][i + 1]
<1>1. queue[a] \in Seq(TaskType) /\ queue[a] # <<>>
  BY DEF Typed, Busy
<1> HIDE DEF TaskType
<1> QED BY <1>1 DEF Top

LEMMA FinishIs ==
  ASSUME Typed, NEW a \in Agents, Busy(a), Finish(a)
  PROVE  /\ queue' = [queue EXCEPT ![a] = Tail(queue[a])] /\ queue' \in [Agents -> Seq(TaskType)]
         /\ pc' = [pc EXCEPT ![a] = "idle"] /\ pc' \in [Agents -> Stages]
         /\ reply' = [reply EXCEPT ![a] = "none"] /\ reply' \in [Agents -> {"none", "yes", "no"}]
         /\ \A b \in Agents \ {a} : queue'[b] = queue[b]
<1>1. Tail(queue[a]) \in Seq(TaskType)
  BY TopIs
<1> QED BY <1>1 DEF Finish, Settle, Dequeued, Typed, Stages

LEMMA CallIs ==
  ASSUME Typed, NEW a \in Agents, Busy(a), NEW op \in {"thread", "resume", "turn"}, Call(a, op)
  PROVE  /\ pc' = [pc EXCEPT ![a] = op] /\ pc' \in [Agents -> Stages]
         /\ reply' = [reply EXCEPT ![a] = "none"] /\ reply' \in [Agents -> {"none", "yes", "no"}]
         /\ server' \in ServerType /\ server'.st = server.st /\ server'.loaded = server.loaded
         /\ \A b \in Agents \ {a} : server'.left[b] = server.left[b] /\ server'.turn[b] = server.turn[b]
         /\ server.st # "up" => server' = server
         /\ server.st = "up" /\ op # "turn" => server'.left[a] = {"accepted"} /\ server'.turn[a] = server.turn[a]
         /\ server.st = "up" /\ op = "turn" => server'.left[a] = Says /\ server'.turn[a] = Top(a).msg
<1>1. Top(a).msg \in Messages \cup {0}
  BY TopIs DEF TaskType
<1>2. pc' = [pc EXCEPT ![a] = op] /\ reply' = [reply EXCEPT ![a] = "none"]
  BY DEF Call, Settle
<1>3. CASE server.st # "up"
  BY <1>2, <1>3 DEF Call, Typed, Stages
<1>4. CASE server.st = "up" /\ op # "turn"
  <2>1. server' = [server EXCEPT !.left[a] = {"accepted"}]
    BY <1>4 DEF Call
  <2> QED BY <1>2, <1>4, <2>1 DEF Typed, Stages, ServerType, Says
<1>5. CASE server.st = "up" /\ op = "turn"
  <2>1. server' = [server EXCEPT !.turn[a] = Top(a).msg, !.left[a] = Says]
    BY <1>5 DEF Call
  <2> QED BY <1>1, <1>2, <1>5, <2>1 DEF Typed, Stages, ServerType, Says
<1> QED BY <1>3, <1>4, <1>5

LEMMA EnsureIs ==
  ASSUME Typed, NEW a \in Agents, Busy(a), NEW r \in AgentType, Ensure(a, r)
  PROVE  /\ pool' \in PoolType /\ server' \in ServerType /\ Linked(pool', server')
         /\ pc' = [pc EXCEPT ![a] = pc'[a]] /\ pc' \in [Agents -> Stages] /\ pc'[a] # "idle"
         /\ reply' = [reply EXCEPT ![a] = "none"] /\ reply' \in [Agents -> {"none", "yes", "no"}]
         /\ pool'.attached = pool.attached
         /\ \/ pool.st = "up" /\ Call(a, Op(a, r, pool.attached))
            \/ /\ pool.st = "none" /\ server.st = "none" /\ pc'[a] = "ensure"
               /\ server'.st = "init" /\ server'.loaded = {}
               /\ \A b \in Agents : server'.left[b] = {} /\ server'.turn[b] = 0
            \/ pool.st = "starting" /\ server' = server /\ pc'[a] = "ensure"
<1>0. pool \in PoolType /\ server \in ServerType /\ Linked(pool, server) /\ pc \in [Agents -> Stages]
      /\ reply \in [Agents -> {"none", "yes", "no"}]
  BY DEF Typed
<1>1. CASE pool.st = "up"
  <2> DEFINE op == Op(a, r, pool.attached)
  <2>1. op \in {"thread", "resume", "turn"}
    BY DEF Op
  <2>2. Call(a, op) /\ pool' = pool
    BY <1>1 DEF Ensure
  <2> HIDE DEF op
  <2>3. /\ pc' = [pc EXCEPT ![a] = op] /\ pc' \in [Agents -> Stages]
        /\ reply' = [reply EXCEPT ![a] = "none"] /\ reply' \in [Agents -> {"none", "yes", "no"}]
        /\ server' \in ServerType /\ server'.st = server.st
    BY <2>1, <2>2, CallIs
  <2>4. Linked(pool', server')
    BY <1>0, <2>2, <2>3 DEF Linked
  <2> QED BY <1>0, <1>1, <2>1, <2>2, <2>3, <2>4 DEF op
<1>2. CASE pool.st # "up"
  <2>1. /\ pc' = [pc EXCEPT ![a] = "ensure"] /\ reply' = [reply EXCEPT ![a] = "none"]
        /\ pool' = [pool EXCEPT !.st = "starting"]
        /\ server' = IF pool.st = "none" THEN [NoServer EXCEPT !.st = "init"] ELSE server
    BY <1>2 DEF Ensure, Settle
  <2>2. pool' \in PoolType /\ pool'.st = "starting" /\ pool'.attached = pool.attached
    BY <1>0, <2>1 DEF PoolType
  <2>3. server' \in ServerType /\ server'.st = "init"
    BY <1>0, <1>2, <2>1, NoServerIs DEF Linked, ServerType
  <2>4. Linked(pool', server')
    BY <2>2, <2>3 DEF Linked
  <2>5. pool.st \in {"none", "starting"}
    BY <1>0, <1>2 DEF PoolType
  <2>6. CASE pool.st = "none"
    <3>1. server' = [NoServer EXCEPT !.st = "init"]
      BY <2>1, <2>6
    <3>2. /\ server'.st = "init" /\ server'.loaded = {}
          /\ \A b \in Agents : server'.left[b] = {} /\ server'.turn[b] = 0
      BY <3>1, NoServerIs DEF ServerType
    <3>3. server.st = "none"
      BY <1>0, <2>6 DEF Linked, ServerType
    <3> QED BY <1>0, <2>1, <2>2, <2>3, <2>4, <2>6, <3>2, <3>3 DEF Stages
  <2>7. CASE pool.st = "starting"
    BY <1>0, <2>1, <2>2, <2>3, <2>4, <2>7 DEF Stages
  <2> QED BY <2>5, <2>6, <2>7
<1> QED BY <1>1, <1>2

LEMMA SavesIs ==
  ASSUME NEW K \in SUBSET Agents, NEW f \in [Agents -> AgentType]
  PROVE  /\ Saves(K, f) \in SavedType
         /\ \A a \in K : Saves(K, f)[a].life = f[a].life
<1>1. \A a \in Agents : f[a].life \in Lives /\ f[a].sid \in BOOLEAN
  BY DEF AgentType
<1>2. "unborn" \in Lives
  BY DEF Lives
<1> QED BY <1>1, <1>2 DEF Saves, SavedType

LEMMA PersistIs ==
  ASSUME known' \in SUBSET Agents, agent' \in [Agents -> AgentType], Persist
  PROVE  saved' \in SavedType /\ \A a \in known' : saved'[a].life = agent'[a].life
BY SavesIs DEF Persist

\* saved' tells of every agent what was saved or what it was.
SavedOf(a, s) == s[a].life \in {saved[a].life, agent[a].life}

LEMMA TakeIs ==
  ASSUME Typed, NEW a \in Agents, NEW r \in AgentType, NEW s \in SavedType, Take(a, r, s)
  PROVE  /\ known' = known /\ queue' = queue
         /\ agent' = [agent EXCEPT ![a] = agent'[a]] /\ agent' \in [Agents -> AgentType]
         /\ agent'[a].turn /\ agent'[a].life = "alive" /\ agent'[a].sid = r.sid
         /\ agent'[a].stops = r.stops /\ (r.logError => agent'[a].logError)
         /\ saved' \in SavedType
         /\ \A b \in known \ {a} : saved'[b].life \in {s[b].life, agent[b].life}
         /\ a \in known => saved'[a].life \in {s[a].life, "failed"}
         /\ fate' \in FateType
<1> DEFINE claimed == [r EXCEPT !.turn = TRUE, !.pend = FALSE, !.life = "alive"]
           f == [agent EXCEPT ![a] = [r EXCEPT !.life = "failed"]]
<1>0. agent \in [Agents -> AgentType] /\ known \in SUBSET Agents
  BY DEF Typed
<1>1. claimed \in AgentType /\ claimed.turn /\ claimed.life = "alive" /\ claimed.sid = r.sid
      /\ claimed.stops = r.stops /\ claimed.logError = r.logError
  BY DEF AgentType, Lives
<1>2. [claimed EXCEPT !.logError = TRUE] \in AgentType
  BY <1>1 DEF AgentType
<1>3. f \in [Agents -> AgentType] /\ f[a].life = "failed" /\ \A b \in Agents \ {a} : f[b] = agent[b]
  BY <1>0 DEF AgentType, Lives
<1>4. "taken" \in Fates
  BY DEF Fates
<1>5. fate' \in FateType
  BY <1>4, BecomeIs DEF Take
<1>6. known' = known /\ queue' = queue
  BY DEF Take
<1>7. CASE agent' = [agent EXCEPT ![a] = claimed] /\ saved' = s
  <2> HIDE DEF claimed
  <2> QED BY <1>0, <1>1, <1>5, <1>6, <1>7
<1>8. CASE agent' = [agent EXCEPT ![a] = [claimed EXCEPT !.logError = TRUE]] /\ saved' = Saves(known, f)
  <2>1. saved' \in SavedType /\ \A b \in known : saved'[b].life = f[b].life
    BY <1>0, <1>3, <1>8, SavesIs
  <2>2. /\ \A b \in known \ {a} : saved'[b].life = agent[b].life
        /\ a \in known => saved'[a].life = "failed"
    BY <1>0, <1>3, <2>1
  <2> DEFINE c == [claimed EXCEPT !.logError = TRUE]
  <2>3. c \in AgentType /\ c.turn /\ c.life = "alive" /\ c.sid = r.sid /\ c.stops = r.stops /\ c.logError
    BY <1>1, <1>2 DEF AgentType
  <2>4. agent' = [agent EXCEPT ![a] = c]
    BY <1>8
  <2> HIDE DEF claimed, f, c
  <2> QED BY <1>0, <1>5, <1>6, <2>1, <2>2, <2>3, <2>4
<1>9. \/ agent' = [agent EXCEPT ![a] = claimed] /\ saved' = s
      \/ agent' = [agent EXCEPT ![a] = [claimed EXCEPT !.logError = TRUE]] /\ saved' = Saves(known, f)
  BY DEF Take
<1> QED BY <1>7, <1>8, <1>9

LEMMA SpawnEndsIs ==
  ASSUME Typed, NEW a \in Agents, Busy(a), SpawnEnds(a)
  PROVE  /\ queue' \in [Agents -> Seq(TaskType)] /\ pc' \in [Agents -> Stages]
         /\ reply' \in [Agents -> {"none", "yes", "no"}] /\ fate' \in FateType
         /\ pc' = [pc EXCEPT ![a] = "idle"] /\ reply' = [reply EXCEPT ![a] = "none"]
         /\ \A b \in Agents \ {a} : queue'[b] = queue[b]
         /\ \/ /\ Top(a).msg = 0 \/ StoppedSince(a)
               /\ queue' = [queue EXCEPT ![a] = Tail(queue[a])] /\ Become({Top(a).msg}, "refused")
            \/ /\ Top(a).msg \in Messages /\ ~StoppedSince(a) /\ fate' = fate
               /\ queue' = [queue EXCEPT ![a] = Append(Tail(queue[a]), Task("send", Top(a).msg, 0))]
<1> DEFINE m == Top(a).msg
           t == Task("send", m, 0)
<1>0. m \in Messages \cup {0} /\ Tail(queue[a]) \in Seq(TaskType)
  BY TopIs DEF TaskType
<1>1. CASE m = 0 \/ StoppedSince(a)
  <2>1. Finish(a) /\ Become({m}, "refused")
    BY <1>1 DEF SpawnEnds
  <2>2. fate' \in FateType
    BY <2>1, BecomeIs DEF Fates
  <2> QED BY <1>1, <2>1, <2>2, FinishIs
<1>2. CASE ~(m = 0 \/ StoppedSince(a))
  <2>1. /\ queue' = [queue EXCEPT ![a] = Append(Tail(queue[a]), t)]
        /\ pc' = [pc EXCEPT ![a] = "idle"] /\ reply' = [reply EXCEPT ![a] = "none"] /\ fate' = fate
    BY <1>2 DEF SpawnEnds, Settle
  <2>2. t \in TaskType
    BY <1>0 DEF Task, TaskType, Kinds
  <2>3. Append(Tail(queue[a]), t) \in Seq(TaskType)
    <3> HIDE DEF t, TaskType
    <3> QED BY <1>0, <2>2
  <2> HIDE DEF t
  <2> QED BY <1>0, <1>2, <2>1, <2>3 DEF Typed, Stages, t
<1> QED BY <1>1, <1>2

LEMMA ExitedIs ==
  ASSUME NEW a \in Agents, NEW r \in AgentType, NEW x, x = Exited(a, r)
  PROVE  /\ x \in AgentType /\ x.sid = r.sid /\ x.stops = r.stops /\ x.removed = r.removed
         /\ x.logError = r.logError
         /\ a \notin known => x = r
         /\ a \in known => ~x.turn
         /\ a \in known /\ r.turn => x.life = "failed"
         /\ a \in known /\ ~r.turn => x.life = IF r.life = "alive" THEN "hibernated" ELSE r.life
<1>1. CASE a \notin known
  BY <1>1 DEF Exited
<1>2. CASE a \in known /\ r.turn
  <2>1. x = [r EXCEPT !.turn = FALSE, !.tid = 0, !.life = "failed"]
    BY <1>2 DEF Exited
  <2> QED BY <1>2, <2>1 DEF AgentType, Lives
<1>3. CASE a \in known /\ ~r.turn /\ r.life = "alive"
  <2>1. x = [r EXCEPT !.life = "hibernated"]
    BY <1>3 DEF Exited
  <2> QED BY <1>3, <2>1 DEF AgentType, Lives
<1>4. CASE a \in known /\ ~r.turn /\ r.life # "alive"
  <2>1. x = r
    BY <1>4 DEF Exited
  <2> QED BY <1>4, <2>1
<1> QED BY <1>1, <1>2, <1>3, <1>4

LEMMA MarksIs ==
  ASSUME Typed, NEW a \in Agents, NEW x, x = Marks(a)
  PROVE  /\ x \in AgentType /\ x.sid = agent[a].sid /\ x.stops = agent[a].stops
         /\ x.removed = agent[a].removed /\ x.logError = agent[a].logError
         /\ a \notin known => x = agent[a]
         /\ agent[a].life # "alive" => x = agent[a]
         /\ a \in known /\ agent[a].life = "alive" => ~x.turn
         /\ a \in known /\ agent[a].life = "alive" /\ agent[a].turn => x.life = "stopped"
         /\ x.life = "unborn" => agent[a].life = "unborn"
<1>0. agent[a] \in AgentType
  BY DEF Typed
<1>1. CASE a \in known /\ agent[a].life = "alive"
  <2> DEFINE l == IF agent[a].cut \/ agent[a].turn THEN "stopped" ELSE "hibernated"
  <2>1. x = [agent[a] EXCEPT !.life = l, !.turn = FALSE]
    BY <1>1 DEF Marks
  <2>2. l \in Lives /\ l # "unborn" /\ (agent[a].turn => l = "stopped")
    BY DEF Lives
  <2> HIDE DEF l
  <2> QED BY <1>0, <1>1, <2>1, <2>2 DEF AgentType
<1>2. CASE ~(a \in known /\ agent[a].life = "alive")
  BY <1>0, <1>2 DEF Marks
<1> QED BY <1>1, <1>2

LEMMA LostIs ==
  ASSUME Typed, NEW f
  PROVE  Lost(f) \in FateType
BY DEF Lost, Typed, FateType, Fates

LEMMA SaidIs ==
  ASSUME Typed, NEW a \in Agents, NEW says, NEW s, s = Said(a, says)
  PROVE  /\ s \in ServerType /\ s.st = server.st /\ s.loaded = server.loaded /\ s.turn = server.turn
         /\ s.left = [server.left EXCEPT ![a] = server.left[a] \ {says}]
<1> DEFINE l == [server.left EXCEPT ![a] = server.left[a] \ {says}]
           T == IF says = "completed" THEN server.cut \ {a} ELSE server.cut
<1>1. s = [server EXCEPT !.left = l, !.cut = T]
  BY DEF Said, Typed, ServerType
<1>2. server \in ServerType
  BY DEF Typed
<1>3. l \in [Agents -> SUBSET Says] /\ T \in SUBSET Agents
  BY <1>2 DEF ServerType
<1> HIDE DEF l, T
<1>4. s \in ServerType /\ s.st = server.st /\ s.loaded = server.loaded /\ s.turn = server.turn /\ s.left = l
  BY <1>1, <1>2, <1>3 DEF ServerType
<1> QED BY <1>4 DEF l

LEMMA AwaitIs ==
  ASSUME Typed, NEW S, NEW how \in {"yes", "no"}, Await(S, how), "idle" \notin S
  PROVE  /\ reply' \in [Agents -> {"none", "yes", "no"}]
         /\ \A b \in Agents : reply'[b] = IF pc[b] \in S THEN how ELSE reply[b]
         /\ \A b \in Agents : pc[b] = "idle" => reply'[b] = "none"
BY DEF Await, Typed

LEMMA OverIs ==
  ASSUME Typed, Over
  PROVE  /\ reply' \in [Agents -> {"none", "yes", "no"}]
         /\ \A b \in Agents : reply'[b] = IF pc[b] \in {"thread", "resume", "turn"} THEN "no" ELSE reply[b]
         /\ \A b \in Agents : pc[b] = "idle" => reply'[b] = "none"
         /\ pool' \in PoolType /\ pool'.st = "none" /\ pool'.attached = pool.attached
         /\ server' = NoServer /\ server' \in ServerType /\ Linked(pool', server')
<1>1. Await({"thread", "resume", "turn"}, "no") /\ pool' = [pool EXCEPT !.st = "none"] /\ server' = NoServer
  BY DEF Over
<1>2. pool' \in PoolType /\ pool'.st = "none" /\ pool'.attached = pool.attached
  BY <1>1 DEF Typed, PoolType
<1>3. server' \in ServerType /\ server'.st = "none"
  BY <1>1, NoServerIs
<1> QED BY <1>1, <1>2, <1>3, AwaitIs DEF Linked

-----------------------------------------------------------------------------
(***************************************************************************)
(* Types.                                                                  *)
(***************************************************************************)
LEMMA EnqueueIs ==
  ASSUME Typed, NEW a \in Agents, NEW t \in TaskType, Enqueue(a, t)
  PROVE  /\ queue' \in [Agents -> Seq(TaskType)]
         /\ queue' = [queue EXCEPT ![a] = Append(queue[a], t)]
         /\ \A b \in Agents : Busy(b) => Busy(b)'
<1>1. Append(queue[a], t) \in Seq(TaskType) /\ Append(queue[a], t) # <<>>
  <2>1. queue[a] \in Seq(TaskType)
    BY DEF Typed
  <2> HIDE DEF TaskType
  <2> QED BY <2>1
<1> QED BY <1>1 DEF Enqueue, Typed, Busy

LEMMA SimpleIs ==
  ASSUME NEW k \in Kinds
  PROVE  Simple(k) \in TaskType /\ Simple(k).msg = 0 /\ Simple(k).kind = k
BY DEF Simple, Task, TaskType

\* The parts of Typed that a step on agents and queues leaves as they are.
LEMMA QueuesTyped ==
  ASSUME Typed, known' \in SUBSET Agents, agent' \in [Agents -> AgentType],
         queue' \in [Agents -> Seq(TaskType)], \A b \in Agents : Busy(b) => Busy(b)',
         server' \in ServerType, server'.st = server.st, server'.left = server.left,
         fate' \in FateType, asked' \in SUBSET Messages,
         UNCHANGED <<pc, reply, pool, phase, saved>>
  PROVE  Typed'
BY DEF Typed, Linked, AnswerDue, HeadAwaits

LEMMA RequestsTyped ==
  ASSUME Typed, NEW a \in Agents, Requests(a)
  PROVE  Typed'
<1>0. agent[a] \in AgentType
  BY DEF Typed
<1>1. ASSUME NEW m \in Messages \cup {0}, ReqSpawn(a, m) PROVE Typed'
  <2> DEFINE f == [Fresh EXCEPT !.sid = a \in Existing]
  <2>1. f \in AgentType
    <3>1. \A e \in BOOLEAN : [Fresh EXCEPT !.sid = e] \in AgentType
      BY FreshIs DEF AgentType
    <3>2. (a \in Existing) \in BOOLEAN
      OBVIOUS
    <3> QED BY <3>1, <3>2, Zenon
  <2>2. Task("spawn", m, 0) \in TaskType
    BY DEF Task, TaskType, Kinds
  <2>3. queue' \in [Agents -> Seq(TaskType)] /\ \A b \in Agents : Busy(b) => Busy(b)'
    BY <1>1, <2>2, EnqueueIs DEF ReqSpawn
  <2>4. fate' \in FateType
    BY <1>1, BecomeIs DEF ReqSpawn, Fates
  <2>5. agent' = [agent EXCEPT ![a] = f] /\ known' = known \cup {a}
    BY <1>1 DEF ReqSpawn
  <2> HIDE DEF f
  <2>6. agent' \in [Agents -> AgentType] /\ known' \in SUBSET Agents
    BY <2>1, <2>5 DEF Typed
  <2>7. UNCHANGED <<pc, reply, pool, server, phase, saved, asked>>
    BY <1>1 DEF ReqSpawn, codex
  <2> QED BY <2>3, <2>4, <2>6, <2>7, QueuesTyped DEF Typed
<1>2. ASSUME NEW m \in Messages, ReqSend(a, m) PROVE Typed'
  <2>1. Task("send", m, agent[a].stops) \in TaskType
    BY <1>0 DEF Task, TaskType, Kinds, AgentType
  <2>2. queue' \in [Agents -> Seq(TaskType)] /\ \A b \in Agents : Busy(b) => Busy(b)'
    BY <1>2, <2>1, EnqueueIs DEF ReqSend
  <2>3. fate' \in FateType
    BY <1>2, BecomeIs DEF ReqSend, Fates
  <2>4. UNCHANGED <<known, agent, pc, reply, pool, server, phase, saved, asked>>
    BY <1>2 DEF ReqSend, codex
  <2> QED BY <2>2, <2>3, <2>4, QueuesTyped DEF Typed
<1>3. ASSUME NEW r \in AgentType, Stop(a, r) PROVE
        /\ agent' \in [Agents -> AgentType]
        /\ server' \in ServerType /\ server'.st = server.st /\ server'.left = server.left
        /\ asked' \in SUBSET Messages
  <2>1. PICK p \in BOOLEAN : agent' = [agent EXCEPT ![a] = [r EXCEPT !.pend = p]]
    BY <1>3, StopIs
  <2> DEFINE x == [r EXCEPT !.pend = p]
  <2>2. x \in AgentType
    BY DEF AgentType
  <2>3. agent' = [agent EXCEPT ![a] = x]
    BY <2>1
  <2> HIDE DEF x
  <2>4. agent' \in [Agents -> AgentType]
    BY <2>2, <2>3 DEF Typed
  <2> QED BY <1>3, <2>4, StopIs
<1>4. CASE ReqStop(a)
  <2>1. [agent[a] EXCEPT !.stops = @ + 1] \in AgentType
    BY <1>0 DEF AgentType
  <2>2. queue' \in [Agents -> Seq(TaskType)] /\ \A b \in Agents : Busy(b) => Busy(b)'
    BY <1>4, SimpleIs, EnqueueIs DEF ReqStop, Kinds
  <2>3. fate' \in FateType
    BY <1>4, BecomeIs DEF ReqStop, Fates
  <2>4. Stop(a, [agent[a] EXCEPT !.stops = @ + 1]) /\ UNCHANGED <<known, pc, reply, pool, phase, saved>>
    BY <1>4 DEF ReqStop
  <2> QED BY <1>3, <2>1, <2>2, <2>3, <2>4, QueuesTyped DEF Typed
<1>5. CASE ReqInterrupt(a)
  <2>1. Stop(a, agent[a]) /\ UNCHANGED <<known, queue, pc, reply, pool, phase, saved, fate>>
    BY <1>5 DEF ReqInterrupt
  <2> QED BY <1>0, <1>3, <2>1, QueuesTyped DEF Typed, Busy
<1>6. CASE ReqRemove(a)
  <2>1. [agent[a] EXCEPT !.removed = TRUE] \in AgentType
    BY <1>0 DEF AgentType
  <2>2. queue' \in [Agents -> Seq(TaskType)] /\ \A b \in Agents : Busy(b) => Busy(b)'
    BY <1>6, SimpleIs, EnqueueIs DEF ReqRemove, Kinds
  <2>3. Stop(a, [agent[a] EXCEPT !.removed = TRUE]) /\ UNCHANGED <<known, pc, reply, pool, phase, saved, fate>>
    BY <1>6 DEF ReqRemove
  <2> QED BY <1>3, <2>1, <2>2, <2>3, QueuesTyped DEF Typed
<1>7. CASE ReqHibernate(a)
  <2>1. queue' \in [Agents -> Seq(TaskType)] /\ \A b \in Agents : Busy(b) => Busy(b)'
    BY <1>7, SimpleIs, EnqueueIs DEF ReqHibernate, Kinds
  <2>2. UNCHANGED <<known, agent, pc, reply, pool, server, phase, saved, fate, asked>>
    BY <1>7 DEF ReqHibernate, codex, hist
  <2> QED BY <2>1, <2>2, QueuesTyped DEF Typed
<1> QED BY <1>1, <1>2, <1>4, <1>5, <1>6, <1>7 DEF Requests

\* A head task that ends, one that calls the app-server, one that waits for it.
LEMMA DoneTyped ==
  ASSUME Typed, NEW a \in Agents, pc[a] = "idle" \/ reply[a] # "none",
         pc' = [pc EXCEPT ![a] = "idle"], reply' = [reply EXCEPT ![a] = "none"],
         known' \in SUBSET Agents, agent' \in [Agents -> AgentType],
         queue' \in [Agents -> Seq(TaskType)], \A b \in Agents \ {a} : queue'[b] = queue[b],
         fate' \in FateType, saved' \in SavedType, pool' \in PoolType, pool'.st = pool.st,
         server' \in ServerType, server'.st = server.st, server'.left = server.left,
         UNCHANGED <<phase, asked>>
  PROVE  Typed'
<1>1. pc' \in [Agents -> Stages] /\ reply' \in [Agents -> {"none", "yes", "no"}]
      /\ \A b \in Agents : pc'[b] = "idle" => reply'[b] = "none"
  BY DEF Typed, Stages
<1>2. AnswerDue'
  BY DEF Typed, AnswerDue
<1>3. Linked(pool', server')
  BY DEF Typed, Linked
<1>4. HeadAwaits'
  BY DEF Typed, HeadAwaits, Busy
<1> QED BY <1>1, <1>2, <1>3, <1>4 DEF Typed

LEMMA CallTyped ==
  ASSUME Typed, NEW a \in Agents, Busy(a), NEW op \in {"thread", "resume", "turn"}, Call(a, op),
         known' \in SUBSET Agents, agent' \in [Agents -> AgentType],
         queue' = queue, fate' \in FateType,
         saved' \in SavedType, pool' \in PoolType, pool'.st = pool.st,
         UNCHANGED <<phase, asked>>
  PROVE  Typed'
<1>1. \A b \in Agents : pc'[b] = "idle" => reply'[b] = "none"
  BY CallIs DEF Typed
<1>2. AnswerDue'
  <2>1. pc' = [pc EXCEPT ![a] = op] /\ reply' = [reply EXCEPT ![a] = "none"]
    BY CallIs
  <2>2. \A b \in Agents \ {a} : server'.left[b] = server.left[b]
    BY CallIs
  <2> QED BY <2>1, <2>2 DEF Typed, AnswerDue
<1>3. Linked(pool', server')
  BY CallIs DEF Typed, Linked
<1>4. HeadAwaits'
  BY CallIs DEF Typed, HeadAwaits, Busy
<1> QED BY CallIs, <1>1, <1>2, <1>3, <1>4 DEF Typed

LEMMA EnsureTyped ==
  ASSUME Typed, NEW a \in Agents, Busy(a), pc[a] = "idle" \/ reply[a] # "none",
         NEW r \in AgentType, Ensure(a, r),
         known' \in SUBSET Agents, agent' \in [Agents -> AgentType],
         queue' = queue, fate' \in FateType,
         saved' \in SavedType, UNCHANGED <<phase, asked>>
  PROVE  Typed'
<1> DEFINE op == Op(a, r, pool.attached)
<1>0. op \in {"thread", "resume", "turn"}
  BY DEF Op
<1>1. CASE pool.st = "up"
  <2>1. Call(a, op) /\ pool' = pool
    BY <1>1 DEF Ensure
  <2> HIDE DEF op
  <2>2. pool \in PoolType
    BY DEF Typed
  <2> QED BY <1>0, <2>1, <2>2, CallTyped
<1>2. CASE pool.st # "up"
  <2>1. \A b \in Agents : "accepted" \in server'.left[b] => "accepted" \in server.left[b]
    BY <1>2, EnsureIs
  <2>2. "accepted" \notin server.left[a]
    BY DEF Typed, AnswerDue
  <2>3. AnswerDue'
    BY <2>1, <2>2, EnsureIs DEF Typed, AnswerDue
  <2>4. \A b \in Agents : pc'[b] = "idle" => reply'[b] = "none"
    BY EnsureIs DEF Typed
  <2>5. HeadAwaits'
    BY EnsureIs DEF Typed, HeadAwaits, Busy
  <2> QED BY <2>3, <2>4, <2>5, EnsureIs DEF Typed
<1> QED BY <1>1, <1>2

LEMMA StartThreadTyped ==
  ASSUME Typed, NEW a \in Agents, Busy(a), pc[a] = "idle", StartThread(a), UNCHANGED <<phase, asked>>
  PROVE  Typed'
<1> DEFINE r == [agent[a] EXCEPT !.life = "starting"]
<1>0. agent[a] \in AgentType
  BY DEF Typed
<1>1. r \in AgentType
  BY <1>0 DEF AgentType, Lives
<1>2. agent' = [agent EXCEPT ![a] = r] /\ Ensure(a, r) /\ UNCHANGED <<known, queue, saved, fate>>
  BY DEF StartThread
<1> HIDE DEF r
<1>3. agent' \in [Agents -> AgentType]
  BY <1>1, <1>2 DEF Typed
<1>4. /\ known \in SUBSET Agents /\ queue \in [Agents -> Seq(TaskType)]
      /\ saved \in SavedType /\ fate \in FateType
  BY DEF Typed
<1> QED BY <1>1, <1>2, <1>3, <1>4, EnsureTyped

LEMMA ForgetIs ==
  ASSUME Typed, NEW a \in Agents, Forget(a)
  PROVE  /\ known' = known \ {a} /\ known' \in SUBSET Agents /\ agent' = agent
         /\ saved' \in SavedType /\ \A b \in known' : saved'[b].life = agent[b].life
BY PersistIs DEF Forget, Typed

LEMMA AttachIs ==
  ASSUME Typed, NEW a \in Agents
  PROVE  /\ Attach(a) \in PoolType /\ Attach(a).st = pool.st
         /\ Attach(a).attached = pool.attached \cup {a}
BY DEF Attach, Typed, PoolType

LEMMA NamedIs ==
  ASSUME NEW r \in AgentType, NEW m \in Messages \cup {0}, NEW x, x = Named(r, m)
  PROVE  /\ x \in AgentType /\ x.life = r.life /\ x.sid = r.sid /\ x.turn = r.turn
         /\ x.stops = r.stops /\ x.removed = r.removed /\ x.logError = r.logError
BY DEF Named, AgentType

LEMMA TurnAcceptedIs ==
  ASSUME Typed, NEW a \in Agents, TurnAccepted(a)
  PROVE  /\ agent' = [agent EXCEPT ![a] = agent'[a]] /\ agent' \in [Agents -> AgentType]
         /\ agent'[a].life = agent[a].life /\ agent'[a].sid = agent[a].sid
         /\ agent'[a].turn = agent[a].turn /\ agent'[a].stops = agent[a].stops
         /\ agent'[a].logError = agent[a].logError
         /\ server' \in ServerType /\ server'.st = server.st /\ server'.loaded = server.loaded
         /\ server'.left = server.left /\ server'.turn = server.turn
         /\ saved' \in SavedType /\ \A b \in known : saved'[b].life = agent'[b].life
<1> DEFINE r == Named(agent[a], Top(a).msg)
           x == IF r.pend /\ r.turn THEN [r EXCEPT !.pend = FALSE] ELSE r
           i == Interrupt(a, r.tid)
<1>0. agent[a] \in AgentType /\ known \in SUBSET Agents /\ server \in ServerType /\ Top(a).msg \in Messages \cup {0}
  <2>1. Busy(a)
    BY DEF TurnAccepted, Typed, HeadAwaits
  <2> QED BY <2>1, TopIs DEF Typed, TaskType
<1>1. /\ r \in AgentType /\ r.life = agent[a].life /\ r.sid = agent[a].sid /\ r.turn = agent[a].turn
      /\ r.stops = agent[a].stops /\ r.logError = agent[a].logError
  BY <1>0, NamedIs
<1>2. /\ agent' = [agent EXCEPT ![a] = x]
      /\ server' = IF r.pend /\ r.turn THEN i ELSE server
      /\ known' = known /\ Persist
  BY DEF TurnAccepted, SaveTurn
<1>3. /\ i \in ServerType /\ i.st = server.st /\ i.loaded = server.loaded
      /\ i.left = server.left /\ i.turn = server.turn
  BY InterruptIs
<1> HIDE DEF r, i
<1>4. /\ x \in AgentType /\ x.life = agent[a].life /\ x.sid = agent[a].sid /\ x.turn = agent[a].turn
      /\ x.stops = agent[a].stops /\ x.logError = agent[a].logError
  BY <1>1 DEF AgentType
<1> HIDE DEF x
<1>5. /\ agent' = [agent EXCEPT ![a] = agent'[a]] /\ agent' \in [Agents -> AgentType] /\ agent'[a] = x
  BY <1>2, <1>4 DEF Typed
<1>6. saved' \in SavedType /\ \A b \in known : saved'[b].life = agent'[b].life
  BY <1>0, <1>2, <1>5, PersistIs
<1> QED BY <1>0, <1>2, <1>3, <1>4, <1>5, <1>6

\* Who runs or goes on stands at no await that is open.
LEMMA GoIs ==
  ASSUME Typed, NEW a \in Agents, Go(a)
  PROVE  Busy(a) /\ (pc[a] = "idle" \/ reply[a] # "none")
<1>1. CASE RunSpawn(a) \/ RunSend(a) \/ RunStop(a) \/ RunRemove(a) \/ RunHibernate(a) \/ RunDrain(a)
  BY <1>1 DEF RunSpawn, RunSend, RunStop, RunRemove, RunHibernate, RunDrain, At
<1>2. CASE Ensured(a) \/ ThreadStarted(a) \/ Resumed(a) \/ TurnAccepted(a)
  BY <1>2 DEF Ensured, ThreadStarted, Resumed, TurnAccepted, Typed, HeadAwaits
<1>3. CASE CallFailed(a)
  BY <1>3 DEF CallFailed, Typed, HeadAwaits
<1> QED BY <1>1, <1>2, <1>3 DEF Go

\* The task at the head ends; nothing but agents, files and fates changed.
LEMMA FinishTyped ==
  ASSUME Typed, NEW a \in Agents, Go(a), Finish(a),
         known' \in SUBSET Agents, agent' \in [Agents -> AgentType],
         fate' \in FateType, saved' \in SavedType, pool' \in PoolType, pool'.st = pool.st,
         server' \in ServerType, server'.st = server.st, server'.left = server.left,
         UNCHANGED <<phase, asked>>
  PROVE  Typed'
BY GoIs, FinishIs, DoneTyped

LEMMA GoTyped ==
  ASSUME Typed, NEW a \in Agents, Go(a)
  PROVE  Typed'
<1>0. /\ agent[a] \in AgentType /\ known \in SUBSET Agents /\ agent \in [Agents -> AgentType]
      /\ saved \in SavedType /\ fate \in FateType /\ pool \in PoolType /\ server \in ServerType
      /\ queue \in [Agents -> Seq(TaskType)]
  BY DEF Typed
<1>1. Busy(a) /\ (pc[a] = "idle" \/ reply[a] # "none")
  BY GoIs
<1>2. ASSUME NEW r \in AgentType, agent' = [agent EXCEPT ![a] = r] PROVE agent' \in [Agents -> AgentType]
  BY <1>0, <1>2
<1>3. ASSUME NEW l \in Lives PROVE [agent[a] EXCEPT !.life = l] \in AgentType
  BY <1>0 DEF AgentType
<1>4. \A l \in {"hibernated", "stopped", "failed", "alive", "starting"} : l \in Lives
  BY DEF Lives
<1>5. CASE RunSpawn(a) /\ agent[a].sid
  <2> DEFINE r == [agent[a] EXCEPT !.life = "hibernated"]
  <2>1. /\ agent' = [agent EXCEPT ![a] = r] /\ SpawnEnds(a) /\ Persist
        /\ UNCHANGED <<known, pool, server, phase, asked>>
    BY <1>5 DEF RunSpawn, codex
  <2>2. r \in AgentType
    BY <1>3, <1>4
  <2> HIDE DEF r
  <2>3. agent' \in [Agents -> AgentType]
    BY <1>2, <2>1, <2>2
  <2>4. saved' \in SavedType
    BY <1>0, <2>1, <2>3, PersistIs
  <2>5. \A b \in Agents \ {a} : queue'[b] = queue[b]
    BY <1>1, <2>1, SpawnEndsIs
  <2> QED BY <1>0, <1>1, <2>1, <2>3, <2>4, <2>5, SpawnEndsIs, DoneTyped
<1>6. CASE RunSpawn(a) /\ ~agent[a].sid
  <2>1. StartThread(a) /\ pc[a] = "idle" /\ UNCHANGED <<phase, asked>>
    BY <1>6 DEF RunSpawn, At
  <2> QED BY <1>1, <2>1, StartThreadTyped
<1>7. ASSUME Refuse(a), UNCHANGED <<phase, asked>> PROVE Typed'
  <2>1. Finish(a) /\ Become({Top(a).msg}, "refused") /\ UNCHANGED <<known, agent, pool, server, saved>>
    BY <1>7 DEF Refuse, codex
  <2>2. fate' \in FateType
    BY <2>1, BecomeIs DEF Fates
  <2> QED BY <1>0, <1>7, <2>1, <2>2, FinishTyped
<1>8. CASE RunSend(a)
  <2>1. CASE Refuse(a)
    BY <1>7, <1>8, <2>1 DEF RunSend
  <2>2. CASE StartThread(a)
    BY <1>1, <1>8, <2>2, StartThreadTyped DEF RunSend, At
  <2>3. CASE Take(a, agent[a], saved) /\ Ensure(a, agent[a])
    <3>1. /\ known' \in SUBSET Agents /\ agent' \in [Agents -> AgentType] /\ queue' = queue
          /\ fate' \in FateType /\ saved' \in SavedType
      BY <1>0, <2>3, TakeIs
    <3>2. UNCHANGED <<phase, asked>> /\ queue' \in [Agents -> Seq(TaskType)]
      BY <1>0, <1>8, <3>1 DEF RunSend
    <3> QED BY <1>0, <1>1, <2>3, <3>1, <3>2, EnsureTyped
  <2> QED BY <1>8, <2>1, <2>2, <2>3 DEF RunSend
<1>9. CASE Ensured(a)
  <2> DEFINE op == Op(a, agent[a], pool.attached)
  <2>1. op \in {"thread", "resume", "turn"}
    BY DEF Op
  <2>2. Call(a, op) /\ UNCHANGED <<known, agent, queue, pool, phase, saved, fate, asked>>
    BY <1>9 DEF Ensured, hist
  <2> HIDE DEF op
  <2> QED BY <1>0, <1>1, <2>1, <2>2, CallTyped
<1>10. CASE ThreadStarted(a)
  <2> DEFINE r == [agent[a] EXCEPT !.sid = TRUE, !.life = "alive"]
  <2>0. r \in AgentType
    BY <1>0, <1>4 DEF AgentType
  <2>1. CASE Top(a).kind = "spawn"
    <3>1. /\ agent' = [agent EXCEPT ![a] = r] /\ SpawnEnds(a) /\ pool' = Attach(a) /\ Persist
          /\ UNCHANGED <<known, server, phase, asked>>
      BY <1>10, <2>1 DEF ThreadStarted
    <3> HIDE DEF r
    <3>2. agent' \in [Agents -> AgentType]
      BY <1>2, <2>0, <3>1
    <3>3. saved' \in SavedType
      BY <1>0, <3>1, <3>2, PersistIs
    <3>4. \A b \in Agents \ {a} : queue'[b] = queue[b]
      BY <1>1, <3>1, SpawnEndsIs
    <3> QED BY <1>0, <1>1, <3>1, <3>2, <3>3, <3>4, SpawnEndsIs, AttachIs, DoneTyped
  <2>2. CASE Top(a).kind # "spawn" /\ Refused(a)
    <3>1. /\ agent' = [agent EXCEPT ![a] = r] /\ Finish(a) /\ Become({Top(a).msg}, "refused")
          /\ pool' = Attach(a) /\ Persist /\ UNCHANGED <<known, server, phase, asked>>
      BY <1>10, <2>2 DEF ThreadStarted
    <3> HIDE DEF r
    <3>2. agent' \in [Agents -> AgentType]
      BY <1>2, <2>0, <3>1
    <3>3. saved' \in SavedType
      BY <1>0, <3>1, <3>2, PersistIs
    <3>4. fate' \in FateType
      BY <3>1, BecomeIs DEF Fates
    <3> QED BY <1>0, <3>1, <3>2, <3>3, <3>4, AttachIs, FinishTyped
  <2>3. CASE Top(a).kind # "spawn" /\ ~Refused(a)
    <3> DEFINE s == Saves(known, [agent EXCEPT ![a] = r])
    <3>1. Take(a, r, s) /\ Call(a, "turn") /\ pool' = Attach(a) /\ UNCHANGED <<phase, asked>>
      BY <1>10, <2>3 DEF ThreadStarted
    <3>2. [agent EXCEPT ![a] = r] \in [Agents -> AgentType]
      BY <1>0, <2>0
    <3>3. s \in SavedType
      BY <1>0, <3>2, SavesIs
    <3> HIDE DEF r, s
    <3>4. /\ known' \in SUBSET Agents /\ agent' \in [Agents -> AgentType] /\ queue' = queue
          /\ fate' \in FateType /\ saved' \in SavedType
      BY <1>0, <2>0, <3>1, <3>3, TakeIs
    <3>5. pool' \in PoolType /\ pool'.st = pool.st
      BY <3>1, AttachIs
    <3>6. queue' \in [Agents -> Seq(TaskType)]
      BY <1>0, <3>4
    <3>7. "turn" \in {"thread", "resume", "turn"}
      OBVIOUS
    <3> QED BY <1>1, <3>1, <3>4, <3>5, <3>6, <3>7, CallTyped
  <2> QED BY <2>1, <2>2, <2>3
<1>11. CASE Resumed(a)
  <2>1. Call(a, "turn") /\ pool' = Attach(a) /\ UNCHANGED <<known, agent, queue, phase, saved, fate, asked>>
    BY <1>11 DEF Resumed, hist
  <2>2. pool' \in PoolType /\ pool'.st = pool.st
    BY <2>1, AttachIs
  <2>3. "turn" \in {"thread", "resume", "turn"}
    OBVIOUS
  <2> QED BY <1>0, <1>1, <2>1, <2>2, <2>3, CallTyped
<1>12. CASE TurnAccepted(a)
  <2>1. Finish(a) /\ fate' \in FateType /\ UNCHANGED <<known, pool, phase, asked>>
    BY <1>12, BecomeIs DEF TurnAccepted, Fates
  <2> QED BY <1>0, <1>12, <2>1, TurnAcceptedIs, FinishTyped
<1>13. CASE CallFailed(a)
  <2>1. Finish(a) /\ UNCHANGED <<pool, server, phase, asked>>
    BY <1>13 DEF CallFailed, codex
  <2>2. fate' \in FateType
    BY <1>13, BecomeIs DEF CallFailed, Fates
  <2>3. known' \in SUBSET Agents /\ agent' \in [Agents -> AgentType] /\ saved' \in SavedType
    <3>1. CASE InTurn(a)
      <4> DEFINE r == [agent[a] EXCEPT !.turn = FALSE, !.life = "failed"]
      <4>1. agent' = [agent EXCEPT ![a] = r] /\ known' = known /\ Persist
        BY <1>13, <3>1 DEF CallFailed
      <4>2. r \in AgentType
        BY <1>0, <1>4 DEF AgentType
      <4> HIDE DEF r
      <4>3. agent' \in [Agents -> AgentType]
        BY <1>2, <4>1, <4>2
      <4> QED BY <1>0, <4>1, <4>3, PersistIs
    <3>2. CASE ~InTurn(a) /\ Top(a).kind = "spawn"
      <4>1. Forget(a)
        BY <1>13, <3>2 DEF CallFailed
      <4> QED BY <1>0, <4>1, ForgetIs
    <3>3. CASE ~InTurn(a) /\ Top(a).kind # "spawn"
      BY <1>0, <1>13, <3>3 DEF CallFailed
    <3> QED BY <3>1, <3>2, <3>3
  <2> QED BY <1>0, <2>1, <2>2, <2>3, FinishTyped
<1>14. CASE RunStop(a)
  <2> DEFINE r == [agent[a] EXCEPT !.life = "stopped"]
  <2>1. agent' = [agent EXCEPT ![a] = r] /\ Finish(a) /\ Persist /\ UNCHANGED <<known, pool, server, phase, fate, asked>>
    BY <1>14 DEF RunStop, codex, hist
  <2>2. r \in AgentType
    BY <1>3, <1>4
  <2> HIDE DEF r
  <2>3. agent' \in [Agents -> AgentType]
    BY <1>2, <2>1, <2>2
  <2>4. saved' \in SavedType
    BY <1>0, <2>1, <2>3, PersistIs
  <2> QED BY <1>0, <2>1, <2>3, <2>4, FinishTyped
<1>15. CASE RunRemove(a)
  <2>1. Finish(a) /\ Forget(a) /\ UNCHANGED <<pool, server, phase, fate, asked>>
    BY <1>15 DEF RunRemove, codex, hist
  <2> QED BY <1>0, <2>1, ForgetIs, FinishTyped
<1>16. CASE RunHibernate(a)
  <2> DEFINE r == [agent[a] EXCEPT !.life = "hibernated"]
  <2>1. Finish(a) /\ UNCHANGED <<known, pool, server, phase, fate, asked>>
    BY <1>16 DEF RunHibernate, codex, hist
  <2>2. r \in AgentType
    BY <1>3, <1>4
  <2>3. \/ agent' = [agent EXCEPT ![a] = r] /\ Persist
        \/ UNCHANGED <<agent, saved>>
    BY <1>16 DEF RunHibernate
  <2> HIDE DEF r
  <2>4. agent' \in [Agents -> AgentType]
    BY <1>0, <1>2, <2>2, <2>3
  <2>5. saved' \in SavedType
    BY <1>0, <2>1, <2>3, <2>4, PersistIs
  <2> QED BY <1>0, <2>1, <2>4, <2>5, FinishTyped
<1>17. CASE RunDrain(a)
  BY <1>0, <1>17, FinishTyped DEF RunDrain, codex, hist
<1> QED BY <1>5, <1>6, <1>8, <1>9, <1>10, <1>11, <1>12, <1>13, <1>14, <1>15, <1>16, <1>17 DEF Go

\* What the app-server says changes replies, agents and itself.
LEMMA HeardTyped ==
  ASSUME Typed, agent' \in [Agents -> AgentType], reply' \in [Agents -> {"none", "yes", "no"}],
         \A a \in Agents : pc[a] = "idle" => reply'[a] = "none",
         server' \in ServerType, pool' \in PoolType, Linked(pool', server'),
         \A a \in Agents : "accepted" \in server'.left[a] => "accepted" \in server.left[a] /\ reply'[a] = "none",
         fate' \in FateType, saved' \in SavedType, asked' \in SUBSET Messages,
         known' = known, queue' = queue, pc' = pc,
         phase' \in {"serving", "wait", "wait2", "end", "closed"}
  PROVE  Typed'
<1>1. AnswerDue' /\ HeadAwaits'
  BY DEF Typed, AnswerDue, HeadAwaits, Busy
<1> QED BY <1>1 DEF Typed

LEMMA OnAnswerIs ==
  ASSUME Typed, NEW a \in Agents, OnAnswer(a)
  PROVE  /\ UNCHANGED <<known, agent, queue, pc, pool, phase, saved, fate, asked>>
         /\ "accepted" \in server.left[a] /\ server.st = "up"
         /\ server' \in ServerType /\ server'.st = "up" /\ server'.turn = server.turn
         /\ \A b \in Agents \ {a} : server'.left[b] = server.left[b] /\ reply'[b] = reply[b]
         /\ reply' \in [Agents -> {"none", "yes", "no"}]
         /\ \/ /\ reply'[a] = "yes" /\ server'.left[a] = server.left[a] \ {"accepted"}
               /\ server'.loaded = server.loaded \cup {a}
            \/ /\ reply'[a] = "no" /\ server'.left[a] = {} /\ server'.loaded = server.loaded
               /\ server.left[a] = IF pc[a] = "turn" THEN Says ELSE {"accepted"}
<1>0. server \in ServerType /\ reply \in [Agents -> {"none", "yes", "no"}]
  BY DEF Typed
<1>1. server.st = "up" /\ UNCHANGED <<known, agent, queue, pc, pool, phase, saved, fate, asked>>
  BY DEF OnAnswer, hist
<1>2. CASE /\ "accepted" \in server.left[a] /\ reply' = [reply EXCEPT ![a] = "yes"]
           /\ server' = [Said(a, "accepted") EXCEPT !.loaded = @ \cup {a}]
  <2> DEFINE s == Said(a, "accepted")
  <2>1. /\ s \in ServerType /\ s.st = server.st /\ s.loaded = server.loaded /\ s.turn = server.turn
        /\ s.left = [server.left EXCEPT ![a] = server.left[a] \ {"accepted"}]
    BY SaidIs
  <2>2. server' = [s EXCEPT !.loaded = @ \cup {a}]
    BY <1>2
  <2> HIDE DEF s
  <2>3. /\ server' \in ServerType /\ server'.st = server.st /\ server'.loaded = server.loaded \cup {a}
        /\ server'.turn = server.turn /\ server'.left = s.left
    BY <2>1, <2>2 DEF ServerType
  <2>4. \A b \in Agents : server'.left[b] = IF b = a THEN server.left[a] \ {"accepted"} ELSE server.left[b]
    BY <1>0, <2>1, <2>3 DEF ServerType
  <2> QED BY <1>0, <1>1, <1>2, <2>3, <2>4
<1>3. CASE /\ server.left[a] = IF pc[a] = "turn" THEN Says ELSE {"accepted"}
           /\ reply' = [reply EXCEPT ![a] = "no"] /\ server' = [server EXCEPT !.left[a] = {}]
  BY <1>0, <1>1, <1>3 DEF ServerType, Says
<1> QED BY <1>2, <1>3 DEF OnAnswer

LEMMA OnNotificationIs ==
  ASSUME Typed, NEW a \in Agents, NEW says \in Says, OnNotification(a, says)
  PROVE  /\ UNCHANGED <<known, queue, pc, reply, pool, phase, asked>>
         /\ Quiet /\ server.st = "up" /\ phase # "closed" /\ says \in {"started", "completed"} /\ says \in server.left[a]
         /\ says = "completed" => "started" \notin server.left[a]
         /\ server' \in ServerType /\ server'.st = "up" /\ server'.turn = server.turn
         /\ server'.loaded = server.loaded
         /\ server'.left = [server.left EXCEPT ![a] = server.left[a] \ {says}]
         /\ agent' = [agent EXCEPT ![a] = agent'[a]] /\ agent' \in [Agents -> AgentType]
         /\ agent'[a].sid = agent[a].sid /\ agent'[a].stops = agent[a].stops
         /\ \/ /\ ~(Watched(a) /\ agent[a].sid)
               /\ agent' = agent /\ saved' = saved /\ fate' = fate
            \/ /\ Watched(a) /\ agent[a].sid /\ says = "started"
               /\ agent'[a].turn /\ agent'[a].life = agent[a].life /\ ~agent'[a].logError
               /\ saved' = saved /\ fate' = fate
            \/ /\ Watched(a) /\ agent[a].sid /\ says = "completed"
               /\ ~agent'[a].turn /\ agent'[a].life = agent[a].life /\ ~agent'[a].logError
               /\ saved' = saved
               /\ fate' = [m \in Messages |-> IF m = server.turn[a] THEN "done" ELSE fate[m]]
            \/ /\ Watched(a) /\ agent[a].sid
               /\ ~agent'[a].turn /\ agent'[a].life = "failed" /\ agent'[a].logError
               /\ \A b \in known : saved'[b].life = agent'[b].life
               /\ fate' = fate
         /\ saved' \in SavedType /\ fate' \in FateType
<1> DEFINE m == server.turn[a]
           r == agent[a]
           seen == a \in known /\ r.sid /\ ~r.logError
           s == Said(a, says)
           cut == IF seen /\ says = "started" /\ r.pend /\ ~agent'[a].logError THEN {a} ELSE {}
<1>0. /\ server \in ServerType /\ agent \in [Agents -> AgentType] /\ r \in AgentType
      /\ m \in Messages \cup {0} /\ saved \in SavedType /\ fate \in FateType /\ known \in SUBSET Agents
  BY DEF Typed, ServerType
<1>1. /\ UNCHANGED <<known, queue, pc, reply, pool, phase, asked>>
      /\ Quiet /\ server.st = "up" /\ phase # "closed" /\ says \in {"started", "completed"} /\ says \in server.left[a]
      /\ says = "completed" => "started" \notin server.left[a]
      /\ server' = [s EXCEPT !.cut = @ \cup cut]
  BY DEF OnNotification
<1>2. /\ server' \in ServerType /\ server'.st = "up" /\ server'.turn = server.turn
      /\ server'.loaded = server.loaded
      /\ server'.left = [server.left EXCEPT ![a] = server.left[a] \ {says}]
  <2>1. /\ s \in ServerType /\ s.st = server.st /\ s.loaded = server.loaded /\ s.turn = server.turn
        /\ s.left = [server.left EXCEPT ![a] = server.left[a] \ {says}]
    BY SaidIs
  <2>2. cut \in SUBSET Agents
    OBVIOUS
  <2> HIDE DEF s, cut
  <2>3. /\ server' \in ServerType /\ server'.st = s.st /\ server'.turn = s.turn
        /\ server'.loaded = s.loaded /\ server'.left = s.left
    BY <1>1, <2>1, <2>2 DEF ServerType
  <2> QED BY <1>1, <2>1, <2>3
<1>3. seen <=> Watched(a) /\ agent[a].sid
  BY DEF Watched
<1>4. CASE ~seen /\ UNCHANGED <<agent, saved, fate>>
  BY <1>0, <1>1, <1>2, <1>3, <1>4
<1>5. CASE seen /\ says = "started" /\ agent' = [agent EXCEPT ![a] = Started(r, m)] /\ UNCHANGED <<saved, fate>>
  <2> DEFINE x == Started(r, m)
  <2>1. x \in AgentType /\ x.turn /\ x.life = r.life /\ x.sid = r.sid /\ x.stops = r.stops /\ x.logError = r.logError
    BY <1>0 DEF Started, AgentType
  <2> HIDE DEF x, s
  <2> QED BY <1>0, <1>1, <1>2, <1>3, <1>5, <2>1 DEF x
<1>6. CASE /\ seen /\ says = "completed" /\ agent' = [agent EXCEPT ![a] = Completed(r, m)]
           /\ Become({m}, "done") /\ saved' = saved
  <2> DEFINE x == Completed(r, m)
  <2>1. x \in AgentType /\ ~x.turn /\ x.life = r.life /\ x.sid = r.sid /\ x.stops = r.stops /\ x.logError = r.logError
    BY <1>0 DEF Completed, AgentType
  <2>2. fate' \in FateType
    BY <1>6, BecomeIs DEF Fates
  <2>3. fate' = [k \in Messages |-> IF k = m THEN "done" ELSE fate[k]]
    BY <1>6 DEF Become
  <2>4. agent' = [agent EXCEPT ![a] = x] /\ saved' = saved /\ says = "completed"
    BY <1>6
  <2>5. Watched(a) /\ agent[a].sid /\ ~r.logError
    BY <1>3, <1>6
  <2> HIDE DEF x, s, seen
  <2> QED BY <1>0, <1>1, <1>2, <2>1, <2>2, <2>3, <2>4, <2>5
<1>7. CASE /\ seen /\ agent' = [agent EXCEPT ![a].logError = TRUE, ![a].life = "failed", ![a].turn = FALSE]
           /\ UNCHANGED fate /\ Persist
  <2> DEFINE x == [r EXCEPT !.logError = TRUE, !.life = "failed", !.turn = FALSE]
  <2>1. x \in AgentType /\ ~x.turn /\ x.life = "failed" /\ x.sid = r.sid /\ x.stops = r.stops /\ x.logError
    BY <1>0 DEF AgentType, Lives
  <2>2. agent' = [agent EXCEPT ![a] = x]
    BY <1>0, <1>7
  <2> HIDE DEF x, s
  <2>3. agent' \in [Agents -> AgentType] /\ agent'[a] = x
    BY <1>0, <2>1, <2>2
  <2>4. saved' \in SavedType /\ \A b \in known : saved'[b].life = agent'[b].life
    BY <1>0, <1>1, <1>7, <2>3, PersistIs
  <2> QED BY <1>0, <1>1, <1>2, <1>3, <1>7, <2>1, <2>2, <2>3, <2>4
<1> QED
  <2>1. \/ ~seen /\ UNCHANGED <<agent, saved, fate>>
        \/ /\ seen
           /\ agent' = [agent EXCEPT ![a] = IF says = "started" THEN Started(r, m) ELSE Completed(r, m)]
           /\ Become(IF says = "completed" THEN {m} ELSE {}, "done")
           /\ saved' = saved
        \/ /\ seen /\ agent' = [agent EXCEPT ![a].logError = TRUE, ![a].life = "failed", ![a].turn = FALSE]
           /\ UNCHANGED fate /\ Persist
    BY DEF OnNotification
  <2>2. ASSUME Become({}, "done") PROVE fate' = fate
    BY <1>0, <2>2 DEF Become, FateType
  <2> QED BY <1>1, <1>4, <1>5, <1>6, <1>7, <2>1, <2>2

LEMMA InitializedIs ==
  ASSUME Typed, Initialized
  PROVE  /\ server.st = "init" /\ Quiet /\ phase # "closed"
         /\ server' \in ServerType /\ server'.st = "up" /\ server'.left = server.left
         /\ server'.turn = server.turn
         /\ pool' \in PoolType /\ pool'.st = "up" /\ pool'.attached = {}
         /\ reply' \in [Agents -> {"none", "yes", "no"}]
         /\ \A b \in Agents : reply'[b] = IF pc[b] = "ensure" THEN "yes" ELSE reply[b]
         /\ UNCHANGED <<known, agent, queue, pc, phase, saved, fate, asked>>
<1>1. /\ server.st = "init" /\ Quiet /\ phase # "closed"
      /\ server' = [server EXCEPT !.st = "up"] /\ pool' = [st |-> "up", attached |-> {}]
      /\ Await({"ensure"}, "yes") /\ UNCHANGED <<known, agent, queue, pc, phase, saved, fate, asked>>
  BY DEF Initialized, NewPool, hist
<1>2. /\ server' \in ServerType /\ server'.st = "up" /\ server'.left = server.left
      /\ server'.turn = server.turn
  BY <1>1 DEF Typed, ServerType
<1>3. pool' \in PoolType /\ pool'.st = "up" /\ pool'.attached = {}
  BY <1>1 DEF PoolType
<1> QED BY <1>1, <1>2, <1>3, AwaitIs

LEMMA InitializeFailsIs ==
  ASSUME Typed, InitializeFails
  PROVE  /\ server.st = "init" /\ Quiet /\ phase # "closed"
         /\ server' = NoServer
         /\ pool' \in PoolType /\ pool'.st = "none"
         /\ reply' \in [Agents -> {"none", "yes", "no"}]
         /\ \A b \in Agents : reply'[b] = IF pc[b] = "ensure" THEN "no" ELSE reply[b]
         /\ UNCHANGED <<known, agent, queue, pc, phase, saved, fate, asked>>
<1>1. /\ server.st = "init" /\ Quiet /\ phase # "closed" /\ server' = NoServer
      /\ pool' = [pool EXCEPT !.st = "none"]
      /\ Await({"ensure"}, "no") /\ UNCHANGED <<known, agent, queue, pc, phase, saved, fate, asked>>
  BY DEF InitializeFails, StartFailed, hist
<1>2. pool' \in PoolType /\ pool'.st = "none"
  BY <1>1 DEF Typed, PoolType
<1> QED BY <1>1, <1>2, AwaitIs

\* The app-server is gone, at its exit, by the reaper or with the host.
LEMMA ExitIs ==
  ASSUME Typed, ServerExits \/ IdleReap
  PROVE  /\ Quiet /\ phase # "closed" /\ Over /\ server.st \in {"up", "gone"}
         /\ agent' \in [Agents -> AgentType] /\ \A b \in Agents : agent'[b] = Exited(b, agent[b])
         /\ fate' = Lost(agent') /\ UNCHANGED <<known, queue, pc, phase, asked>>
         /\ saved' \in SavedType /\ \A b \in known : saved'[b].life = agent'[b].life
<1>1. /\ Quiet /\ phase # "closed" /\ Over /\ server.st \in {"up", "gone"}
      /\ agent' = [b \in Agents |-> Exited(b, agent[b])]
      /\ fate' = Lost(agent') /\ UNCHANGED <<known, queue, pc, phase, asked>> /\ Persist
  BY DEF ServerExits, IdleReap
<1>2. \A b \in Agents : Exited(b, agent[b]) \in AgentType
  BY ExitedIs DEF Typed
<1>3. agent' \in [Agents -> AgentType] /\ \A b \in Agents : agent'[b] = Exited(b, agent[b])
  BY <1>1, <1>2
<1>4. known' \in SUBSET Agents
  BY <1>1 DEF Typed
<1> QED BY <1>1, <1>3, <1>4, PersistIs

LEMMA ClosedIs ==
  ASSUME Typed, Closed
  PROVE  /\ Quiet /\ phase' = "closed"
         /\ agent' \in [Agents -> AgentType]
         /\ \A b \in Agents : agent'[b] = IF pool.st = "up" THEN Exited(b, Marks(b)) ELSE Marks(b)
         /\ pool.st = "up" => Over
         /\ pool.st # "up" => UNCHANGED <<reply, pool, server>>
         /\ fate' = Lost(agent') /\ UNCHANGED <<known, queue, pc, asked>>
         /\ saved' \in SavedType /\ \A b \in known : saved'[b].life = agent'[b].life
<1>1. /\ Quiet /\ phase' = "closed"
      /\ agent' = [b \in Agents |-> IF pool.st = "up" THEN Exited(b, Marks(b)) ELSE Marks(b)]
      /\ IF pool.st = "up" THEN Over ELSE UNCHANGED <<reply, codex>>
      /\ fate' = Lost(agent') /\ UNCHANGED <<known, queue, pc, asked>> /\ Persist
  BY DEF Closed
<1>2. \A b \in Agents : Marks(b) \in AgentType /\ Exited(b, Marks(b)) \in AgentType
  BY MarksIs, ExitedIs
<1>3. /\ agent' \in [Agents -> AgentType]
      /\ \A b \in Agents : agent'[b] = IF pool.st = "up" THEN Exited(b, Marks(b)) ELSE Marks(b)
  BY <1>1, <1>2
<1>4. known' \in SUBSET Agents
  BY <1>1 DEF Typed
<1> QED BY <1>1, <1>3, <1>4, PersistIs DEF codex

LEMMA DrainCutsIs ==
  ASSUME Typed, DrainCuts
  PROVE  /\ phase = "wait" /\ phase' = "wait2" /\ Quiet
         /\ agent' \in [Agents -> AgentType]
         /\ \A b \in Agents : /\ agent'[b].life = agent[b].life /\ agent'[b].sid = agent[b].sid
                              /\ agent'[b].turn = agent[b].turn /\ agent'[b].stops = agent[b].stops
                              /\ agent'[b].logError = agent[b].logError
         /\ server' \in ServerType /\ server'.st = server.st /\ server'.loaded = server.loaded
         /\ server'.left = server.left /\ server'.turn = server.turn
         /\ asked' \in SUBSET Messages
         /\ UNCHANGED <<known, queue, pc, reply, pool, saved, fate>>
<1> DEFINE x(b) == [Marked(b) EXCEPT !.cut = TRUE]
<1>1. /\ phase = "wait" /\ phase' = "wait2" /\ Quiet
      /\ agent' = [b \in Agents |-> IF b \in TurnInFlight THEN x(b) ELSE agent[b]]
      /\ server' = Interrupted(TurnInFlight, [b \in TurnInFlight |-> agent[b].tid])
      /\ Ask(TurnInFlight)
      /\ UNCHANGED <<known, queue, pc, reply, pool, saved, fate>>
  BY DEF DrainCuts
<1>2. ASSUME NEW b \in Agents
      PROVE  /\ x(b) \in AgentType /\ x(b).life = agent[b].life /\ x(b).sid = agent[b].sid
             /\ x(b).turn = agent[b].turn /\ x(b).stops = agent[b].stops
             /\ x(b).logError = agent[b].logError
  <2>1. agent[b] \in AgentType
    BY DEF Typed
  <2>2. PICK p \in BOOLEAN : Marked(b) = [agent[b] EXCEPT !.pend = p]
    BY MarkedIs
  <2>3. x(b) = [agent[b] EXCEPT !.pend = p, !.cut = TRUE]
    BY <2>1, <2>2 DEF AgentType
  <2> HIDE DEF x
  <2> QED BY <2>1, <2>3 DEF AgentType
<1> HIDE DEF x
<1>3. \A b \in Agents : agent'[b] = x(b) \/ agent'[b] = agent[b]
  BY <1>1
<1>4. \A b \in Agents : agent[b] \in AgentType
  BY DEF Typed
<1>5. agent' \in [Agents -> AgentType]
  BY <1>1, <1>2, <1>4
<1>6. \A b \in Agents : /\ agent'[b].life = agent[b].life /\ agent'[b].sid = agent[b].sid
                        /\ agent'[b].turn = agent[b].turn /\ agent'[b].stops = agent[b].stops
                        /\ agent'[b].logError = agent[b].logError
  BY <1>2, <1>3
<1>7. TurnInFlight \in SUBSET Agents
  BY DEF TurnInFlight, Typed
<1>8. asked' \in SUBSET Messages
  BY <1>1, AskIs
<1> QED BY <1>1, <1>5, <1>6, <1>7, <1>8, InterruptedIs

LEMMA DrainEndsIs ==
  ASSUME Typed, DrainEnds
  PROVE  /\ phase' = "end" /\ phase \in {"wait", "wait2"}
         /\ queue' \in [Agents -> Seq(TaskType)]
         /\ \A b \in Agents : queue'[b] = queue[b] \/ queue'[b] = Append(queue[b], Simple("drain"))
         /\ \A b \in Agents : Busy(b) => Busy(b)'
         /\ UNCHANGED <<known, agent, pc, reply, pool, server, saved, fate, asked>>
<1> DEFINE t == Simple("drain")
           q(b) == Append(queue[b], t)
<1>1. /\ phase' = "end" /\ phase \in {"wait", "wait2"}
      /\ queue' = [b \in Agents |-> IF b \in known THEN q(b) ELSE queue[b]]
      /\ UNCHANGED <<known, agent, pc, reply, pool, server, saved, fate, asked>>
  BY DEF DrainEnds, codex, hist
<1>2. ASSUME NEW b \in Agents PROVE q(b) \in Seq(TaskType) /\ q(b) # <<>>
  <2>1. t \in TaskType /\ queue[b] \in Seq(TaskType)
    BY SimpleIs DEF Kinds, Typed
  <2> HIDE DEF TaskType, t
  <2> QED BY <2>1
<1>3. \A b \in Agents : queue'[b] = q(b) \/ queue'[b] = queue[b]
  BY <1>1
<1>4. \A b \in Agents : queue[b] \in Seq(TaskType)
  BY DEF Typed
<1> HIDE DEF q
<1>5. queue' \in [Agents -> Seq(TaskType)]
  BY <1>1, <1>2, <1>4
<1>6. \A b \in Agents : Busy(b) => Busy(b)'
  BY <1>2, <1>3 DEF Busy
<1> QED BY <1>1, <1>3, <1>5, <1>6 DEF q

LEMMA HostRestartsIs ==
  ASSUME Typed, HostRestarts
  PROVE  /\ known' = {b \in Agents : saved[b].life # "unborn"}
         /\ agent' \in [Agents -> AgentType]
         /\ \A b \in Agents \ known' : agent'[b] = agent[b]
         /\ \A b \in known' : /\ ~agent'[b].turn /\ ~agent'[b].logError /\ agent'[b].stops = 0
                              /\ agent'[b].life = IF saved[b].life \in {"alive", "starting"} THEN "stopped" ELSE saved[b].life
         /\ \A b \in Agents : queue'[b] = <<>> /\ pc'[b] = "idle" /\ reply'[b] = "none"
         /\ queue' \in [Agents -> Seq(TaskType)] /\ pc' \in [Agents -> Stages]
         /\ reply' \in [Agents -> {"none", "yes", "no"}]
         /\ pool' \in PoolType /\ pool'.st = "none" /\ server' = NoServer
         /\ phase' = "serving" /\ asked' = asked
         /\ fate' = [m \in Messages |-> IF fate[m] \in {"queued", "overtaken", "taken"} THEN "refused" ELSE Lost(agent')[m]]
         /\ fate' \in FateType
         /\ saved' \in SavedType /\ \A b \in known' : saved'[b].life = agent'[b].life
<1> DEFINE life(b) == IF saved[b].life \in {"alive", "starting"} THEN "stopped" ELSE saved[b].life
           x(b) == [Fresh EXCEPT !.life = life(b), !.sid = saved[b].sid]
<1>1. /\ known' = {b \in Agents : saved[b].life # "unborn"}
      /\ agent' = [b \in Agents |-> IF b \in known' THEN x(b) ELSE agent[b]]
      /\ queue' = [b \in Agents |-> <<>>] /\ pc' = [b \in Agents |-> "idle"]
      /\ reply' = [b \in Agents |-> "none"] /\ pool' = [st |-> "none", attached |-> {}]
      /\ server' = NoServer /\ phase' = "serving" /\ asked' = asked
      /\ fate' = [m \in Messages |-> IF fate[m] \in {"queued", "overtaken", "taken"} THEN "refused" ELSE Lost(agent')[m]]
      /\ Persist
  BY DEF HostRestarts
<1>2. ASSUME NEW b \in Agents
      PROVE  /\ x(b) \in AgentType /\ ~x(b).turn /\ ~x(b).logError /\ x(b).stops = 0 /\ x(b).life = life(b)
  <2>1. saved[b].life \in Lives /\ saved[b].sid \in BOOLEAN
    BY DEF Typed, SavedType
  <2>2. life(b) \in Lives
    BY <2>1 DEF Lives
  <2> HIDE DEF life
  <2> QED BY <2>1, <2>2, FreshIs DEF AgentType
<1>3. \A b \in Agents : agent[b] \in AgentType
  BY DEF Typed
<1> HIDE DEF x
<1>4. /\ agent' \in [Agents -> AgentType] /\ \A b \in Agents \ known' : agent'[b] = agent[b]
      /\ \A b \in known' : agent'[b] = x(b)
  BY <1>1, <1>2, <1>3
<1>5. saved' \in SavedType /\ \A b \in known' : saved'[b].life = agent'[b].life
  BY <1>1, <1>4, PersistIs
<1>6. fate' \in FateType
  <2>1. Lost(agent') \in FateType /\ "refused" \in Fates
    BY LostIs DEF Fates
  <2> DEFINE l == Lost(agent')
  <2>2. l \in FateType /\ fate' = [m \in Messages |-> IF fate[m] \in {"queued", "overtaken", "taken"} THEN "refused" ELSE l[m]]
    BY <1>1, <2>1
  <2> HIDE DEF l
  <2> QED BY <2>1, <2>2 DEF FateType
<1>7. <<>> \in Seq(TaskType) /\ "idle" \in Stages
  BY DEF Stages
<1>8. pool' \in PoolType /\ pool'.st = "none"
  BY <1>1 DEF PoolType
<1>9. /\ \A b \in Agents : queue'[b] = <<>> /\ pc'[b] = "idle" /\ reply'[b] = "none"
      /\ queue' \in [Agents -> Seq(TaskType)] /\ pc' \in [Agents -> Stages]
      /\ reply' \in [Agents -> {"none", "yes", "no"}]
  BY <1>1, <1>7
<1> QED BY <1>1, <1>2, <1>4, <1>5, <1>6, <1>8, <1>9

LEMMA CrashIs ==
  ASSUME Typed, Crash
  PROVE  /\ server.st = "up" /\ phase # "closed"
         /\ server' \in ServerType /\ server'.st = "gone" /\ server'.turn = server.turn
         /\ \A b \in Agents : server'.left[b] = {}
         /\ UNCHANGED <<known, agent, queue, pc, reply, pool, phase, saved, fate, asked>>
<1>1. /\ server.st = "up" /\ phase # "closed"
      /\ server' = [server EXCEPT !.st = "gone", !.left = [b \in Agents |-> {}], !.cut = {}]
      /\ UNCHANGED <<known, agent, queue, pc, reply, pool, phase, saved, fate, asked>>
  BY DEF Crash, host, hist
<1> QED BY <1>1 DEF Typed, ServerType

LEMMA TypedStep ==
  ASSUME Typed, [Next]_vars
  PROVE  Typed'
<1>0. /\ pool \in PoolType /\ server \in ServerType /\ Linked(pool, server)
      /\ agent \in [Agents -> AgentType] /\ reply \in [Agents -> {"none", "yes", "no"}]
      /\ \A a \in Agents : pc[a] = "idle" => reply[a] = "none"
      /\ fate \in FateType /\ saved \in SavedType /\ asked \in SUBSET Messages
      /\ phase \in {"serving", "wait", "wait2", "end", "closed"}
      /\ \A a \in Agents : "accepted" \in server.left[a] => pc[a] # "idle" /\ reply[a] = "none"
  BY DEF Typed, AnswerDue
<1>1. ASSUME NEW a \in Agents, Requests(a) \/ Go(a) PROVE Typed'
  BY <1>1, RequestsTyped, GoTyped
<1>2. ASSUME NEW a \in Agents, OnAnswer(a) PROVE Typed'
  <2>1. \A b \in Agents : pc[b] = "idle" => reply'[b] = "none"
    BY <1>0, <1>2, OnAnswerIs
  <2>2. \A b \in Agents : "accepted" \in server'.left[b] => "accepted" \in server.left[b] /\ reply'[b] = "none"
    BY <1>0, <1>2, OnAnswerIs
  <2>3. Linked(pool', server')
    BY <1>0, <1>2, OnAnswerIs DEF Linked
  <2> QED BY <1>0, <1>2, <2>1, <2>2, <2>3, OnAnswerIs, HeardTyped
<1>3. ASSUME NEW a \in Agents, NEW says \in Says, OnNotification(a, says) PROVE Typed'
  <2>1. \A b \in Agents : "accepted" \in server'.left[b] => "accepted" \in server.left[b] /\ reply'[b] = "none"
    <3>1. server'.left = [server.left EXCEPT ![a] = server.left[a] \ {says}] /\ reply' = reply
      BY <1>3, OnNotificationIs
    <3>2. server.left \in [Agents -> SUBSET Says]
      BY <1>0 DEF ServerType
    <3> QED BY <1>0, <3>1, <3>2
  <2>2. Linked(pool', server')
    BY <1>0, <1>3, OnNotificationIs DEF Linked
  <2> QED BY <1>0, <1>3, <2>1, <2>2, OnNotificationIs, HeardTyped
<1>4. CASE Initialized
  <2>1. \A b \in Agents : "accepted" \in server'.left[b] => "accepted" \in server.left[b] /\ reply'[b] = "none"
    BY <1>0, <1>4, InitializedIs DEF Typed, AnswerDue
  <2>2. Linked(pool', server')
    BY <1>4, InitializedIs DEF Linked
  <2> QED BY <1>0, <1>4, <2>1, <2>2, InitializedIs, HeardTyped
<1>5. CASE InitializeFails
  <2>1. Linked(pool', server')
    BY <1>5, InitializeFailsIs, NoServerIs DEF Linked
  <2> QED BY <1>0, <1>5, <2>1, InitializeFailsIs, NoServerIs, HeardTyped
<1>6. CASE ServerExits \/ IdleReap
  <2>1. Over
    BY <1>6, ExitIs
  <2> QED BY <1>0, <1>6, <2>1, ExitIs, OverIs, NoServerIs, LostIs, HeardTyped
<1>7. CASE Drain
  BY <1>7 DEF Drain, host, codex, hist, Typed, AnswerDue, HeadAwaits, Busy
<1>8. CASE DrainCuts
  <2>1. Linked(pool', server')
    BY <1>0, <1>8, DrainCutsIs DEF Linked
  <2> QED BY <1>0, <1>8, <2>1, DrainCutsIs, HeardTyped
<1>9. CASE DrainEnds
  BY <1>9, DrainEndsIs DEF Typed, AnswerDue, HeadAwaits
<1>10. CASE Closed
  <2>1. CASE pool.st = "up"
    <3>1. Over
      BY <1>10, <2>1, ClosedIs
    <3> QED BY <1>0, <1>10, <3>1, ClosedIs, OverIs, NoServerIs, LostIs, HeardTyped
  <2>2. CASE pool.st # "up"
    BY <1>0, <1>10, <2>2, ClosedIs, LostIs, HeardTyped
  <2> QED BY <2>1, <2>2
<1>11. CASE HostRestarts
  <2>1. Linked(pool', server')
    BY <1>11, HostRestartsIs, NoServerIs DEF Linked
  <2>2. AnswerDue' /\ HeadAwaits'
    BY <1>11, HostRestartsIs, NoServerIs DEF AnswerDue, HeadAwaits
  <2>3. known' \in SUBSET Agents /\ \A b \in Agents : pc'[b] = "idle" => reply'[b] = "none"
    BY <1>11, HostRestartsIs
  <2> QED BY <1>0, <1>11, <2>1, <2>2, <2>3, HostRestartsIs, NoServerIs DEF Typed
<1>12. CASE Crash
  <2>1. Linked(pool', server')
    BY <1>0, <1>12, CrashIs DEF Linked
  <2> QED BY <1>0, <1>12, <2>1, CrashIs, HeardTyped
<1>13. CASE UNCHANGED vars
  BY <1>13 DEF vars, host, codex, hist, Typed, AnswerDue, HeadAwaits, Busy
<1> QED BY <1>1, <1>2, <1>3, <1>4, <1>5, <1>6, <1>7, <1>8, <1>9, <1>10, <1>11, <1>12, <1>13 DEF Next, Events, Closes

LEMMA TypedInit == Init => Typed
<1> SUFFICES ASSUME Init PROVE Typed
  OBVIOUS
<1>1. [Fresh EXCEPT !.life = "unborn"] \in AgentType
  BY FreshIs DEF AgentType, Lives
<1>2. agent \in [Agents -> AgentType]
  BY <1>1 DEF Init
<1>3. \A a \in Agents : queue[a] = <<>> /\ pc[a] = "idle" /\ reply[a] = "none"
  BY DEF Init
<1>4. server = NoServer /\ pool = [st |-> "none", attached |-> {}]
  BY DEF Init
<1>5. Linked(pool, server) /\ server \in ServerType /\ pool \in PoolType
  BY <1>4, NoServerIs DEF Linked, PoolType
<1>6. AnswerDue /\ HeadAwaits
  BY <1>3, <1>4, NoServerIs DEF AnswerDue, HeadAwaits
<1>7. <<>> \in Seq(TaskType)
  OBVIOUS
<1>8. saved \in SavedType
  BY DEF Init, SavedType, Lives
<1>9. fate \in FateType
  BY DEF Init, FateType, Fates
<1> QED BY <1>2, <1>5, <1>6, <1>7, <1>8, <1>9 DEF Init, Typed, Stages

LEMMA TypedAlways == Spec => []Typed
BY TypedInit, TypedStep, PTL DEF Spec

\* The state is well typed; the host and the app-server agree on whether the
\* one serves the other, and an answer that was read belongs to an await.
THEOREM TypeCorrect == Spec => []TypeOK
<1>1. Typed => TypeOK
  BY DEF Typed, TypeOK, AgentType, TaskType, PoolType, ServerType, SavedType, FateType, Linked
<1> QED BY <1>1, TypedAlways, PTL

-----------------------------------------------------------------------------
(***************************************************************************)
(* The inductive invariant.                                                *)
(***************************************************************************)
Places(b) == 1..Len(queue[b])
Msg(b, i) == queue[b][i].msg
Given(b) == server.turn[b] # 0 /\ fate[server.turn[b]] = "given"

\* What a task carries, and at which await a task of its kind may stand: a
\* spawn is the first task of its agent, and only a send to an agent that has
\* a thread resumes it or starts a turn.
TasksRight(b) ==
  /\ \A i \in Places(b) :
       /\ queue[b][i].kind = "send" => Msg(b, i) # 0
       /\ queue[b][i].kind \notin {"send", "spawn"} => Msg(b, i) = 0
       /\ queue[b][i].kind = "spawn" => i = 1 /\ ~agent[b].turn /\ server.turn[b] = 0
  /\ pc[b] # "idle" => Top(b).kind \in {"spawn", "send"}
  /\ pc[b] \in {"resume", "turn"} => Top(b).kind = "send" /\ agent[b].sid
  /\ pc[b] = "thread" => ~agent[b].sid
  /\ pc[b] # "idle" /\ Top(b).kind = "spawn" => ~agent[b].sid
  /\ ~agent[b].sid => ~agent[b].turn /\ server.turn[b] = 0
  /\ agent[b].life = "unborn" =>
       b \notin known /\ ~Busy(b) /\ server.left[b] = {} /\ server.turn[b] = 0

\* A queued message was sent, is queued once and is not yet the app-server's,
\* unless the turn is being started; a stop that overtook it shows.
MessagesRight(b) ==
  /\ \A i \in Places(b) : Msg(b, i) # 0 =>
       /\ fate[Msg(b, i)] # "new"
       /\ queue[b][i].stops <= agent[b].stops
       /\ fate[Msg(b, i)] = "overtaken" => queue[b][i].stops < agent[b].stops
       /\ \A j \in Places(b) : Msg(b, j) = Msg(b, i) => i = j
       /\ Msg(b, i) = server.turn[b] => i = 1 /\ pc[b] = "turn"
  /\ server.turn[b] # 0 => fate[server.turn[b]] # "new"
  /\ InTurn(b) => fate[Top(b).msg] \in {"taken", "done"}
  /\ InTurn(b) /\ pc[b] # "turn" => fate[Top(b).msg] = "taken"

\* What the app-server may still say, and to whom an answer belongs.
ServerRight(b) ==
  /\ server.st # "up" => server.left[b] = {}
  /\ server.st \in {"none", "init"} => server.turn[b] = 0
  /\ "started" \in server.left[b] => Runs(b)
  /\ Runs(b) => server.turn[b] # 0
  /\ pc[b] \in {"thread", "resume"} => ~Runs(b)
  /\ reply[b] = "no" => server.left[b] = {}
  /\ reply[b] = "none" /\ pc[b] = "ensure" => server.st = "init"
  /\ reply[b] = "none" /\ pc[b] \in {"thread", "resume", "turn"} => server.st \in {"up", "gone"}
  /\ reply[b] = "yes" => server.st \in {"up", "gone"}
  /\ pc[b] = "turn" /\ (reply[b] = "yes" \/ (reply[b] = "none" /\ server.st = "up")) =>
       server.turn[b] = Top(b).msg
  /\ server.st = "up" /\ b \in pool.attached => b \in server.loaded
  /\ server.st = "up" /\ pc[b] \in {"thread", "resume"} /\ reply[b] = "yes" => b \in server.loaded

\* Who works, as the app-server has it and as the host does.
WorkRight(b) ==
  /\ Watched(b) /\ Runs(b) =>
       /\ agent[b].turn
       /\ pc[b] \notin {"ensure", "thread", "resume"}
       /\ pc[b] = "turn" => fate[server.turn[b]] = "taken"
       /\ pc[b] = "idle" => Given(b)
  /\ InTurn(b) /\ reply[b] # "no" /\ fate[Top(b).msg] = "taken" /\ b \in known /\ phase # "closed" =>
       agent[b].turn \/ (agent[b].logError /\ agent[b].life \in {"failed", "stopped"})
  /\ b \in known /\ Given(b) =>
       agent[b].turn \/ (agent[b].logError /\ agent[b].life \in {"failed", "stopped"})
  /\ b \in known /\ Given(b) => saved[b].life \notin {"unborn", "hibernated"}
  /\ Watched(b) /\ agent[b].turn /\ phase # "closed" =>
       \/ InTurn(b) /\ fate[Top(b).msg] = "taken"
       \/ Runs(b)
       \/ server.st = "gone" /\ Given(b)
  /\ b \in known /\ agent[b].turn => agent[b].life \in {"alive", "failed", "stopped"}
  /\ b \in known /\ InTurn(b) /\ Given(b) => agent[b].logError
  /\ Watched(b) /\ InTurn(b) /\ pc[b] = "turn" /\ reply[b] # "no" /\ server.st = "up" =>
       (fate[Top(b).msg] = "taken" => Runs(b))

Right(b) == TasksRight(b) /\ MessagesRight(b) /\ ServerRight(b) /\ WorkRight(b)

\* No message is two agents'.
Own(b) == {Msg(b, i) : i \in Places(b)} \cup {server.turn[b]}
Apart == \A b, c \in Agents : b # c => Own(b) \cap Own(c) \subseteq {0}

ClosedDown == phase = "closed" => server.st \in {"none", "init"}

IInv == (\A b \in Agents : Right(b)) /\ Apart /\ ClosedDown /\ AnsweredNotDropped

-----------------------------------------------------------------------------
(***************************************************************************)
(* A step of one agent leaves the others as they are.                      *)
(***************************************************************************)
Same(b) ==
  /\ agent'[b] = agent[b] /\ queue'[b] = queue[b] /\ pc'[b] = pc[b] /\ reply'[b] = reply[b]
  /\ server'.left[b] = server.left[b] /\ server'.turn[b] = server.turn[b]
  /\ b \in known' <=> b \in known
  /\ b \in pool'.attached => b \in pool.attached
  /\ server.st = "up" /\ b \in server.loaded => b \in server'.loaded
  /\ b \in known => saved'[b].life \in {saved[b].life, agent[b].life}

World ==
  /\ server'.st = server.st \/ (server.st = "none" /\ server'.st = "init")
  /\ phase' = "closed" <=> phase = "closed"

LEMMA SameRight ==
  ASSUME Typed, NEW b \in Agents, Right(b), Same(b), World,
         \A m \in Own(b) \ {0} : fate'[m] = fate[m]
  PROVE  Right(b)'
<1>0. /\ InTurn(b)' = InTurn(b) /\ Runs(b)' = Runs(b) /\ Watched(b)' = Watched(b)
      /\ Busy(b)' = Busy(b) /\ Top(b)' = Top(b) /\ Places(b)' = Places(b)
      /\ \A i \in Places(b) : Msg(b, i)' = Msg(b, i)
  BY DEF Same, InTurn, Runs, Watched, Busy, Top, Places, Msg
<1>1. TasksRight(b)'
  BY <1>0 DEF Right, TasksRight, Same
<1>2. \A i \in Places(b) : Msg(b, i) # 0 => fate'[Msg(b, i)] = fate[Msg(b, i)]
  BY DEF Own
<1>3. server.turn[b] # 0 => fate'[server.turn[b]] = fate[server.turn[b]]
  BY DEF Own
<1>4. InTurn(b) => Top(b).msg # 0 /\ fate'[Top(b).msg] = fate[Top(b).msg]
  <2> SUFFICES ASSUME InTurn(b) PROVE Top(b).msg # 0 /\ fate'[Top(b).msg] = fate[Top(b).msg]
    OBVIOUS
  <2>1. Busy(b)
    BY DEF InTurn, Typed, HeadAwaits
  <2>2. 1 \in Places(b)
    BY <2>1, TopIs DEF Places
  <2>3. Top(b).kind = "send"
    BY DEF Right, TasksRight, InTurn
  <2> QED BY <1>2, <2>2, <2>3 DEF Right, TasksRight, Top, Msg
<1>5. MessagesRight(b)'
  BY <1>0, <1>2, <1>3, <1>4 DEF Right, MessagesRight, Same
<1>6. ServerRight(b)'
  BY <1>0 DEF Right, ServerRight, Same, World
<1>7. Given(b)' = Given(b)
  BY <1>3 DEF Given, Same
<1>8. WorkRight(b)'
  <2>1. b \in known' /\ Given(b)' => saved'[b].life \notin {"unborn", "hibernated"}
    BY <1>7 DEF Right, WorkRight, Same
  <2>2. server'.turn[b] # 0 => fate'[server'.turn[b]] = fate[server.turn[b]]
    BY <1>3 DEF Same
  <2>3. Runs(b) => server.turn[b] # 0
    BY DEF Right, ServerRight
  <2>4. server.st = "gone" <=> server'.st = "gone"
    BY DEF World
  <2> QED BY <1>0, <1>4, <1>7, <2>1, <2>2, <2>3, <2>4 DEF Right, WorkRight, Same, World
<1> QED BY <1>1, <1>5, <1>6, <1>8 DEF Right

LEMMA LocalStep ==
  ASSUME Typed, IInv, NEW a \in Agents, World,
         \A b \in Agents \ {a} : Same(b),
         \A m \in Messages : fate'[m] = fate[m] \/ m \in Own(a) \/ fate[m] = "new",
         \A m \in Own(a)' : m = 0 \/ m \in Own(a) \/ (m \in Messages /\ fate[m] = "new"),
         Right(a)',
         \A m \in Messages : fate[m] = "dropped" \/ fate'[m] # "dropped"
  PROVE  IInv'
<1>0. ASSUME NEW b \in Agents PROVE Own(b) \subseteq Messages \cup {0}
  <2>1. server.turn[b] \in Messages \cup {0}
    BY DEF Typed, ServerType
  <2>2. ASSUME NEW i \in Places(b) PROVE Msg(b, i) \in Messages \cup {0}
    <3>1. queue[b] \in Seq(TaskType)
      BY DEF Typed
    <3>2. queue[b][i] \in TaskType
      <4> HIDE DEF TaskType
      <4> QED BY <3>1 DEF Places
    <3> QED BY <3>2 DEF TaskType, Msg
  <2> QED BY <2>1, <2>2 DEF Own
<1>1. ASSUME NEW b \in Agents, NEW m \in Own(b), m # 0 PROVE m \in Messages /\ fate[m] # "new"
  <2>1. m \in Messages
    BY <1>0, <1>1
  <2> QED BY <1>1, <2>1 DEF Own, IInv, Right, MessagesRight
<1>2. ASSUME NEW b \in Agents \ {a} PROVE Right(b)' /\ Own(b)' = Own(b)
  <2>1. \A m \in Own(b) \ {0} : fate'[m] = fate[m]
    <3> SUFFICES ASSUME NEW m \in Own(b) \ {0} PROVE fate'[m] = fate[m]
      OBVIOUS
    <3>1. m \in Messages /\ fate[m] # "new" /\ m # 0
      BY <1>1, <1>2
    <3>2. m \notin Own(a)
      BY <1>2, <3>1 DEF IInv, Apart
    <3> QED BY <3>1, <3>2
  <2>2. Right(b) /\ Same(b)
    BY <1>2 DEF IInv
  <2>3. Right(b)'
    BY <1>2, <2>1, <2>2, SameRight
  <2>4. Own(b)' = Own(b)
    BY <1>2 DEF Same, Own, Msg, Places
  <2> QED BY <2>3, <2>4
<1>3. \A b \in Agents : Right(b)'
  BY <1>2
<1>4. Apart'
  <2>1. ASSUME NEW b \in Agents \ {a} PROVE Own(a)' \cap Own(b)' \subseteq {0}
    <3> SUFFICES ASSUME NEW m \in Own(a)', m \in Own(b)', m # 0 PROVE FALSE
      OBVIOUS
    <3>1. m \in Own(b) /\ fate[m] # "new"
      BY <1>1, <1>2
    <3>2. m \in Own(a)
      BY <3>1
    <3> QED BY <2>1, <3>1, <3>2 DEF IInv, Apart
  <2>2. ASSUME NEW b \in Agents \ {a}, NEW c \in Agents \ {a}, b # c PROVE Own(b)' \cap Own(c)' \subseteq {0}
    BY <1>2, <2>2 DEF IInv, Apart
  <2>3. ASSUME NEW b \in Agents, NEW c \in Agents, b # c PROVE Own(b)' \cap Own(c)' \subseteq {0}
    <3>1. CASE b = a
      BY <2>1, <2>3, <3>1
    <3>2. CASE c = a
      BY <2>1, <2>3, <3>2
    <3>3. CASE b # a /\ c # a
      BY <2>2, <2>3, <3>3
    <3> QED BY <3>1, <3>2, <3>3
  <2> QED BY <2>3 DEF Apart
<1>5. ClosedDown'
  BY DEF IInv, ClosedDown, World
<1>6. AnsweredNotDropped'
  BY DEF IInv, AnsweredNotDropped
<1> QED BY <1>3, <1>4, <1>5, <1>6 DEF IInv

-----------------------------------------------------------------------------
(***************************************************************************)
(* Requests.                                                               *)
(***************************************************************************)
LEMMA AppendIs ==
  ASSUME NEW q \in Seq(TaskType), NEW t \in TaskType, NEW p, p = Append(q, t)
  PROVE  /\ Len(p) = Len(q) + 1 /\ Len(q) \in Nat /\ p[Len(q) + 1] = t /\ p # <<>>
         /\ \A i \in 1..Len(q) : p[i] = q[i]
         /\ q # <<>> => p[1] = q[1]
<1> HIDE DEF TaskType
<1> QED OBVIOUS

\* The message at the head of a queue, once its turn is being started, is one.
LEMMA HeadIs ==
  ASSUME Typed, NEW a \in Agents, Right(a), InTurn(a)
  PROVE  /\ Busy(a) /\ 1 \in Places(a) /\ Top(a).kind = "send"
         /\ Top(a).msg \in Messages /\ Msg(a, 1) = Top(a).msg
<1>1. Busy(a)
  BY DEF InTurn, Typed, HeadAwaits
<1>2. 1 \in Places(a) /\ Top(a) \in TaskType
  BY <1>1, TopIs DEF Places
<1>3. Top(a).kind = "send"
  BY DEF Right, TasksRight, InTurn
<1> QED BY <1>1, <1>2, <1>3 DEF Right, TasksRight, Top, Msg, TaskType

\* A task queued at the end.
LEMMA LongerIs ==
  ASSUME Typed, NEW a \in Agents, NEW t \in TaskType, queue'[a] = Append(queue[a], t)
  PROVE  /\ \A i \in Places(a) : i \in Places(a)' /\ queue'[a][i] = queue[a][i]
         /\ \A i \in Places(a)' : i \in Places(a) \/ (i = Len(queue[a]) + 1 /\ queue'[a][i] = t)
         /\ Len(queue[a]) + 1 \in Places(a)' /\ queue'[a][Len(queue[a]) + 1] = t /\ Len(queue[a]) \in Nat
         /\ Busy(a) => Busy(a)' /\ Top(a)' = Top(a)
<1> DEFINE p == queue'[a]
           q == queue[a]
<1>0. q \in Seq(TaskType) /\ p = Append(q, t)
  BY DEF Typed
<1> HIDE DEF p, q, TaskType
<1>1. /\ Len(p) = Len(q) + 1 /\ Len(q) \in Nat /\ p[Len(q) + 1] = t /\ p # <<>>
      /\ \A i \in 1..Len(q) : p[i] = q[i]
      /\ q # <<>> => p[1] = q[1]
  BY <1>0, AppendIs
<1>2. \A i \in 1..Len(p) : i \in 1..Len(q) \/ i = Len(q) + 1
  BY <1>1
<1>3. \A i \in 1..Len(q) : i \in 1..Len(p)
  BY <1>1
<1>4. Len(q) + 1 \in 1..Len(p)
  BY <1>1
<1> QED BY <1>1, <1>2, <1>3, <1>4 DEF p, q, Places, Busy, Top

\* A stop, an interrupt, a removal, a hibernation: a task without a message
\* is queued, and what a stop overtakes is marked.
Part(a) ==
  /\ agent'[a].life = agent[a].life /\ agent'[a].sid = agent[a].sid /\ agent'[a].turn = agent[a].turn
  /\ agent'[a].logError = agent[a].logError
  /\ \/ agent'[a].stops = agent[a].stops /\ fate' = fate
     \/ /\ agent'[a].stops = agent[a].stops + 1
        /\ fate' = [m \in Messages |-> IF m \in Overtaken(a) THEN "overtaken" ELSE fate[m]]
  /\ \/ queue'[a] = queue[a]
     \/ /\ a \in known
        /\ \E t \in TaskType : t.kind \notin {"spawn", "send"} /\ t.msg = 0 /\ queue'[a] = Append(queue[a], t)
  /\ server'.st = server.st /\ server'.left = server.left
  /\ server'.turn = server.turn /\ server'.loaded = server.loaded
  /\ UNCHANGED <<known, pc, reply, pool, saved>>
  /\ phase' = "closed" <=> phase = "closed"

Plain(a) ==
  /\ Part(a) /\ phase' = phase
  /\ \A b \in Agents \ {a} : agent'[b] = agent[b] /\ queue'[b] = queue[b]

LEMMA PartRight ==
  ASSUME Typed, NEW a \in Agents, Right(a), Part(a)
  PROVE  /\ Right(a)' /\ \A m \in Own(a)' : m = 0 \/ m \in Own(a)
<1>0. /\ queue[a] \in Seq(TaskType) /\ agent[a] \in AgentType /\ fate \in FateType
      /\ server.turn[a] \in Messages \cup {0}
  BY DEF Typed, ServerType
<1>1. Right(a) /\ (InTurn(a) => Top(a).msg \in Messages)
  BY HeadIs
<1>2. /\ \A i \in Places(a) : i \in Places(a)' /\ queue'[a][i] = queue[a][i]
      /\ \A i \in Places(a)' : i \in Places(a) \/ (queue'[a][i].kind \notin {"spawn", "send"} /\ queue'[a][i].msg = 0)
      /\ Busy(a) => Busy(a)' /\ Top(a)' = Top(a)
  <2>1. CASE queue'[a] = queue[a]
    BY <2>1 DEF Places, Busy, Top
  <2>2. CASE \E t \in TaskType : t.kind \notin {"spawn", "send"} /\ t.msg = 0 /\ queue'[a] = Append(queue[a], t)
    <3>1. PICK t \in TaskType : t.kind \notin {"spawn", "send"} /\ t.msg = 0 /\ queue'[a] = Append(queue[a], t)
      BY <2>2
    <3> QED BY <3>1, LongerIs
  <2> QED BY <2>1, <2>2 DEF Part
<1>3. \A m \in Messages : fate'[m] = fate[m] \/ (m \in Overtaken(a) /\ fate[m] = "queued" /\ fate'[m] = "overtaken")
  BY <1>0 DEF Part, Overtaken, FateType
<1>4. /\ InTurn(a)' = InTurn(a) /\ Runs(a)' = Runs(a) /\ Watched(a)' = Watched(a)
      /\ (pc[a] # "idle" => Top(a)' = Top(a))
  <2>1. pc[a] # "idle" => Busy(a)
    BY DEF Typed, HeadAwaits
  <2> QED BY <1>2, <2>1 DEF Part, InTurn, Runs, Watched
<1>5. agent[a].life = "unborn" => ~Busy(a)'
  <2>1. agent[a].life = "unborn" => queue'[a] = queue[a]
    BY <1>1 DEF Part, Right, TasksRight
  <2> QED BY <1>1, <2>1 DEF Right, TasksRight, Busy
<1>6. TasksRight(a)'
  BY <1>1, <1>2, <1>4, <1>5 DEF Right, TasksRight, Part, Msg
<1>7. Given(a)' = Given(a)
  BY <1>0, <1>3 DEF Given, Part
<1>8. InTurn(a) => fate'[Top(a).msg] = fate[Top(a).msg]
  BY <1>1, <1>3 DEF Right, MessagesRight
<1>9. MessagesRight(a)'
  <2>1. ASSUME NEW i \in Places(a)', Msg(a, i)' # 0
        PROVE  /\ i \in Places(a) /\ Msg(a, i)' = Msg(a, i) /\ queue'[a][i].stops = queue[a][i].stops
               /\ Msg(a, i) \in Messages /\ queue[a][i].stops \in Nat
    <3>1. i \in Places(a) /\ queue'[a][i] = queue[a][i]
      BY <1>2, <2>1 DEF Msg
    <3>2. queue[a][i] \in TaskType
      <4> HIDE DEF TaskType
      <4> QED BY <1>0, <3>1 DEF Places
    <3> QED BY <2>1, <3>1, <3>2 DEF Msg, TaskType
  <2>2. agent[a].stops \in Nat /\ agent'[a].stops \in {agent[a].stops, agent[a].stops + 1}
    BY <1>0 DEF AgentType, Part
  <2>3. (\E m \in Messages : fate'[m] # fate[m]) => agent'[a].stops = agent[a].stops + 1
    BY DEF Part
  <2>4. ASSUME NEW i \in Places(a)', Msg(a, i)' # 0
        PROVE  /\ fate'[Msg(a, i)'] # "new"
               /\ queue'[a][i].stops <= agent'[a].stops
               /\ fate'[Msg(a, i)'] = "overtaken" => queue'[a][i].stops < agent'[a].stops
               /\ \A j \in Places(a)' : Msg(a, j)' = Msg(a, i)' => i = j
               /\ Msg(a, i)' = server'.turn[a] => i = 1 /\ pc'[a] = "turn"
    <3>1. /\ i \in Places(a) /\ Msg(a, i)' = Msg(a, i) /\ queue'[a][i].stops = queue[a][i].stops
          /\ Msg(a, i) \in Messages /\ queue[a][i].stops \in Nat /\ Msg(a, i) # 0
      BY <2>1, <2>4
    <3>2. /\ fate[Msg(a, i)] # "new"
          /\ queue[a][i].stops <= agent[a].stops
          /\ fate[Msg(a, i)] = "overtaken" => queue[a][i].stops < agent[a].stops
          /\ \A j \in Places(a) : Msg(a, j) = Msg(a, i) => i = j
          /\ Msg(a, i) = server.turn[a] => i = 1 /\ pc[a] = "turn"
      BY <1>1, <3>1 DEF Right, MessagesRight
    <3>3. \A j \in Places(a)' : Msg(a, j)' = Msg(a, i)' => i = j
      BY <2>1, <3>1, <3>2
    <3> QED BY <1>3, <2>2, <2>3, <3>1, <3>2, <3>3 DEF Part
  <2>5. server'.turn[a] # 0 => fate'[server'.turn[a]] # "new"
    BY <1>0, <1>1, <1>3 DEF Right, MessagesRight, Part
  <2>6. /\ InTurn(a)' => fate'[Top(a)'.msg] \in {"taken", "done"}
        /\ InTurn(a)' /\ pc'[a] # "turn" => fate'[Top(a)'.msg] = "taken"
    BY <1>1, <1>4, <1>8 DEF Right, MessagesRight, InTurn, Part
  <2> QED BY <2>4, <2>5, <2>6 DEF MessagesRight
<1>10. ServerRight(a)'
  BY <1>1, <1>4 DEF Right, ServerRight, Part
<1>11. WorkRight(a)'
  <2>1. fate[server.turn[a]] = "taken" /\ server.turn[a] # 0 => fate'[server.turn[a]] = "taken"
    BY <1>0, <1>3
  <2>2. Runs(a) => server.turn[a] # 0
    BY <1>1 DEF Right, ServerRight
  <2> QED BY <1>1, <1>4, <1>7, <1>8, <2>1, <2>2 DEF Right, WorkRight, Part, InTurn
<1>12. Right(a)'
  BY <1>6, <1>9, <1>10, <1>11 DEF Right
<1>13. \A m \in Own(a)' : m = 0 \/ m \in Own(a)
  BY <1>2 DEF Own, Msg, Part
<1> QED BY <1>12, <1>13

LEMMA PlainStep ==
  ASSUME Typed, IInv, NEW a \in Agents, Plain(a)
  PROVE  IInv'
<1>1. Part(a) /\ Right(a) /\ fate \in FateType
  BY DEF Plain, IInv, Typed
<1>2. Right(a)' /\ \A m \in Own(a)' : m = 0 \/ m \in Own(a)
  BY <1>1, PartRight
<1>3. \A m \in Messages : fate'[m] = fate[m] \/ (m \in Overtaken(a) /\ fate[m] = "queued" /\ fate'[m] = "overtaken")
  BY <1>1 DEF Part, Overtaken, FateType
<1>4. \A b \in Agents \ {a} : Same(b)
  BY DEF Plain, Part, Same
<1>5. World
  BY DEF Plain, Part, World
<1>6. \A m \in Messages : fate'[m] = fate[m] \/ m \in Own(a)
  <2>1. Overtaken(a) \subseteq Own(a)
    BY DEF Overtaken, Queued, Own, Places, Msg
  <2> QED BY <1>3, <2>1
<1>7. \A m \in Messages : fate[m] = "dropped" \/ fate'[m] # "dropped"
  BY <1>3
<1> QED BY <1>2, <1>4, <1>5, <1>6, <1>7, LocalStep

LEMMA PlainRequests ==
  ASSUME Typed, NEW a \in Agents, ReqStop(a) \/ ReqInterrupt(a) \/ ReqRemove(a) \/ ReqHibernate(a)
  PROVE  Plain(a)
<1>0. agent[a] \in AgentType /\ agent \in [Agents -> AgentType] /\ queue \in [Agents -> Seq(TaskType)]
      /\ fate \in FateType
  BY DEF Typed
<1>1. ASSUME NEW r \in AgentType, Stop(a, r)
      PROVE  /\ agent'[a].life = r.life /\ agent'[a].sid = r.sid /\ agent'[a].turn = r.turn
             /\ agent'[a].logError = r.logError /\ agent'[a].stops = r.stops
             /\ \A b \in Agents \ {a} : agent'[b] = agent[b]
             /\ server'.st = server.st /\ server'.left = server.left
             /\ server'.turn = server.turn /\ server'.loaded = server.loaded
  <2>1. PICK p \in BOOLEAN : agent' = [agent EXCEPT ![a] = [r EXCEPT !.pend = p]]
    BY <1>1, StopIs
  <2>2. agent'[a] = [r EXCEPT !.pend = p] /\ \A b \in Agents \ {a} : agent'[b] = agent[b]
    BY <1>0, <2>1
  <2>3. /\ agent'[a].life = r.life /\ agent'[a].sid = r.sid /\ agent'[a].turn = r.turn
        /\ agent'[a].logError = r.logError /\ agent'[a].stops = r.stops
    BY <2>2 DEF AgentType
  <2> QED BY <1>1, <2>2, <2>3, StopIs
<1>2. ASSUME NEW k \in {"stop", "remove", "hibernate"}, Enqueue(a, Simple(k))
      PROVE  /\ \E t \in TaskType : t.kind \notin {"spawn", "send"} /\ t.msg = 0 /\ queue'[a] = Append(queue[a], t)
             /\ \A b \in Agents \ {a} : queue'[b] = queue[b]
  <2> DEFINE t == Simple(k)
  <2>1. t \in TaskType /\ t.kind \notin {"spawn", "send"} /\ t.msg = 0
    BY SimpleIs DEF Kinds
  <2>2. queue' = [queue EXCEPT ![a] = Append(queue[a], t)]
    BY <1>2 DEF Enqueue
  <2> HIDE DEF t
  <2>3. queue'[a] = Append(queue[a], t)
    BY <1>0, <2>2
  <2>4. \A b \in Agents \ {a} : queue'[b] = queue[b]
    BY <1>0, <2>2
  <2> QED BY <2>1, <2>3, <2>4
<1>3. CASE ReqStop(a)
  <2> DEFINE r == [agent[a] EXCEPT !.stops = @ + 1]
  <2>1. /\ Stop(a, r) /\ Enqueue(a, Simple("stop")) /\ Become(Overtaken(a), "overtaken")
        /\ UNCHANGED <<known, pc, reply, pool, phase, saved>> /\ a \in known
    BY <1>3 DEF ReqStop, Accepts
  <2>2. /\ r \in AgentType /\ r.life = agent[a].life /\ r.sid = agent[a].sid /\ r.turn = agent[a].turn
        /\ r.logError = agent[a].logError /\ r.stops = agent[a].stops + 1
    <3>1. agent[a].stops + 1 \in Nat
      BY <1>0 DEF AgentType
    <3>2. \A n \in Nat : /\ [agent[a] EXCEPT !.stops = n] \in AgentType
                         /\ [agent[a] EXCEPT !.stops = n].life = agent[a].life
                         /\ [agent[a] EXCEPT !.stops = n].sid = agent[a].sid
                         /\ [agent[a] EXCEPT !.stops = n].turn = agent[a].turn
                         /\ [agent[a] EXCEPT !.stops = n].logError = agent[a].logError
                         /\ [agent[a] EXCEPT !.stops = n].stops = n
      BY <1>0 DEF AgentType
    <3>3. r = [agent[a] EXCEPT !.stops = agent[a].stops + 1]
      OBVIOUS
    <3> HIDE DEF r
    <3> QED BY <3>1, <3>2, <3>3
  <2> HIDE DEF r
  <2> QED BY <1>1, <1>2, <2>1, <2>2 DEF Plain, Part, Become
<1>4. CASE ReqInterrupt(a)
  <2>1. /\ Stop(a, agent[a]) /\ UNCHANGED <<known, queue, pc, reply, pool, phase, saved, fate>> /\ a \in known
    BY <1>4 DEF ReqInterrupt
  <2> QED BY <1>0, <1>1, <2>1 DEF Plain, Part
<1>5. CASE ReqRemove(a)
  <2> DEFINE r == [agent[a] EXCEPT !.removed = TRUE]
  <2>1. /\ Stop(a, r) /\ Enqueue(a, Simple("remove")) /\ fate' = fate
        /\ UNCHANGED <<known, pc, reply, pool, phase, saved>> /\ a \in known
    BY <1>5 DEF ReqRemove, Accepts
  <2>2. /\ r \in AgentType /\ r.life = agent[a].life /\ r.sid = agent[a].sid /\ r.turn = agent[a].turn
        /\ r.logError = agent[a].logError /\ r.stops = agent[a].stops
    BY <1>0 DEF AgentType
  <2> HIDE DEF r
  <2> QED BY <1>1, <1>2, <2>1, <2>2 DEF Plain, Part
<1>6. CASE ReqHibernate(a)
  <2>1. /\ Enqueue(a, Simple("hibernate")) /\ a \in known
        /\ UNCHANGED <<known, agent, pc, reply, pool, server, phase, saved, fate>>
    BY <1>6 DEF ReqHibernate, Accepts, codex, hist
  <2> QED BY <1>2, <2>1 DEF Plain, Part
<1> QED BY <1>3, <1>4, <1>5, <1>6

LEMMA SpawnRequest ==
  ASSUME Typed, IInv, NEW a \in Agents, NEW m \in Messages \cup {0}, ReqSpawn(a, m)
  PROVE  IInv'
<1> DEFINE t == Task("spawn", m, 0)
           x == [Fresh EXCEPT !.sid = a \in Existing]
<1>1. /\ agent[a].life = "unborn" /\ (m # 0 => fate[m] = "new") /\ phase # "closed"
      /\ known' = known \cup {a} /\ agent' = [agent EXCEPT ![a] = x]
      /\ Enqueue(a, t) /\ Become({m}, "queued")
      /\ UNCHANGED <<pc, reply, pool, server, phase, saved, asked>>
  BY DEF ReqSpawn, NextNew, Draining, codex
<1>2. /\ t \in TaskType /\ t.kind = "spawn" /\ t.msg = m /\ t.stops = 0
      /\ x.life = "starting" /\ ~x.turn /\ x.stops = 0 /\ ~x.logError
  BY FreshIs DEF Task, TaskType, Kinds, AgentType
<1>3. Right(a) /\ ~Busy(a) /\ server.left[a] = {} /\ server.turn[a] = 0
  BY <1>1 DEF IInv, Right, TasksRight
<1>4. pc[a] = "idle" /\ reply[a] = "none"
  BY <1>3 DEF Typed, HeadAwaits
<1>5. /\ agent'[a] = x /\ \A b \in Agents \ {a} : agent'[b] = agent[b]
  BY <1>1 DEF Typed
<1>6. /\ queue'[a] = Append(queue[a], t) /\ \A b \in Agents \ {a} : queue'[b] = queue[b]
  <2> HIDE DEF t
  <2> QED BY <1>1 DEF Enqueue, Typed
<1>7. \A k \in Messages : fate'[k] = IF k = m THEN "queued" ELSE fate[k]
  BY <1>1 DEF Become
<1> HIDE DEF t, x
<1>8. Places(a)' = {1} /\ queue'[a][1] = t
  <2>1. queue[a] = <<>>
    BY <1>3 DEF Busy
  <2>2. queue'[a] = <<t>>
    BY <1>6, <2>1
  <2> QED BY <2>2 DEF Places
<1>9. TasksRight(a)'
  BY <1>1, <1>2, <1>3, <1>4, <1>5, <1>8 DEF TasksRight, Msg
<1>10. MessagesRight(a)'
  BY <1>1, <1>2, <1>3, <1>4, <1>5, <1>7, <1>8 DEF MessagesRight, Msg, InTurn
<1>11. ServerRight(a)'
  BY <1>1, <1>3, <1>4 DEF Right, ServerRight, Runs
<1>12. WorkRight(a)'
  BY <1>1, <1>2, <1>3, <1>4, <1>5 DEF WorkRight, Runs, InTurn, Given
<1>13. Right(a)'
  BY <1>9, <1>10, <1>11, <1>12 DEF Right
<1>14. \A b \in Agents \ {a} : Same(b)
  BY <1>1, <1>5, <1>6 DEF Same
<1>15. World
  BY <1>1 DEF World
<1>16. \A k \in Own(a)' : k = 0 \/ (k \in Messages /\ fate[k] = "new")
  <2>1. \A k \in Own(a)' : k = server'.turn[a] \/ k = queue'[a][1].msg
    BY <1>8 DEF Own, Msg
  <2> QED BY <1>1, <1>2, <1>3, <1>8, <2>1
<1>17. \A k \in Messages : fate'[k] = fate[k] \/ fate[k] = "new"
  BY <1>1, <1>7 DEF Messages
<1>18. \A k \in Messages : fate[k] = "dropped" \/ fate'[k] # "dropped"
  BY <1>7
<1> QED BY <1>13, <1>14, <1>15, <1>16, <1>17, <1>18, LocalStep

LEMMA SendRequest ==
  ASSUME Typed, IInv, NEW a \in Agents, NEW m \in Messages, ReqSend(a, m)
  PROVE  IInv'
<1> DEFINE t == Task("send", m, agent[a].stops)
<1>0. /\ agent[a] \in AgentType /\ queue[a] \in Seq(TaskType) /\ fate \in FateType
      /\ server.turn[a] \in Messages \cup {0}
  BY DEF Typed, ServerType
<1>1. /\ fate[m] = "new" /\ a \in known /\ Enqueue(a, t) /\ Become({m}, "queued")
      /\ UNCHANGED <<known, agent, pc, reply, pool, server, phase, saved, asked>>
  BY DEF ReqSend, Accepts, NextNew, codex
<1>2. t \in TaskType /\ t.kind = "send" /\ t.msg = m /\ t.stops = agent[a].stops /\ m # 0
  BY <1>0 DEF Task, TaskType, Kinds, AgentType, Messages
<1>3. Right(a) /\ (InTurn(a) => Top(a).msg \in Messages)
  BY HeadIs DEF IInv
<1>4. /\ queue'[a] = Append(queue[a], t) /\ \A b \in Agents \ {a} : queue'[b] = queue[b]
  <2> HIDE DEF t
  <2> QED BY <1>1 DEF Enqueue, Typed
<1>5. \A k \in Messages : fate'[k] = IF k = m THEN "queued" ELSE fate[k]
  BY <1>1 DEF Become
<1> HIDE DEF t
<1>n. PICK n : n = Len(queue[a]) + 1
  OBVIOUS
<1>6. /\ \A i \in Places(a) : i \in Places(a)' /\ queue'[a][i] = queue[a][i]
      /\ \A i \in Places(a)' : i \in Places(a) \/ (i = n /\ queue'[a][i] = t)
      /\ n \in Places(a)' /\ queue'[a][n] = t
      /\ Busy(a) => Busy(a)' /\ Top(a)' = Top(a)
  BY <1>2, <1>4, <1>n, LongerIs
<1>7. n \notin Places(a) /\ (Busy(a) => n # 1)
  BY <1>0, <1>2, <1>n, AppendIs DEF Places, Busy
<1>8. /\ InTurn(a)' = InTurn(a) /\ Runs(a)' = Runs(a) /\ Watched(a)' = Watched(a)
      /\ (pc[a] # "idle" => Top(a)' = Top(a))
  <2>1. pc[a] # "idle" => Busy(a)
    BY DEF Typed, HeadAwaits
  <2> QED BY <1>1, <1>6, <2>1 DEF InTurn, Runs, Watched
<1>9. \A i \in Places(a) : Msg(a, i) # m
  <2> SUFFICES ASSUME NEW i \in Places(a), Msg(a, i) = m PROVE FALSE
    OBVIOUS
  <2> QED BY <1>1, <1>2, <1>3 DEF Right, MessagesRight
<1>10. server.turn[a] # m
  BY <1>1, <1>2, <1>3 DEF Right, MessagesRight
<1>11. InTurn(a) => Top(a).msg # m
  BY <1>1, <1>3 DEF Right, MessagesRight
<1>12. agent[a].life # "unborn"
  BY <1>1, <1>3 DEF Right, TasksRight
<1>13. TasksRight(a)'
  BY <1>1, <1>2, <1>3, <1>6, <1>8, <1>12 DEF Right, TasksRight, Msg
<1>14. MessagesRight(a)'
  <2>1. ASSUME NEW i \in Places(a), Msg(a, i) # 0 PROVE Msg(a, i) \in Messages /\ queue'[a][i] = queue[a][i] /\ Msg(a, i) # m
    <3>1. queue[a][i] \in TaskType
      <4> HIDE DEF TaskType
      <4> QED BY <1>0 DEF Places
    <3> QED BY <1>6, <1>9, <2>1, <3>1 DEF Msg, TaskType
  <2>2. ASSUME NEW i \in Places(a), Msg(a, i)' # 0
        PROVE  /\ fate'[Msg(a, i)'] # "new"
               /\ queue'[a][i].stops <= agent'[a].stops
               /\ fate'[Msg(a, i)'] = "overtaken" => queue'[a][i].stops < agent'[a].stops
               /\ \A j \in Places(a)' : Msg(a, j)' = Msg(a, i)' => i = j
               /\ Msg(a, i)' = server'.turn[a] => i = 1 /\ pc'[a] = "turn"
    <3>1. Msg(a, i)' = Msg(a, i) /\ \A j \in Places(a) : Msg(a, j)' = Msg(a, j)
      BY <1>6 DEF Msg
    <3>2. Msg(a, i) \in Messages /\ queue'[a][i] = queue[a][i] /\ Msg(a, i) # m
      BY <2>1, <2>2, <3>1
    <3>3. /\ fate[Msg(a, i)] # "new"
          /\ queue[a][i].stops <= agent[a].stops
          /\ fate[Msg(a, i)] = "overtaken" => queue[a][i].stops < agent[a].stops
          /\ \A j \in Places(a) : Msg(a, j) = Msg(a, i) => i = j
          /\ Msg(a, i) = server.turn[a] => i = 1 /\ pc[a] = "turn"
      BY <1>3, <2>2, <3>1 DEF Right, MessagesRight
    <3>4. \A j \in Places(a)' : Msg(a, j)' = Msg(a, i)' => i = j
      <4> SUFFICES ASSUME NEW j \in Places(a)', Msg(a, j)' = Msg(a, i)' PROVE i = j
        OBVIOUS
      <4>1. CASE j \in Places(a)
        BY <3>1, <3>3, <4>1
      <4>2. CASE j \notin Places(a)
        BY <1>2, <1>6, <3>1, <3>2, <4>2 DEF Msg
      <4> QED BY <4>1, <4>2
    <3> QED BY <1>1, <1>5, <3>1, <3>2, <3>3, <3>4
  <2>3. Msg(a, n)' = m /\ fate'[m] = "queued" /\ queue'[a][n].stops = agent[a].stops /\ n \notin Places(a)
    BY <1>2, <1>5, <1>6, <1>7 DEF Msg
  <2>4. \A j \in Places(a)' : Msg(a, j)' = m => j = n
    BY <1>6, <1>9 DEF Msg
  <2>5. agent[a].stops \in Nat
    BY <1>0 DEF AgentType
  <2>6. ASSUME NEW i \in Places(a)', Msg(a, i)' # 0
        PROVE  /\ fate'[Msg(a, i)'] # "new"
               /\ queue'[a][i].stops <= agent'[a].stops
               /\ fate'[Msg(a, i)'] = "overtaken" => queue'[a][i].stops < agent'[a].stops
               /\ \A j \in Places(a)' : Msg(a, j)' = Msg(a, i)' => i = j
               /\ Msg(a, i)' = server'.turn[a] => i = 1 /\ pc'[a] = "turn"
    <3>1. CASE i \in Places(a)
      BY <2>2, <2>6, <3>1
    <3>2. CASE i = n
      BY <1>1, <1>10, <2>3, <2>4, <2>5, <3>2
    <3> QED BY <1>6, <3>1, <3>2
  <2>7. server'.turn[a] # 0 => fate'[server'.turn[a]] # "new"
    BY <1>0, <1>1, <1>3, <1>5 DEF Right, MessagesRight
  <2>8. /\ InTurn(a)' => fate'[Top(a)'.msg] \in {"taken", "done"}
        /\ InTurn(a)' /\ pc'[a] # "turn" => fate'[Top(a)'.msg] = "taken"
    BY <1>1, <1>3, <1>5, <1>8, <1>11 DEF Right, MessagesRight, InTurn
  <2> QED BY <2>6, <2>7, <2>8 DEF MessagesRight
<1>15. ServerRight(a)'
  BY <1>1, <1>3, <1>8 DEF Right, ServerRight
<1>16. WorkRight(a)'
  <2>1. server.turn[a] # 0 => fate'[server.turn[a]] = fate[server.turn[a]]
    BY <1>0, <1>5, <1>10
  <2>2. Runs(a) => server.turn[a] # 0
    BY <1>3 DEF Right, ServerRight
  <2>3. InTurn(a) => fate'[Top(a).msg] = fate[Top(a).msg]
    BY <1>3, <1>5, <1>11
  <2>4. Given(a)' = Given(a)
    BY <1>1, <2>1 DEF Given
  <2> QED BY <1>1, <1>3, <1>8, <2>1, <2>2, <2>3, <2>4 DEF Right, WorkRight, InTurn
<1>17. Right(a)'
  BY <1>13, <1>14, <1>15, <1>16 DEF Right
<1>18. \A b \in Agents \ {a} : Same(b)
  BY <1>1, <1>4 DEF Same
<1>19. World
  BY <1>1 DEF World
<1>20. \A k \in Own(a)' : k = 0 \/ k \in Own(a) \/ (k \in Messages /\ fate[k] = "new")
  BY <1>1, <1>2, <1>6 DEF Own, Msg
<1>21. \A k \in Messages : fate'[k] = fate[k] \/ fate[k] = "new"
  BY <1>1, <1>5
<1>22. \A k \in Messages : fate[k] = "dropped" \/ fate'[k] # "dropped"
  BY <1>5
<1> QED BY <1>17, <1>18, <1>19, <1>20, <1>21, <1>22, LocalStep

-----------------------------------------------------------------------------
(***************************************************************************)
(* A head task that ends.                                                  *)
(***************************************************************************)
\* The tasks of queue'[a] that were behind the head of queue[a].
LEMMA BehindIs ==
  ASSUME Typed, IInv, NEW a \in Agents, Busy(a), NEW i \in 1..Len(Tail(queue[a])),
         \A m \in Messages : fate'[m] # fate[m] => m = Top(a).msg,
         NEW t, t = Tail(queue[a])[i]
  PROVE  /\ i + 1 \in Places(a) /\ i + 1 # 1 /\ 1 \in Places(a) /\ t = queue[a][i + 1] /\ t \in TaskType
         /\ t.kind # "spawn" /\ (t.kind = "send" => t.msg # 0)
         /\ t.kind \notin {"send", "spawn"} => t.msg = 0
         /\ t.msg # 0 => /\ t.msg # Top(a).msg /\ t.msg # server.turn[a]
                         /\ fate'[t.msg] = fate[t.msg] /\ fate[t.msg] # "new"
                         /\ t.stops <= agent[a].stops
                         /\ fate[t.msg] = "overtaken" => t.stops < agent[a].stops
                         /\ \A j \in Places(a) : Msg(a, j) = t.msg => j = i + 1
<1>1. /\ i + 1 \in Places(a) /\ i + 1 # 1 /\ 1 \in Places(a) /\ t = queue[a][i + 1]
  BY TopIs DEF Places
<1>2. t \in TaskType
  <2>1. Tail(queue[a]) \in Seq(TaskType)
    BY TopIs
  <2> HIDE DEF TaskType
  <2> QED BY <2>1
<1>3. Right(a)
  BY DEF IInv
<1>4. /\ t.kind # "spawn" /\ (t.kind = "send" => t.msg # 0)
      /\ t.kind \notin {"send", "spawn"} => t.msg = 0
  BY <1>1, <1>3 DEF Right, TasksRight, Msg
<1>5. ASSUME t.msg # 0
      PROVE  /\ fate[t.msg] # "new" /\ t.stops <= agent[a].stops
             /\ fate[t.msg] = "overtaken" => t.stops < agent[a].stops
             /\ \A j \in Places(a) : Msg(a, j) = t.msg => j = i + 1
             /\ t.msg # server.turn[a]
  BY <1>1, <1>3, <1>5 DEF Right, MessagesRight, Msg
<1>6. t.msg # 0 => t.msg # Top(a).msg
  BY <1>1, <1>5 DEF Top, Msg
<1>7. t.msg # 0 => fate'[t.msg] = fate[t.msg]
  BY <1>2, <1>6 DEF TaskType
<1> QED BY <1>1, <1>2, <1>4, <1>5, <1>6, <1>7

LEMMA FinishStep ==
  ASSUME Typed, IInv, NEW a \in Agents, Busy(a), queue'[a] = Tail(queue[a]),
         pc'[a] = "idle", reply'[a] = "none",
         agent'[a].stops = agent[a].stops, agent'[a].life # "unborn",
         agent'[a].turn => agent[a].turn, agent[a].sid => agent'[a].sid,
         \A m \in Messages : fate'[m] # fate[m] => m = Top(a).msg /\ fate'[m] \notin {"new", "dropped"},
         server'.st = server.st, server'.left = server.left, server'.turn = server.turn,
         server'.loaded = server.loaded,
         a \in pool'.attached /\ server.st = "up" => a \in server.loaded,
         phase' = phase,
         \A b \in Agents \ {a} : Same(b),
         WorkRight(a)'
  PROVE  IInv'
<1>0. Right(a) /\ server.turn[a] \in Messages \cup {0}
  BY DEF IInv, Typed, ServerType
<1>1. \A m \in Messages : fate'[m] # fate[m] => m = Top(a).msg
  OBVIOUS
<1>2. \A i \in Places(a)' : i \in 1..Len(Tail(queue[a])) /\ queue'[a][i] = Tail(queue[a])[i]
  BY DEF Places
<1>3. TasksRight(a)'
  <2>1. ASSUME NEW i \in Places(a)'
        PROVE  /\ queue'[a][i].kind = "send" => Msg(a, i)' # 0
               /\ queue'[a][i].kind \notin {"send", "spawn"} => Msg(a, i)' = 0
               /\ queue'[a][i].kind # "spawn"
    BY <1>1, <1>2, BehindIs DEF Msg
  <2> QED BY <1>0, <2>1 DEF Right, TasksRight
<1>4. MessagesRight(a)'
  <2>1. ASSUME NEW i \in Places(a)', Msg(a, i)' # 0
        PROVE  /\ fate'[Msg(a, i)'] # "new"
               /\ queue'[a][i].stops <= agent'[a].stops
               /\ fate'[Msg(a, i)'] = "overtaken" => queue'[a][i].stops < agent'[a].stops
               /\ \A j \in Places(a)' : Msg(a, j)' = Msg(a, i)' => i = j
               /\ Msg(a, i)' = server'.turn[a] => i = 1 /\ pc'[a] = "turn"
    <3>1. /\ i \in 1..Len(Tail(queue[a])) /\ queue'[a][i] = Tail(queue[a])[i]
      BY <1>2
    <3>2. Tail(queue[a])[i].msg # 0
      BY <2>1, <3>1 DEF Msg
    <3>3. \A j \in Places(a)' : Msg(a, j)' = Msg(a, i)' => i = j
      <4> SUFFICES ASSUME NEW j \in Places(a)', Msg(a, j)' = Msg(a, i)' PROVE i = j
        OBVIOUS
      <4>1. j \in 1..Len(Tail(queue[a])) /\ queue'[a][j] = Tail(queue[a])[j]
        BY <1>2
      <4>2. j + 1 \in Places(a) /\ Msg(a, j + 1) = Msg(a, j)'
        BY <1>1, <4>1, BehindIs DEF Msg
      <4>3. \A k \in Places(a) : Msg(a, k) = Msg(a, i)' => k = i + 1
        BY <1>1, <3>1, <3>2, BehindIs DEF Msg
      <4>4. j + 1 = i + 1
        BY <4>2, <4>3
      <4> QED BY <4>4, TopIs DEF Places
    <3>4. /\ fate'[Msg(a, i)'] # "new"
          /\ queue'[a][i].stops <= agent'[a].stops
          /\ fate'[Msg(a, i)'] = "overtaken" => queue'[a][i].stops < agent'[a].stops
          /\ Msg(a, i)' # server'.turn[a]
      BY <1>1, <3>1, <3>2, BehindIs DEF Msg
    <3> QED BY <3>3, <3>4
  <2>2. server'.turn[a] # 0 => fate'[server'.turn[a]] # "new"
    BY <1>0 DEF Right, MessagesRight
  <2> QED BY <2>1, <2>2 DEF MessagesRight, InTurn
<1>5. ServerRight(a)'
  <2> QED BY <1>0 DEF Right, ServerRight, Runs
<1>6. Right(a)'
  BY <1>3, <1>4, <1>5 DEF Right
<1>7. World
  BY DEF World
<1>8. \A m \in Own(a)' : m \in Own(a)
  <2>1. ASSUME NEW i \in Places(a)' PROVE Msg(a, i)' \in Own(a)
    <3>1. /\ i \in 1..Len(Tail(queue[a])) /\ queue'[a][i] = Tail(queue[a])[i]
      BY <1>2
    <3>2. PICK t : t = Tail(queue[a])[i]
      OBVIOUS
    <3>3. i + 1 \in Places(a) /\ t = queue[a][i + 1]
      BY <1>1, <3>1, <3>2, BehindIs
    <3>4. Msg(a, i)' = Msg(a, i + 1)
      BY <3>1, <3>2, <3>3 DEF Msg
    <3> QED BY <3>3, <3>4 DEF Own
  <2> QED BY <2>1 DEF Own
<1>9. \A m \in Messages : fate'[m] = fate[m] \/ m \in Own(a)
  <2>1. Top(a).msg \in Own(a)
    BY TopIs DEF Own, Top, Msg, Places
  <2> QED BY <1>1, <2>1
<1>10. \A m \in Messages : fate[m] = "dropped" \/ fate'[m] # "dropped"
  OBVIOUS
<1> QED BY <1>6, <1>7, <1>8, <1>9, <1>10, LocalStep

\* A task that ends at once, without an await.
LEMMA IdleEnds ==
  ASSUME Typed, IInv, NEW a \in Agents, Busy(a), pc[a] = "idle", Finish(a),
         UNCHANGED <<pool, server, phase>>,
         \A b \in Agents \ {a} : /\ agent'[b] = agent[b] /\ (b \in known' <=> b \in known)
                                 /\ b \in known => saved'[b].life \in {saved[b].life, agent[b].life},
         agent'[a].sid = agent[a].sid, agent'[a].turn = agent[a].turn,
         agent'[a].logError = agent[a].logError, agent'[a].stops = agent[a].stops,
         \/ agent'[a].life \in {agent[a].life, "stopped"}
         \/ agent'[a].life = "hibernated" /\ (a \in known' => ~Given(a)) /\ ~agent[a].turn,
         a \in known' => a \in known /\ saved'[a].life \in {saved[a].life, agent'[a].life},
         \A m \in Messages : fate'[m] # fate[m] => m = Top(a).msg /\ fate'[m] = "refused"
  PROVE  IInv'
<1>0. Right(a) /\ server.turn[a] \in Messages \cup {0}
  BY DEF IInv, Typed, ServerType
<1>1. agent[a].life # "unborn" /\ agent'[a].life # "unborn"
  BY <1>0 DEF Right, TasksRight
<1>2. /\ queue'[a] = Tail(queue[a]) /\ pc'[a] = "idle" /\ reply'[a] = "none"
      /\ \A b \in Agents \ {a} : queue'[b] = queue[b] /\ pc'[b] = pc[b] /\ reply'[b] = reply[b]
  BY FinishIs DEF Typed
<1>3. server.turn[a] # 0 => fate'[server.turn[a]] = fate[server.turn[a]]
  <2>1. 1 \in Places(a) /\ Msg(a, 1) = Top(a).msg
    BY TopIs DEF Places, Msg, Top
  <2>2. server.turn[a] # 0 => Top(a).msg # server.turn[a]
    BY <1>0, <2>1 DEF Right, MessagesRight
  <2> QED BY <1>0, <2>2
<1>4. Given(a)' = Given(a) /\ Runs(a)' = Runs(a) /\ ~InTurn(a) /\ ~InTurn(a)'
  BY <1>2, <1>3 DEF Given, Runs, InTurn
<1>5. Watched(a)' => Watched(a)
  BY DEF Watched
<1>6. a \in known' /\ Given(a) => agent'[a].turn \/ (agent'[a].logError /\ agent'[a].life \in {"failed", "stopped"})
  BY <1>0 DEF Right, WorkRight
<1>7. a \in known' /\ agent'[a].turn => agent'[a].life \in {"alive", "failed", "stopped"}
  BY <1>0 DEF Right, WorkRight
<1>8. a \in known' /\ Given(a) => saved'[a].life \notin {"unborn", "hibernated"}
  BY <1>0, <1>6, <1>7 DEF Right, WorkRight
<1>9. WorkRight(a)'
  BY <1>0, <1>2, <1>4, <1>5, <1>6, <1>7, <1>8 DEF Right, WorkRight
<1>10. \A b \in Agents \ {a} : Same(b)
  BY <1>2 DEF Same
<1>11. a \in pool'.attached /\ server.st = "up" => a \in server.loaded
  BY <1>0 DEF Right, ServerRight
<1> QED BY <1>1, <1>2, <1>9, <1>10, <1>11, FinishStep

LEMMA IdleTasks ==
  ASSUME Typed, IInv, NEW a \in Agents, RunStop(a) \/ RunRemove(a) \/ RunHibernate(a) \/ RunDrain(a)
  PROVE  IInv'
<1>0. /\ agent[a] \in AgentType /\ agent \in [Agents -> AgentType] /\ known \in SUBSET Agents
  BY DEF Typed
<1>1. Right(a)
  BY DEF IInv
<1>2. ASSUME NEW l \in Lives, agent' = [agent EXCEPT ![a].life = l], known' = known, Persist
      PROVE  /\ agent'[a].sid = agent[a].sid /\ agent'[a].turn = agent[a].turn
             /\ agent'[a].logError = agent[a].logError /\ agent'[a].stops = agent[a].stops
             /\ agent'[a].life = l
             /\ \A b \in Agents \ {a} : agent'[b] = agent[b]
             /\ \A b \in known' : saved'[b].life = agent'[b].life
  <2> DEFINE r == [agent[a] EXCEPT !.life = l]
  <2>1. /\ r \in AgentType /\ r.sid = agent[a].sid /\ r.turn = agent[a].turn /\ r.life = l
        /\ r.logError = agent[a].logError /\ r.stops = agent[a].stops
    BY <1>0 DEF AgentType
  <2>2. agent' = [agent EXCEPT ![a] = r]
    BY <1>0, <1>2
  <2> HIDE DEF r
  <2>3. agent'[a] = r /\ agent' \in [Agents -> AgentType] /\ \A b \in Agents \ {a} : agent'[b] = agent[b]
    BY <1>0, <2>1, <2>2
  <2>4. \A b \in known' : saved'[b].life = agent'[b].life
    BY <1>0, <1>2, <2>3, PersistIs
  <2> QED BY <2>1, <2>3, <2>4
<1>3. CASE RunStop(a)
  <2>1. /\ Busy(a) /\ pc[a] = "idle" /\ Finish(a) /\ UNCHANGED <<known, pool, server, phase, fate>> /\ Persist
        /\ agent' = [agent EXCEPT ![a].life = "stopped"] /\ "stopped" \in Lives
    BY <1>3 DEF RunStop, At, codex, hist, Lives
  <2>2. /\ agent'[a].sid = agent[a].sid /\ agent'[a].turn = agent[a].turn
        /\ agent'[a].logError = agent[a].logError /\ agent'[a].stops = agent[a].stops
        /\ agent'[a].life = "stopped"
        /\ \A b \in Agents \ {a} : agent'[b] = agent[b]
        /\ \A b \in known' : saved'[b].life = agent'[b].life
    BY <1>2, <2>1
  <2> QED BY <2>1, <2>2, IdleEnds
<1>4. CASE RunRemove(a)
  <2>1. /\ Busy(a) /\ pc[a] = "idle" /\ Finish(a) /\ UNCHANGED <<pool, server, phase, fate>> /\ Forget(a)
    BY <1>4 DEF RunRemove, At, codex, hist
  <2> QED BY <2>1, ForgetIs, IdleEnds
<1>5. CASE RunHibernate(a)
  <2>1. /\ Busy(a) /\ pc[a] = "idle" /\ Finish(a) /\ UNCHANGED <<known, pool, server, phase, fate>>
        /\ "hibernated" \in Lives
    BY <1>5 DEF RunHibernate, At, codex, hist, Lives
  <2>2. CASE Hibernatable(a)
    <3>1. agent' = [agent EXCEPT ![a].life = "hibernated"] /\ Persist /\ agent[a].life = "alive" /\ ~agent[a].turn
      BY <1>5, <2>2 DEF RunHibernate, Hibernatable
    <3>2. /\ agent'[a].sid = agent[a].sid /\ agent'[a].turn = agent[a].turn
          /\ agent'[a].logError = agent[a].logError /\ agent'[a].stops = agent[a].stops
          /\ agent'[a].life = "hibernated"
          /\ \A b \in Agents \ {a} : agent'[b] = agent[b]
          /\ \A b \in known' : saved'[b].life = agent'[b].life
      BY <1>2, <2>1, <3>1
    <3>3. a \in known => ~Given(a)
      BY <1>1, <3>1 DEF Right, WorkRight
    <3> QED BY <2>1, <3>1, <3>2, <3>3, IdleEnds
  <2>3. CASE ~Hibernatable(a)
    BY <1>5, <2>1, <2>3, IdleEnds DEF RunHibernate
  <2> QED BY <2>2, <2>3
<1>6. CASE RunDrain(a)
  BY <1>6, IdleEnds DEF RunDrain, At, codex, hist
<1> QED BY <1>3, <1>4, <1>5, <1>6

\* A spawn that ends, and whose message is queued behind the others.
LEMMA RequeueStep ==
  ASSUME Typed, IInv, NEW a \in Agents, Busy(a), Top(a).kind = "spawn",
         Top(a).msg \in Messages, ~StoppedSince(a),
         queue'[a] = Append(Tail(queue[a]), Task("send", Top(a).msg, 0)),
         pc'[a] = "idle", reply'[a] = "none",
         agent'[a].stops = agent[a].stops, agent'[a].life # "unborn",
         agent'[a].turn = agent[a].turn, agent[a].sid => agent'[a].sid,
         fate' = fate,
         server' = server,
         a \in pool'.attached /\ server.st = "up" => a \in server.loaded,
         phase' = phase,
         \A b \in Agents \ {a} : Same(b)
  PROVE  IInv'
<1> DEFINE t == Task("send", Top(a).msg, 0)
<1>0. Right(a) /\ 0 \notin Messages /\ agent[a].stops \in Nat
  BY DEF IInv, Messages, Typed, AgentType
<1>1. 1 \in Places(a) /\ Msg(a, 1) = Top(a).msg /\ Top(a) = queue[a][1] /\ Top(a) \in TaskType
  BY TopIs DEF Places, Msg, Top
<1>2. server.turn[a] = 0 /\ ~agent[a].turn
  BY <1>0, <1>1 DEF Right, TasksRight
<1>3. /\ fate[Top(a).msg] # "new" /\ fate[Top(a).msg] # "overtaken"
      /\ \A j \in Places(a) : Msg(a, j) = Top(a).msg => j = 1
  <2>1. Top(a).stops = agent[a].stops /\ Top(a).stops \in Nat
    BY <1>1 DEF StoppedSince, TaskType
  <2> QED BY <1>0, <1>1, <2>1 DEF Right, MessagesRight
<1>4. t \in TaskType /\ t.kind = "send" /\ t.msg = Top(a).msg /\ t.stops = 0
  BY DEF Task, TaskType, Kinds
<1>n. PICK n : n = Len(Tail(queue[a])) + 1
  OBVIOUS
<1> HIDE DEF t
<1>5. /\ \A i \in Places(a)' : \/ i \in 1..Len(Tail(queue[a])) /\ queue'[a][i] = Tail(queue[a])[i]
                               \/ i = n /\ queue'[a][i] = t
      /\ n \notin 1..Len(Tail(queue[a]))
  <2> DEFINE q == Tail(queue[a])
             p == queue'[a]
  <2>1. q \in Seq(TaskType) /\ p = Append(q, t)
    BY TopIs DEF t
  <2> HIDE DEF q, p
  <2>2. /\ Len(p) = Len(q) + 1 /\ Len(q) \in Nat /\ p[Len(q) + 1] = t
        /\ \A i \in 1..Len(q) : p[i] = q[i]
    BY <1>4, <2>1, AppendIs
  <2>3. \A i \in 1..Len(p) : i \in 1..Len(q) \/ i = Len(q) + 1
    BY <2>2
  <2>4. Len(q) + 1 \notin 1..Len(q)
    BY <2>2
  <2>5. n = Len(q) + 1
    BY <1>n DEF q
  <2> QED BY <2>2, <2>3, <2>4, <2>5 DEF p, q, Places
<1>6. ASSUME NEW i \in Places(a)', i # n
      PROVE  /\ i \in 1..Len(Tail(queue[a])) /\ i + 1 \in Places(a) /\ i + 1 # 1
             /\ queue'[a][i] = queue[a][i + 1] /\ Msg(a, i)' = Msg(a, i + 1)
             /\ queue'[a][i].kind # "spawn" /\ (queue'[a][i].kind = "send" => Msg(a, i)' # 0)
             /\ queue'[a][i].kind \notin {"send", "spawn"} => Msg(a, i)' = 0
             /\ Msg(a, i)' # 0 =>
                  /\ Msg(a, i)' # Top(a).msg /\ fate[Msg(a, i)'] # "new"
                  /\ queue'[a][i].stops <= agent[a].stops
                  /\ fate[Msg(a, i)'] = "overtaken" => queue'[a][i].stops < agent[a].stops
                  /\ \A j \in Places(a) : Msg(a, j) = Msg(a, i)' => j = i + 1
  <2>1. i \in 1..Len(Tail(queue[a])) /\ queue'[a][i] = Tail(queue[a])[i]
    BY <1>5, <1>6
  <2>2. PICK u : u = Tail(queue[a])[i]
    OBVIOUS
  <2>3. /\ i + 1 \in Places(a) /\ i + 1 # 1 /\ u = queue[a][i + 1]
        /\ u.kind # "spawn" /\ (u.kind = "send" => u.msg # 0)
        /\ u.kind \notin {"send", "spawn"} => u.msg = 0
        /\ u.msg # 0 => /\ u.msg # Top(a).msg
                        /\ fate[u.msg] # "new"
                        /\ u.stops <= agent[a].stops
                        /\ fate[u.msg] = "overtaken" => u.stops < agent[a].stops
                        /\ \A j \in Places(a) : Msg(a, j) = u.msg => j = i + 1
    BY <2>1, <2>2, BehindIs
  <2>4. queue'[a][i] = u
    BY <2>1, <2>2
  <2>5. Msg(a, i)' = u.msg /\ Msg(a, i + 1) = u.msg
    BY <2>3, <2>4 DEF Msg
  <2> QED BY <2>1, <2>3, <2>4, <2>5
<1>7. n \in Places(a)' => queue'[a][n] = t /\ Msg(a, n)' = Top(a).msg
  <2>1. n \in Places(a)' => queue'[a][n] = t
    BY <1>5
  <2> QED BY <1>4, <2>1 DEF Msg
<1>8. TasksRight(a)'
  <2>1. ASSUME NEW i \in Places(a)'
        PROVE  /\ queue'[a][i].kind = "send" => Msg(a, i)' # 0
               /\ queue'[a][i].kind \notin {"send", "spawn"} => Msg(a, i)' = 0
               /\ queue'[a][i].kind # "spawn"
    <3>1. CASE i = n
      <4>1. queue'[a][i].kind = "send" /\ Msg(a, i)' \in Messages
        BY <1>4, <1>7, <2>1, <3>1
      <4> QED BY <1>0, <4>1
    <3>2. CASE i # n
      BY <1>6, <2>1, <3>2
    <3> QED BY <3>1, <3>2
  <2> QED BY <1>0, <1>2, <2>1 DEF Right, TasksRight
<1>9. MessagesRight(a)'
  <2>1. ASSUME NEW i \in Places(a)', Msg(a, i)' # 0
        PROVE  /\ fate'[Msg(a, i)'] # "new"
               /\ queue'[a][i].stops <= agent'[a].stops
               /\ fate'[Msg(a, i)'] = "overtaken" => queue'[a][i].stops < agent'[a].stops
               /\ \A j \in Places(a)' : Msg(a, j)' = Msg(a, i)' => i = j
               /\ Msg(a, i)' # server'.turn[a]
    <3>1. \A j \in Places(a)' : Msg(a, j)' = Msg(a, i)' => i = j
      <4> SUFFICES ASSUME NEW j \in Places(a)', Msg(a, j)' = Msg(a, i)' PROVE i = j
        OBVIOUS
      <4>1. CASE i = n \/ j = n
        BY <1>6, <1>7, <2>1, <4>1
      <4>2. CASE i # n /\ j # n
        <5>1. j + 1 \in Places(a) /\ Msg(a, j + 1) = Msg(a, j)' /\ j \in 1..Len(Tail(queue[a]))
          BY <1>6, <4>2
        <5>2. /\ \A k \in Places(a) : Msg(a, k) = Msg(a, i)' => k = i + 1
              /\ i \in 1..Len(Tail(queue[a]))
          BY <1>6, <2>1, <4>2
        <5>3. j + 1 = i + 1
          BY <5>1, <5>2
        <5> QED BY <5>1, <5>2, <5>3, TopIs
      <4> QED BY <4>1, <4>2
    <3>2. CASE i = n
      <4>1. Msg(a, i)' = Top(a).msg /\ queue'[a][i].stops = 0
        BY <1>4, <1>7, <2>1, <3>2
      <4>2. fate'[Msg(a, i)'] # "new" /\ fate'[Msg(a, i)'] # "overtaken"
        BY <1>3, <4>1
      <4>3. queue'[a][i].stops <= agent'[a].stops
        <5>1. \A k \in Nat : 0 <= k
          OBVIOUS
        <5>2. 0 <= agent'[a].stops
          BY <1>0, <5>1
        <5>3. ASSUME NEW x, NEW y, x = 0, 0 <= y PROVE x <= y
          BY <5>3
        <5> QED BY <4>1, <5>2, <5>3
      <4>4. Msg(a, i)' # server'.turn[a]
        BY <1>2, <2>1
      <4> QED BY <3>1, <4>2, <4>3, <4>4
    <3>3. CASE i # n
      BY <1>2, <1>6, <2>1, <3>1, <3>3
    <3> QED BY <3>2, <3>3
  <2> QED BY <1>2, <2>1 DEF MessagesRight, InTurn
<1>10. ServerRight(a)'
  BY <1>0 DEF Right, ServerRight, Runs
<1>11. WorkRight(a)'
  BY <1>0, <1>2 DEF Right, ServerRight, WorkRight, Runs, Given, InTurn, Watched
<1>12. Right(a)'
  BY <1>8, <1>9, <1>10, <1>11 DEF Right
<1>13. World
  BY DEF World
<1>14. \A m \in Own(a)' : m \in Own(a)
  <2>1. ASSUME NEW i \in Places(a)' PROVE Msg(a, i)' \in Own(a)
    <3>1. \E j \in Places(a) : Msg(a, i)' = Msg(a, j)
      <4>1. CASE i = n
        BY <1>1, <1>7, <2>1, <4>1
      <4>2. CASE i # n
        BY <1>6, <2>1, <4>2
      <4> QED BY <4>1, <4>2
    <3> QED BY <3>1 DEF Own
  <2> QED BY <2>1 DEF Own
<1> QED BY <1>12, <1>13, <1>14, LocalStep

\* The end of a spawn.
LEMMA SpawnEndsStep ==
  ASSUME Typed, IInv, NEW a \in Agents, Busy(a), Top(a).kind = "spawn", SpawnEnds(a),
         agent'[a].stops = agent[a].stops, agent'[a].life # "unborn",
         agent'[a].turn = agent[a].turn, agent[a].sid => agent'[a].sid,
         server' = server, phase' = phase,
         a \in pool'.attached /\ server.st = "up" => a \in server.loaded,
         \A b \in Agents \ {a} : /\ agent'[b] = agent[b] /\ (b \in known' <=> b \in known)
                                 /\ b \in known => saved'[b].life \in {saved[b].life, agent[b].life}
                                 /\ b \in pool'.attached => b \in pool.attached
  PROVE  IInv'
<1>0. Right(a) /\ Msg(a, 1) = Top(a).msg /\ 1 \in Places(a) /\ Top(a) = queue[a][1]
      /\ queue[a] \in Seq(TaskType)
  BY TopIs DEF IInv, Places, Msg, Top, Typed
<1>1. server.turn[a] = 0 /\ ~agent[a].turn
  BY <1>0 DEF Right, TasksRight
<1>2. /\ pc'[a] = "idle" /\ reply'[a] = "none"
      /\ \A b \in Agents \ {a} : queue'[b] = queue[b] /\ pc'[b] = pc[b] /\ reply'[b] = reply[b]
  <2>1. /\ pc' = [pc EXCEPT ![a] = "idle"] /\ reply' = [reply EXCEPT ![a] = "none"]
        /\ \A b \in Agents \ {a} : queue'[b] = queue[b]
    BY SpawnEndsIs
  <2>2. pc \in [Agents -> Stages] /\ reply \in [Agents -> {"none", "yes", "no"}]
    BY DEF Typed
  <2> QED BY <2>1, <2>2
<1>3. \A b \in Agents \ {a} : Same(b)
  BY <1>2 DEF Same
<1>4. CASE queue' = [queue EXCEPT ![a] = Tail(queue[a])] /\ Become({Top(a).msg}, "refused")
  <2>1. queue'[a] = Tail(queue[a])
    BY <1>4 DEF Typed
  <2>2. \A m \in Messages : fate'[m] # fate[m] => m = Top(a).msg /\ fate'[m] = "refused"
    BY <1>4 DEF Become
  <2>3. WorkRight(a)'
    BY <1>0, <1>1, <1>2 DEF Right, ServerRight, WorkRight, Runs, Given, InTurn, Watched
  <2> QED BY <1>1, <1>2, <1>3, <2>1, <2>2, <2>3, FinishStep
<1>5. CASE /\ Top(a).msg \in Messages /\ ~StoppedSince(a) /\ fate' = fate
           /\ queue' = [queue EXCEPT ![a] = Append(Tail(queue[a]), Task("send", Top(a).msg, 0))]
  <2>1. queue'[a] = Append(Tail(queue[a]), Task("send", Top(a).msg, 0))
    <3>1. queue \in [Agents -> Seq(TaskType)]
      BY DEF Typed
    <3> DEFINE q == Append(Tail(queue[a]), Task("send", Top(a).msg, 0))
    <3>2. queue' = [queue EXCEPT ![a] = q]
      BY <1>5
    <3> HIDE DEF q, TaskType
    <3>3. queue'[a] = q
      BY <3>1, <3>2
    <3> QED BY <3>3 DEF q
  <2> QED BY <1>2, <1>3, <1>5, <2>1, RequeueStep
<1> QED BY <1>4, <1>5, SpawnEndsIs

LEMMA SpawnAgain ==
  ASSUME Typed, IInv, NEW a \in Agents, RunSpawn(a), agent[a].sid
  PROVE  IInv'
<1> DEFINE r == [agent[a] EXCEPT !.life = "hibernated"]
<1>0. /\ agent[a] \in AgentType /\ agent \in [Agents -> AgentType] /\ known \in SUBSET Agents
      /\ Right(a)
  BY DEF Typed, IInv
<1>1. /\ Busy(a) /\ Top(a).kind = "spawn" /\ agent' = [agent EXCEPT ![a] = r] /\ SpawnEnds(a) /\ Persist
      /\ UNCHANGED <<known, pool, server, phase>>
  BY DEF RunSpawn, At, codex
<1>2. r \in AgentType /\ r.life = "hibernated" /\ r.sid = agent[a].sid /\ r.turn = agent[a].turn /\ r.stops = agent[a].stops
  BY <1>0 DEF AgentType, Lives
<1> HIDE DEF r
<1>3. agent' \in [Agents -> AgentType] /\ agent'[a] = r /\ \A b \in Agents \ {a} : agent'[b] = agent[b]
  BY <1>0, <1>1, <1>2
<1>4. \A b \in known : saved'[b].life = agent'[b].life
  BY <1>0, <1>1, <1>3, PersistIs
<1>5. a \in pool'.attached /\ server.st = "up" => a \in server.loaded
  BY <1>0, <1>1 DEF Right, ServerRight
<1> QED BY <1>1, <1>2, <1>3, <1>4, <1>5, SpawnEndsStep

LEMMA Refuses ==
  ASSUME Typed, IInv, NEW a \in Agents, RunSend(a), Refuse(a)
  PROVE  IInv'
<1>1. /\ Busy(a) /\ pc[a] = "idle" /\ Finish(a) /\ Become({Top(a).msg}, "refused")
      /\ UNCHANGED <<known, agent, pool, server, saved, phase>>
  BY DEF RunSend, Refuse, At, codex
<1>2. \A m \in Messages : fate'[m] # fate[m] => m = Top(a).msg /\ fate'[m] = "refused"
  BY <1>1 DEF Become
<1> QED BY <1>1, <1>2, IdleEnds

\* A send whose thread was started for nothing.
LEMMA StartsThread ==
  ASSUME Typed, IInv, NEW a \in Agents, ThreadStarted(a), Top(a).kind = "spawn" \/ Refused(a)
  PROVE  IInv'
<1> DEFINE r == [agent[a] EXCEPT !.sid = TRUE, !.life = "alive"]
<1>0. /\ agent[a] \in AgentType /\ agent \in [Agents -> AgentType] /\ known \in SUBSET Agents
      /\ Right(a)
  BY DEF Typed, IInv
<1>1. /\ Busy(a) /\ pc[a] = "thread" /\ reply[a] = "yes" /\ agent' = [agent EXCEPT ![a] = r] /\ Persist
      /\ UNCHANGED <<known, server, phase>> /\ pool' = Attach(a)
      /\ \/ Top(a).kind = "spawn" /\ SpawnEnds(a)
         \/ Finish(a) /\ Become({Top(a).msg}, "refused")
  BY DEF ThreadStarted, Typed, HeadAwaits
<1>2. r \in AgentType /\ r.life = "alive" /\ r.sid /\ r.turn = agent[a].turn /\ r.stops = agent[a].stops
  BY <1>0 DEF AgentType, Lives
<1> HIDE DEF r
<1>3. agent' \in [Agents -> AgentType] /\ agent'[a] = r /\ \A b \in Agents \ {a} : agent'[b] = agent[b]
  BY <1>0, <1>1, <1>2
<1>4. \A b \in known : saved'[b].life = agent'[b].life
  BY <1>0, <1>1, <1>3, PersistIs
<1>5. server.st = "up" => a \in server.loaded
  BY <1>0, <1>1 DEF Right, ServerRight
<1>6. \A b \in Agents \ {a} : b \in pool'.attached => b \in pool.attached
  BY <1>1, AttachIs
<1>7. CASE Top(a).kind = "spawn" /\ SpawnEnds(a)
  BY <1>1, <1>2, <1>3, <1>4, <1>5, <1>6, <1>7, SpawnEndsStep
<1>8. CASE Finish(a) /\ Become({Top(a).msg}, "refused")
  <2>1. \A m \in Messages : fate'[m] # fate[m] => m = Top(a).msg /\ fate'[m] = "refused"
    BY <1>8 DEF Become
  <2>2. /\ queue'[a] = Tail(queue[a]) /\ pc'[a] = "idle" /\ reply'[a] = "none"
        /\ \A b \in Agents \ {a} : queue'[b] = queue[b] /\ pc'[b] = pc[b] /\ reply'[b] = reply[b]
    BY <1>1, <1>8, FinishIs DEF Typed
  <2>3. ~agent[a].sid /\ ~agent[a].turn /\ server.turn[a] = 0
    BY <1>0, <1>1 DEF Right, TasksRight
  <2>4. WorkRight(a)'
    BY <1>0, <1>1, <1>2, <1>3, <2>2, <2>3 DEF Right, ServerRight, WorkRight, Runs, Given, InTurn, Watched
  <2>5. \A b \in Agents \ {a} : Same(b)
    BY <1>1, <1>3, <1>4, <1>6, <2>2 DEF Same
  <2> QED BY <1>1, <1>2, <1>3, <1>5, <2>1, <2>2, <2>3, <2>4, <2>5, FinishStep
<1> QED BY <1>1, <1>7, <1>8

\* The answer to turn/start, or the news that there is none.
LEMMA AcceptedStep ==
  ASSUME Typed, IInv, NEW a \in Agents, TurnAccepted(a)
  PROVE  IInv'
<1>0. /\ Right(a) /\ ClosedDown /\ server.turn[a] \in Messages \cup {0} /\ 0 \notin Messages
      /\ server.st \in {"none", "init", "up", "gone"}
  BY DEF IInv, Typed, ServerType, Messages
<1>1. /\ pc[a] = "turn" /\ reply[a] = "yes" /\ Finish(a)
      /\ Become({Top(a).msg} \ {k \in Messages : fate[k] # "taken"}, "given")
      /\ UNCHANGED <<known, pool, phase>>
  BY DEF TurnAccepted
<1>2. /\ agent'[a].life = agent[a].life /\ agent'[a].sid = agent[a].sid
      /\ agent'[a].turn = agent[a].turn /\ agent'[a].stops = agent[a].stops
      /\ agent'[a].logError = agent[a].logError
      /\ \A b \in Agents \ {a} : agent'[b] = agent[b]
      /\ server'.st = server.st /\ server'.loaded = server.loaded
      /\ server'.left = server.left /\ server'.turn = server.turn
      /\ \A b \in known : saved'[b].life = agent'[b].life
  BY TurnAcceptedIs DEF Typed
<1>3. InTurn(a)
  BY <1>0, <1>1 DEF Right, TasksRight, InTurn
<1>4. Busy(a) /\ Top(a).msg \in Messages
  BY <1>0, <1>3, HeadIs
<1>5. /\ queue'[a] = Tail(queue[a]) /\ pc'[a] = "idle" /\ reply'[a] = "none"
      /\ \A b \in Agents \ {a} : queue'[b] = queue[b] /\ pc'[b] = pc[b] /\ reply'[b] = reply[b]
  BY <1>1, <1>4, FinishIs DEF Typed
<1>6. /\ \A m \in Messages : fate'[m] # fate[m] => m = Top(a).msg /\ fate'[m] = "given"
      /\ fate[Top(a).msg] = "taken" => fate'[Top(a).msg] = "given"
      /\ fate[Top(a).msg] # "taken" => fate'[Top(a).msg] = fate[Top(a).msg]
  BY <1>1, <1>4 DEF Become
<1>7. /\ server.turn[a] = Top(a).msg /\ server.st \in {"up", "gone"} /\ phase # "closed"
      /\ fate[Top(a).msg] \in {"taken", "done"}
  BY <1>0, <1>1, <1>3 DEF Right, ServerRight, MessagesRight, ClosedDown
<1>8. /\ Given(a)' <=> fate[Top(a).msg] = "taken"
      /\ server'.turn[a] = Top(a).msg /\ Top(a).msg # 0
  BY <1>0, <1>2, <1>4, <1>6, <1>7 DEF Given
<1>9. Runs(a)' = Runs(a) /\ Watched(a)' = Watched(a) /\ ~InTurn(a)'
  BY <1>1, <1>2, <1>5 DEF Runs, Watched, InTurn
<1>10. fate[Top(a).msg] = "taken" /\ a \in known =>
         agent[a].turn \/ (agent[a].logError /\ agent[a].life \in {"failed", "stopped"})
  BY <1>0, <1>1, <1>3, <1>7 DEF Right, WorkRight
<1>11. Watched(a) /\ agent[a].turn => Runs(a) \/ (server.st = "gone" /\ fate[Top(a).msg] = "taken")
  BY <1>0, <1>1, <1>3, <1>7 DEF Right, WorkRight, Given
<1>12. a \in known /\ agent[a].turn => agent[a].life \in {"alive", "failed", "stopped"}
  BY <1>0 DEF Right, WorkRight
<1>13. Watched(a) /\ Runs(a) => agent[a].turn /\ fate[Top(a).msg] = "taken"
  BY <1>0, <1>1, <1>7 DEF Right, WorkRight
<1>14. WorkRight(a)'
  BY <1>1, <1>2, <1>5, <1>8, <1>9, <1>10, <1>11, <1>12, <1>13 DEF WorkRight
<1>15. \A b \in Agents \ {a} : Same(b)
  BY <1>1, <1>2, <1>5 DEF Same
<1>16. agent'[a].life # "unborn"
  BY <1>0, <1>2, <1>4 DEF Right, TasksRight
<1>17. a \in pool'.attached /\ server.st = "up" => a \in server.loaded
  BY <1>0, <1>1 DEF Right, ServerRight
<1> QED BY <1>1, <1>2, <1>4, <1>5, <1>6, <1>14, <1>15, <1>16, <1>17, FinishStep

LEMMA FailedStep ==
  ASSUME Typed, IInv, NEW a \in Agents, CallFailed(a)
  PROVE  IInv'
<1>0. /\ Right(a) /\ server.turn[a] \in Messages \cup {0} /\ 0 \notin Messages
      /\ agent \in [Agents -> AgentType] /\ agent[a] \in AgentType /\ known \in SUBSET Agents
  BY DEF IInv, Typed, ServerType, Messages
<1>1. /\ reply[a] = "no" /\ Finish(a) /\ UNCHANGED <<pool, server, phase>>
      /\ Become({Top(a).msg} \ {m \in Messages : fate[m] = "done"}, IF InTurn(a) THEN "told" ELSE "refused")
  BY DEF CallFailed, codex
<1>2. Busy(a) /\ pc[a] # "idle" /\ ~Runs(a)
  BY <1>0, <1>1 DEF Typed, HeadAwaits, Right, ServerRight, Runs
<1>3. /\ queue'[a] = Tail(queue[a]) /\ pc'[a] = "idle" /\ reply'[a] = "none"
      /\ \A b \in Agents \ {a} : queue'[b] = queue[b] /\ pc'[b] = pc[b] /\ reply'[b] = reply[b]
  BY <1>1, <1>2, FinishIs DEF Typed
<1>4. \A m \in Messages : fate'[m] # fate[m] => m = Top(a).msg /\ fate'[m] \in {"told", "refused"}
  BY <1>1 DEF Become
<1>5. ~Runs(a)' /\ ~InTurn(a)' /\ (Given(a)' => Given(a))
  <2>1. Given(a)' => Given(a)
    BY <1>0, <1>1, <1>4 DEF Given
  <2> QED BY <1>1, <1>2, <1>3, <2>1 DEF Runs, InTurn
<1>6. agent[a].life # "unborn" /\ (a \in pool'.attached /\ server.st = "up" => a \in server.loaded)
  BY <1>0, <1>1, <1>2 DEF Right, TasksRight, ServerRight
<1>7. CASE InTurn(a)
  <2> DEFINE r == [agent[a] EXCEPT !.turn = FALSE, !.life = "failed"]
  <2>1. agent' = [agent EXCEPT ![a] = r] /\ known' = known /\ Persist
    BY <1>7 DEF CallFailed
  <2>2. /\ r \in AgentType /\ ~r.turn /\ r.life = "failed" /\ r.sid = agent[a].sid
        /\ r.logError = agent[a].logError /\ r.stops = agent[a].stops
    BY <1>0 DEF AgentType, Lives
  <2> HIDE DEF r
  <2>3. agent' \in [Agents -> AgentType] /\ agent'[a] = r /\ \A b \in Agents \ {a} : agent'[b] = agent[b]
    BY <1>0, <2>1, <2>2
  <2>4. \A b \in known : saved'[b].life = agent'[b].life
    BY <1>0, <2>1, <2>3, PersistIs
  <2>5. a \in known /\ Given(a) => agent[a].logError
    BY <1>0, <1>7 DEF Right, WorkRight
  <2>6. WorkRight(a)'
    BY <1>5, <2>1, <2>2, <2>3, <2>4, <2>5 DEF WorkRight
  <2>7. \A b \in Agents \ {a} : Same(b)
    BY <1>1, <1>3, <2>1, <2>3, <2>4 DEF Same
  <2> QED BY <1>1, <1>2, <1>3, <1>4, <1>6, <2>2, <2>3, <2>6, <2>7, FinishStep
<1>8. CASE ~InTurn(a)
  <2>1. ~agent[a].turn /\ server.turn[a] = 0
    <3>1. pc[a] \in {"ensure", "thread", "resume", "turn"}
      BY <1>2 DEF Typed, Stages
    <3> QED BY <1>0, <1>8, <3>1 DEF Right, TasksRight, InTurn
  <2>2. /\ agent' = agent
        /\ \A b \in Agents \ {a} : /\ b \in known' <=> b \in known
                                   /\ b \in known => saved'[b].life \in {saved[b].life, agent[b].life}
    <3>1. CASE Forget(a)
      BY <3>1, ForgetIs
    <3>2. CASE UNCHANGED <<known, agent, saved>>
      BY <3>2
    <3> QED BY <1>8, <3>1, <3>2 DEF CallFailed
  <2>3. WorkRight(a)'
    BY <1>1, <1>5, <2>1, <2>2 DEF WorkRight, Given
  <2>4. \A b \in Agents \ {a} : Same(b)
    BY <1>1, <1>3, <2>2 DEF Same
  <2> QED BY <1>1, <1>2, <1>3, <1>4, <1>6, <2>1, <2>2, <2>3, <2>4, FinishStep
<1> QED BY <1>7, <1>8

-----------------------------------------------------------------------------
(***************************************************************************)
(* A head task that goes on to its next await.                             *)
(***************************************************************************)
LEMMA CallStep ==
  ASSUME Typed, IInv, NEW a \in Agents, Busy(a), pc[a] # "turn",
         queue' = queue, phase' = phase, World, \A b \in Agents \ {a} : Same(b),
         reply'[a] = "none", pc'[a] \in {"ensure", "thread", "resume", "turn"},
         Top(a).kind \in {"spawn", "send"},
         pc'[a] = "ensure" => server'.st = "init",
         pc'[a] # "ensure" => server'.st \in {"up", "gone"},
         server'.st = "up" => server'.left[a] = IF pc'[a] = "turn" THEN Says ELSE {"accepted"},
         server'.st # "up" => server'.left[a] = {},
         server'.turn[a] = IF server'.st = "up" /\ pc'[a] = "turn" THEN Top(a).msg ELSE server.turn[a],
         server'.st = server.st \/ server.turn[a] = 0,
         a \in pool'.attached /\ server'.st = "up" => a \in server'.loaded,
         pc'[a] \in {"resume", "turn"} => Top(a).kind = "send" /\ agent'[a].sid,
         pc'[a] = "thread" => ~agent'[a].sid,
         Top(a).kind = "spawn" => ~agent'[a].sid,
         agent[a].sid => agent'[a].sid, agent'[a].stops = agent[a].stops, agent'[a].life # "unborn",
         ~agent'[a].sid => ~agent'[a].turn,
         a \in known' <=> a \in known,
         \A m \in Messages : fate'[m] # fate[m] => m = Top(a).msg /\ fate'[m] = "taken",
         agent'[a].sid => fate'[Top(a).msg] = "taken",
         agent'[a].sid /\ a \in known =>
           agent'[a].turn \/ (agent'[a].logError /\ agent'[a].life \in {"failed", "stopped"}),
         a \in known /\ agent'[a].turn => agent'[a].life \in {"alive", "failed", "stopped"},
         a \in known /\ Given(a) => agent'[a].logError /\ saved'[a].life \notin {"unborn", "hibernated"}
  PROVE  IInv'
<1>0. /\ Right(a) /\ server.turn[a] \in Messages \cup {0} /\ 0 \notin Messages
      /\ "completed" \in Says /\ "completed" # "accepted" /\ "started" # "accepted"
  BY DEF IInv, Typed, ServerType, Messages, Says
<1>1. /\ 1 \in Places(a) /\ Msg(a, 1) = Top(a).msg /\ Top(a) = queue[a][1]
      /\ Top(a).msg \in Messages \cup {0}
      /\ \A i \in Places(a) : Msg(a, i) \in Messages \cup {0}
  <2>1. \A i \in Places(a) : queue[a][i] \in TaskType
    <3> HIDE DEF TaskType
    <3> QED BY DEF Typed, Places
  <2> QED BY <2>1, TopIs DEF Places, Msg, Top, TaskType
<1>2. /\ Places(a)' = Places(a) /\ Top(a)' = Top(a) /\ Busy(a)' = Busy(a)
      /\ \A i \in Places(a) : Msg(a, i)' = Msg(a, i)
  BY DEF Places, Top, Busy, Msg
<1>3. Top(a).kind = "send" => Top(a).msg # 0
  BY <1>0, <1>1 DEF Right, TasksRight
<1>4. \A i \in Places(a) : Msg(a, i) # 0 => Msg(a, i) # server.turn[a]
  BY <1>0 DEF Right, MessagesRight
<1>5. server.turn[a] # 0 => fate'[server.turn[a]] = fate[server.turn[a]]
  BY <1>0, <1>1, <1>4
<1>6. Runs(a)' <=> server'.st = "up" /\ pc'[a] = "turn"
  BY <1>0 DEF Runs
<1>7. InTurn(a)' <=> agent'[a].sid
  BY DEF InTurn
<1>8. ~agent'[a].sid => server.turn[a] = 0 /\ server'.turn[a] = 0
  BY <1>0 DEF Right, TasksRight
<1>9. Given(a)' => Given(a)
  BY <1>5 DEF Given
<1>10. TasksRight(a)'
  BY <1>0, <1>1, <1>2, <1>8 DEF Right, TasksRight
<1>11. MessagesRight(a)'
  <2>1. ASSUME NEW i \in Places(a), Msg(a, i) # 0
        PROVE  /\ fate'[Msg(a, i)] # "new"
               /\ queue[a][i].stops <= agent'[a].stops
               /\ fate'[Msg(a, i)] = "overtaken" => queue[a][i].stops < agent'[a].stops
               /\ \A j \in Places(a) : Msg(a, j) = Msg(a, i) => i = j
               /\ Msg(a, i) = server'.turn[a] => i = 1 /\ pc'[a] = "turn"
    <3>1. /\ fate[Msg(a, i)] # "new" /\ queue[a][i].stops <= agent[a].stops
          /\ fate[Msg(a, i)] = "overtaken" => queue[a][i].stops < agent[a].stops
          /\ \A j \in Places(a) : Msg(a, j) = Msg(a, i) => i = j
      BY <1>0, <2>1 DEF Right, MessagesRight
    <3>2. fate'[Msg(a, i)] = fate[Msg(a, i)] \/ fate'[Msg(a, i)] = "taken"
      BY <1>1, <2>1
    <3>3. Msg(a, i) = server'.turn[a] => i = 1 /\ pc'[a] = "turn"
      BY <1>1, <1>4, <2>1, <3>1
    <3> QED BY <3>1, <3>2, <3>3
  <2>2. server'.turn[a] # 0 => fate'[server'.turn[a]] # "new"
    <3>1. CASE server'.turn[a] = Top(a).msg
      BY <1>1, <2>1, <3>1
    <3>2. CASE server'.turn[a] = server.turn[a]
      BY <1>0, <1>5, <3>2 DEF Right, MessagesRight
    <3> QED BY <3>1, <3>2
  <2> QED BY <1>2, <1>7, <2>1, <2>2 DEF MessagesRight
<1>12. ServerRight(a)'
  <2>1. server'.st \in {"none", "init"} => server'.turn[a] = 0
    BY <1>0 DEF Right, ServerRight
  <2>2. Runs(a)' => server'.turn[a] # 0
    BY <1>3, <1>6
  <2>3. "started" \in server'.left[a] => Runs(a)'
    BY <1>0, <1>6
  <2> QED BY <1>2, <1>6, <2>1, <2>2, <2>3 DEF ServerRight
<1>13. WorkRight(a)'
  <2>1. Watched(a)' /\ Runs(a)' => agent'[a].turn /\ fate'[server'.turn[a]] = "taken" /\ pc'[a] = "turn"
    BY <1>6 DEF Watched
  <2>2. Watched(a)' => (a \in known' /\ ~agent'[a].logError)
    BY DEF Watched
  <2>3. a \in known' /\ Given(a)' => agent'[a].logError /\ saved'[a].life \notin {"unborn", "hibernated"}
    BY <1>9
  <2>4. a \in known' /\ Given(a)' => agent'[a].turn \/ (agent'[a].logError /\ agent'[a].life \in {"failed", "stopped"})
    BY <1>8, <1>9 DEF Given
  <2>5. Watched(a)' /\ agent'[a].turn => InTurn(a)' /\ fate'[Top(a)'.msg] = "taken"
    BY <1>2, <1>7
  <2>6. InTurn(a)' /\ a \in known' =>
          agent'[a].turn \/ (agent'[a].logError /\ agent'[a].life \in {"failed", "stopped"})
    BY <1>7
  <2>7. a \in known' /\ agent'[a].turn => agent'[a].life \in {"alive", "failed", "stopped"}
    OBVIOUS
  <2> QED BY <1>6, <2>1, <2>2, <2>3, <2>4, <2>5, <2>6, <2>7 DEF WorkRight
<1>14. Right(a)'
  BY <1>10, <1>11, <1>12, <1>13 DEF Right
<1>15. \A m \in Own(a)' : m \in Own(a)
  <2>1. \A m \in Own(a)' : m = server'.turn[a] \/ \E i \in Places(a) : m = Msg(a, i)
    BY <1>2 DEF Own
  <2>2. server'.turn[a] \in {Top(a).msg, server.turn[a]}
    OBVIOUS
  <2> QED BY <1>1, <2>1, <2>2 DEF Own
<1>16. \A m \in Messages : fate'[m] = fate[m] \/ m \in Own(a)
  BY <1>1 DEF Own
<1>17. \A m \in Messages : fate[m] = "dropped" \/ fate'[m] # "dropped"
  OBVIOUS
<1> QED BY <1>14, <1>15, <1>16, <1>17, LocalStep

\* What Call and Ensure leave of the app-server and the awaits.
Moves(a) ==
  /\ reply'[a] = "none" /\ pc'[a] \in {"ensure", "thread", "resume", "turn"}
  /\ pc'[a] = "ensure" => server'.st = "init"
  /\ pc'[a] # "ensure" => server'.st \in {"up", "gone"}
  /\ server'.st = "up" => server'.left[a] = IF pc'[a] = "turn" THEN Says ELSE {"accepted"}
  /\ server'.st # "up" => server'.left[a] = {}
  /\ server'.turn[a] = IF server'.st = "up" /\ pc'[a] = "turn" THEN Top(a).msg ELSE server.turn[a]
  /\ server'.st = server.st \/ (server.turn[a] = 0 /\ server.st = "none" /\ server'.st = "init")
  /\ server.st = "up" => server'.loaded = server.loaded
  /\ \A b \in Agents \ {a} : /\ pc'[b] = pc[b] /\ reply'[b] = reply[b]
                             /\ server'.left[b] = server.left[b] /\ server'.turn[b] = server.turn[b]

LEMMA CallMoves ==
  ASSUME Typed, IInv, NEW a \in Agents, Busy(a), NEW op \in {"thread", "resume", "turn"}, Call(a, op),
         server.st \in {"up", "gone"}
  PROVE  Moves(a) /\ pc'[a] = op
<1>1. /\ pc' = [pc EXCEPT ![a] = op] /\ reply' = [reply EXCEPT ![a] = "none"]
      /\ server'.st = server.st /\ server'.loaded = server.loaded
      /\ \A b \in Agents \ {a} : server'.left[b] = server.left[b] /\ server'.turn[b] = server.turn[b]
      /\ server.st # "up" => server' = server
      /\ server.st = "up" /\ op # "turn" => server'.left[a] = {"accepted"} /\ server'.turn[a] = server.turn[a]
      /\ server.st = "up" /\ op = "turn" => server'.left[a] = Says /\ server'.turn[a] = Top(a).msg
  BY CallIs
<1>2. server.st # "up" => server.left[a] = {}
  BY DEF IInv, Right, ServerRight
<1>3. pc \in [Agents -> Stages] /\ reply \in [Agents -> {"none", "yes", "no"}]
  BY DEF Typed
<1>4. pc'[a] = op /\ reply'[a] = "none" /\ \A b \in Agents \ {a} : pc'[b] = pc[b] /\ reply'[b] = reply[b]
  BY <1>1, <1>3
<1> QED BY <1>1, <1>2, <1>4 DEF Moves

LEMMA EnsureMoves ==
  ASSUME Typed, IInv, NEW a \in Agents, Busy(a), NEW r \in AgentType, Ensure(a, r)
  PROVE  /\ Moves(a) /\ pool'.attached = pool.attached
         /\ pc'[a] # "ensure" => pc'[a] = Op(a, r, pool.attached)
<1>0. /\ pool \in PoolType /\ server \in ServerType /\ Linked(pool, server)
      /\ pc \in [Agents -> Stages] /\ reply \in [Agents -> {"none", "yes", "no"}]
  BY DEF Typed
<1>1. CASE pool.st = "up" /\ Call(a, Op(a, r, pool.attached))
  <2> DEFINE op == Op(a, r, pool.attached)
  <2>1. op \in {"thread", "resume", "turn"}
    BY DEF Op
  <2>2. server.st \in {"up", "gone"}
    BY <1>0, <1>1 DEF Linked, ServerType
  <2>3. Call(a, op)
    BY <1>1
  <2> HIDE DEF op
  <2>4. Moves(a) /\ pc'[a] = op
    BY <2>1, <2>2, <2>3, CallMoves
  <2> QED BY <2>4, EnsureIs DEF op
<1>2. CASE pool.st # "up"
  <2>1. /\ pc' = [pc EXCEPT ![a] = pc'[a]] /\ reply' = [reply EXCEPT ![a] = "none"] /\ pc'[a] = "ensure"
        /\ pool'.attached = pool.attached
        /\ \/ /\ server.st = "none" /\ server'.st = "init"
              /\ \A b \in Agents : server'.left[b] = {} /\ server'.turn[b] = 0
           \/ pool.st = "starting" /\ server' = server
    BY <1>2, EnsureIs
  <2>2. reply'[a] = "none" /\ \A b \in Agents \ {a} : pc'[b] = pc[b] /\ reply'[b] = reply[b]
    BY <1>0, <2>1
  <2>3. pool.st = "starting" => server.st = "init"
    BY <1>0 DEF Linked, ServerType
  <2>4. \A b \in Agents : /\ server.st # "up" => server.left[b] = {}
                          /\ server.st \in {"none", "init"} => server.turn[b] = 0
    BY DEF IInv, Right, ServerRight
  <2>5. /\ server.st \in {"none", "init"} /\ server'.st = "init"
        /\ \A b \in Agents : /\ server'.left[b] = {} /\ server'.turn[b] = 0
                             /\ server.left[b] = {} /\ server.turn[b] = 0
    BY <2>1, <2>3, <2>4
  <2> QED BY <2>1, <2>2, <2>5 DEF Moves
<1> QED BY <1>1, <1>2, EnsureIs

LEMMA StartThreadStep ==
  ASSUME Typed, IInv, NEW a \in Agents, Busy(a), pc[a] = "idle", Top(a).kind \in {"spawn", "send"},
         ~agent[a].sid, StartThread(a), phase' = phase
  PROVE  IInv'
<1> DEFINE r == [agent[a] EXCEPT !.life = "starting"]
<1>0. /\ Right(a) /\ agent[a] \in AgentType /\ agent \in [Agents -> AgentType]
  BY DEF IInv, Typed
<1>1. agent' = [agent EXCEPT ![a] = r] /\ Ensure(a, r) /\ UNCHANGED <<known, queue, saved, fate>>
  BY DEF StartThread
<1>2. r \in AgentType /\ r.life = "starting" /\ ~r.sid /\ r.turn = agent[a].turn /\ r.stops = agent[a].stops
  BY <1>0 DEF AgentType, Lives
<1>3. Op(a, r, pool.attached) = "thread"
  BY <1>2 DEF Op
<1> HIDE DEF r
<1>4. agent'[a] = r /\ \A b \in Agents \ {a} : agent'[b] = agent[b]
  BY <1>0, <1>1, <1>2
<1>5. /\ Moves(a) /\ pool'.attached = pool.attached /\ pc'[a] \in {"ensure", "thread"}
  BY <1>1, <1>2, <1>3, EnsureMoves DEF Moves
<1>6. World /\ \A b \in Agents \ {a} : Same(b)
  BY <1>1, <1>4, <1>5 DEF World, Same, Moves
<1>7. ~agent[a].turn /\ server.turn[a] = 0
  BY <1>0 DEF Right, TasksRight
<1>8. a \in pool'.attached /\ server'.st = "up" => a \in server'.loaded
  BY <1>0, <1>5 DEF Right, ServerRight, Moves
<1> QED BY <1>1, <1>2, <1>4, <1>5, <1>6, <1>7, <1>8, CallStep DEF Moves, Given

LEMMA EnsuredStep ==
  ASSUME Typed, IInv, NEW a \in Agents, Ensured(a) \/ Resumed(a)
  PROVE  IInv'
<1> DEFINE op == IF Ensured(a) THEN Op(a, agent[a], pool.attached) ELSE "turn"
<1>0. /\ Right(a) /\ ClosedDown
  BY DEF IInv
<1>1. /\ pc[a] \in {"ensure", "resume"} /\ reply[a] = "yes" /\ Call(a, op)
      /\ UNCHANGED <<known, agent, queue, phase, saved, fate>>
      /\ pool'.attached \in {pool.attached, pool.attached \cup {a}}
      /\ pool' # pool => pc[a] = "resume"
      /\ pc[a] = "resume" => op = "turn"
      /\ pc[a] = "ensure" => op = Op(a, agent[a], pool.attached)
  BY AttachIs DEF Ensured, Resumed, hist
<1>2. op \in {"thread", "resume", "turn"}
  BY DEF Op
<1>3. Busy(a) /\ server.st \in {"up", "gone"} /\ phase # "closed"
  BY <1>0, <1>1 DEF Typed, HeadAwaits, Right, ServerRight, ClosedDown
<1> HIDE DEF op
<1>4. Moves(a) /\ pc'[a] = op
  BY <1>1, <1>2, <1>3, CallMoves
<1>5. World /\ \A b \in Agents \ {a} : Same(b)
  BY <1>1, <1>4 DEF World, Same, Moves
<1>6. /\ Top(a).kind \in {"spawn", "send"} /\ (pc[a] = "resume" => Top(a).kind = "send" /\ agent[a].sid)
      /\ Top(a).kind = "spawn" => ~agent[a].sid
      /\ ~agent[a].sid => ~agent[a].turn
      /\ agent[a].life # "unborn"
  BY <1>0, <1>1, <1>3 DEF Right, TasksRight
<1>7. agent[a].sid => InTurn(a) /\ fate[Top(a).msg] = "taken"
  BY <1>0, <1>1 DEF Right, MessagesRight, InTurn
<1>8. /\ op = "thread" => ~agent[a].sid
      /\ op \in {"resume", "turn"} => agent[a].sid
  BY <1>1, <1>6 DEF Op
<1>9. /\ agent[a].sid /\ a \in known =>
           agent[a].turn \/ (agent[a].logError /\ agent[a].life \in {"failed", "stopped"})
      /\ a \in known /\ agent[a].turn => agent[a].life \in {"alive", "failed", "stopped"}
      /\ a \in known /\ Given(a) => agent[a].logError /\ saved[a].life \notin {"unborn", "hibernated"}
  <2>1. Given(a) => agent[a].sid
    BY <1>0 DEF Right, TasksRight, Given
  <2> QED BY <1>0, <1>1, <1>3, <1>7, <2>1 DEF Right, WorkRight
<1>10. a \in pool'.attached /\ server'.st = "up" => a \in server'.loaded
  BY <1>0, <1>1, <1>4 DEF Right, ServerRight, Moves
<1> QED BY <1>1, <1>2, <1>3, <1>4, <1>5, <1>6, <1>7, <1>8, <1>9, <1>10, CallStep DEF Moves

\* A message that was taken: recorded, and its turn claimed.
LEMMA TakeStep ==
  ASSUME Typed, IInv, NEW a \in Agents, Busy(a), Top(a).kind = "send", ~Refused(a),
         pc[a] \in {"idle", "thread"}, ~agent[a].turn, phase' = phase,
         NEW r \in AgentType, r.sid, r.stops = agent[a].stops, r.logError = agent[a].logError,
         NEW s \in SavedType, \A b \in known \ {a} : s[b].life \in {saved[b].life, agent[b].life},
         Given(a) => s = saved,
         Take(a, r, s), Moves(a), pc'[a] # "thread",
         pool'.attached \in {pool.attached, pool.attached \cup {a}},
         server.st = "up" /\ a \in pool'.attached => a \in server.loaded
  PROVE  IInv'
<1>0. /\ Right(a) /\ agent[a] \in AgentType /\ agent \in [Agents -> AgentType]
      /\ fate \in FateType /\ queue \in [Agents -> Seq(TaskType)]
  BY DEF IInv, Typed
<1>1. /\ known' = known /\ queue' = queue
      /\ agent'[a].turn /\ agent'[a].life = "alive" /\ agent'[a].sid
      /\ agent'[a].stops = agent[a].stops /\ (agent[a].logError => agent'[a].logError)
      /\ \A b \in known \ {a} : saved'[b].life \in {s[b].life, agent[b].life}
      /\ a \in known => saved'[a].life \in {s[a].life, "failed"}
      /\ agent' = [agent EXCEPT ![a] = agent'[a]]
  BY TakeIs
<1>2. \A b \in Agents \ {a} : agent'[b] = agent[b]
  BY <1>0, <1>1
<1>3. /\ 1 \in Places(a) /\ Msg(a, 1) = Top(a).msg /\ Top(a) = queue[a][1] /\ Top(a) \in TaskType
  BY TopIs DEF Places, Msg, Top
<1>4. Top(a).msg # 0 /\ Top(a).msg \in Messages
  BY <1>0, <1>3 DEF Right, TasksRight, TaskType
<1>5. fate[Top(a).msg] # "overtaken"
  <2>1. Top(a).stops = agent[a].stops /\ Top(a).stops \in Nat
    BY <1>3 DEF Refused, StoppedSince, TaskType
  <2> QED BY <1>0, <1>3, <1>4, <2>1 DEF Right, MessagesRight
<1>6. /\ \A m \in Messages : fate'[m] # fate[m] => m = Top(a).msg /\ fate'[m] = "taken"
      /\ fate'[Top(a).msg] = "taken"
  BY <1>4, <1>5 DEF Take, Become
<1>7. World /\ \A b \in Agents \ {a} : Same(b)
  BY <1>1, <1>2 DEF World, Same, Moves
<1>8. a \in known /\ Given(a) => agent[a].logError /\ saved[a].life \notin {"unborn", "hibernated"}
  BY <1>0 DEF Right, WorkRight
<1>9. a \in known /\ Given(a) => agent'[a].logError /\ saved'[a].life \notin {"unborn", "hibernated"}
  BY <1>1, <1>8
<1>10. a \in pool'.attached /\ server'.st = "up" => a \in server'.loaded
  BY DEF Moves
<1> QED BY <1>1, <1>4, <1>6, <1>7, <1>9, <1>10, CallStep DEF Moves

LEMMA SendStep ==
  ASSUME Typed, IInv, NEW a \in Agents, RunSend(a)
  PROVE  IInv'
<1>0. /\ Right(a) /\ agent[a] \in AgentType /\ saved \in SavedType
  BY DEF IInv, Typed
<1>1. Busy(a) /\ Top(a).kind = "send" /\ pc[a] = "idle" /\ phase' = phase
  BY DEF RunSend, At
<1>2. CASE Refuse(a)
  BY <1>2, Refuses
<1>3. CASE ~agent[a].sid /\ StartThread(a)
  BY <1>1, <1>3, StartThreadStep
<1>4. CASE /\ ~Refused(a) /\ ~agent[a].turn /\ agent[a].sid
           /\ Take(a, agent[a], saved) /\ Ensure(a, agent[a])
  <2>1. Moves(a) /\ pool'.attached = pool.attached /\ (pc'[a] # "ensure" => pc'[a] = Op(a, agent[a], pool.attached))
    BY <1>0, <1>1, <1>4, EnsureMoves
  <2>2. pc'[a] # "thread"
    BY <1>4, <2>1 DEF Op
  <2>3. server.st = "up" /\ a \in pool'.attached => a \in server.loaded
    BY <1>0, <2>1 DEF Right, ServerRight
  <2> QED BY <1>0, <1>1, <1>4, <2>1, <2>2, <2>3, TakeStep
<1> QED BY <1>2, <1>3, <1>4 DEF RunSend

LEMMA StartedStep ==
  ASSUME Typed, IInv, NEW a \in Agents, ThreadStarted(a)
  PROVE  IInv'
<1> DEFINE r == [agent[a] EXCEPT !.sid = TRUE, !.life = "alive"]
           f == [agent EXCEPT ![a] = r]
           s == Saves(known, f)
<1>0. /\ Right(a) /\ agent[a] \in AgentType /\ agent \in [Agents -> AgentType] /\ known \in SUBSET Agents
  BY DEF IInv, Typed
<1>1. CASE Top(a).kind = "spawn" \/ Refused(a)
  BY <1>1, StartsThread
<1>2. CASE Top(a).kind # "spawn" /\ ~Refused(a)
  <2>1. /\ pc[a] = "thread" /\ reply[a] = "yes" /\ Busy(a) /\ Top(a).kind = "send"
        /\ Take(a, r, s) /\ Call(a, "turn") /\ pool' = Attach(a) /\ phase' = phase
    BY <1>2 DEF ThreadStarted, Typed, HeadAwaits
  <2>2. r \in AgentType /\ r.sid /\ r.stops = agent[a].stops /\ r.logError = agent[a].logError
    BY <1>0 DEF AgentType, Lives
  <2> HIDE DEF r
  <2>3. f \in [Agents -> AgentType] /\ \A b \in Agents \ {a} : f[b] = agent[b]
    BY <1>0, <2>2
  <2> HIDE DEF f
  <2>4. s \in SavedType /\ \A b \in known : s[b].life = f[b].life
    BY <1>0, <2>3, SavesIs
  <2> HIDE DEF s
  <2>5. \A b \in known \ {a} : s[b].life \in {saved[b].life, agent[b].life}
    BY <1>0, <2>3, <2>4
  <2>6. ~agent[a].turn /\ ~Given(a)
    BY <1>0, <2>1 DEF Right, TasksRight, Given
  <2>7. /\ server.st \in {"up", "gone"} /\ (server.st = "up" => a \in server.loaded)
    BY <1>0, <2>1 DEF Right, ServerRight
  <2>8. Moves(a) /\ pc'[a] = "turn"
    BY <2>1, <2>7, CallMoves
  <2>9. pool'.attached = pool.attached \cup {a}
    BY <2>1, AttachIs
  <2> QED BY <2>1, <1>2, <2>2, <2>4, <2>5, <2>6, <2>7, <2>8, <2>9, TakeStep
<1> QED BY <1>1, <1>2

\* The tasks and what they go on with.
LEMMA GoStep ==
  ASSUME Typed, IInv, NEW a \in Agents, Go(a)
  PROVE  IInv'
<1>1. CASE RunSpawn(a)
  <2>1. CASE agent[a].sid
    BY <1>1, <2>1, SpawnAgain
  <2>2. CASE ~agent[a].sid
    BY <1>1, <2>2, StartThreadStep DEF RunSpawn, At
  <2> QED BY <2>1, <2>2
<1> QED BY <1>1, SendStep, EnsuredStep, StartedStep, AcceptedStep, FailedStep, IdleTasks DEF Go

-----------------------------------------------------------------------------
(***************************************************************************)
(* What the app-server says.                                               *)
(***************************************************************************)
\* The tasks and messages of an agent, when nothing but its turn ends.
LEMMA Quietly ==
  ASSUME Typed, NEW a \in Agents, Right(a),
         UNCHANGED <<known, queue, pc, phase>>, agent'[a].sid = agent[a].sid,
         agent'[a].stops = agent[a].stops, agent[a].life # "unborn", agent'[a].life # "unborn",
         agent'[a].turn => agent[a].turn,
         server'.turn = server.turn,
         \A m \in Messages : fate'[m] # fate[m] =>
           m = server.turn[a] /\ fate'[m] = "done" /\ pc[a] \notin {"ensure", "resume"}
  PROVE  TasksRight(a)' /\ MessagesRight(a)'
<1>0. server.turn[a] \in Messages \cup {0} /\ queue[a] \in Seq(TaskType)
  BY DEF Typed, ServerType
<1>1. /\ Places(a)' = Places(a) /\ Top(a)' = Top(a) /\ Busy(a)' = Busy(a) /\ InTurn(a)' = InTurn(a)
      /\ \A i \in Places(a) : Msg(a, i)' = Msg(a, i)
  BY DEF Places, Top, Busy, Msg, InTurn
<1>2. \A i \in Places(a) : Msg(a, i) \in Messages \cup {0}
  <2>1. \A i \in Places(a) : queue[a][i] \in TaskType
    <3> HIDE DEF TaskType
    <3> QED BY <1>0 DEF Places
  <2> QED BY <2>1 DEF Msg, TaskType
<1>3. TasksRight(a)'
  BY <1>1 DEF Right, TasksRight
<1>4. InTurn(a) => Top(a).msg \in Messages
  BY HeadIs
<1>5. /\ InTurn(a) => fate'[Top(a).msg] \in {"taken", "done"}
      /\ InTurn(a) /\ pc[a] # "turn" => fate'[Top(a).msg] = "taken"
  BY <1>4 DEF Right, MessagesRight, InTurn
<1>6. server.turn[a] # 0 => fate'[server.turn[a]] # "new"
  BY <1>0 DEF Right, MessagesRight
<1>7. ASSUME NEW i \in Places(a), Msg(a, i) # 0
      PROVE  /\ fate'[Msg(a, i)] # "new"
             /\ queue[a][i].stops <= agent'[a].stops
             /\ fate'[Msg(a, i)] = "overtaken" => queue[a][i].stops < agent'[a].stops
             /\ \A j \in Places(a) : Msg(a, j) = Msg(a, i) => i = j
             /\ Msg(a, i) = server.turn[a] => i = 1 /\ pc[a] = "turn"
  <2>1. fate'[Msg(a, i)] = fate[Msg(a, i)] \/ fate'[Msg(a, i)] = "done"
    BY <1>2, <1>7
  <2> QED BY <1>7, <2>1 DEF Right, MessagesRight
<1>8. MessagesRight(a)'
  BY <1>1, <1>5, <1>6, <1>7 DEF MessagesRight
<1> QED BY <1>3, <1>8

LEMMA AnswerStep ==
  ASSUME Typed, IInv, NEW a \in Agents, OnAnswer(a)
  PROVE  IInv'
<1>0. Right(a) /\ pc[a] \in {"thread", "resume", "turn"} /\ reply[a] = "none"
  BY OnAnswerIs DEF IInv, Typed, AnswerDue
<1>1. /\ UNCHANGED <<known, agent, queue, pc, pool, phase, saved, fate>>
      /\ server.st = "up" /\ server'.st = "up" /\ server'.turn = server.turn
      /\ \A b \in Agents \ {a} : server'.left[b] = server.left[b] /\ reply'[b] = reply[b]
      /\ \/ /\ reply'[a] = "yes" /\ server'.left[a] = server.left[a] \ {"accepted"}
            /\ server'.loaded = server.loaded \cup {a}
         \/ /\ reply'[a] = "no" /\ server'.left[a] = {} /\ server'.loaded = server.loaded
            /\ server.left[a] = IF pc[a] = "turn" THEN Says ELSE {"accepted"}
  BY OnAnswerIs
<1>2. agent[a].life # "unborn"
  BY <1>0 DEF Right, TasksRight, Typed, HeadAwaits
<1>3. TasksRight(a)' /\ MessagesRight(a)'
  BY <1>0, <1>1, <1>2, Quietly
<1>4. Top(a)' = Top(a) /\ InTurn(a)' = InTurn(a) /\ Watched(a)' = Watched(a) /\ Given(a)' = Given(a)
  BY <1>1 DEF Top, InTurn, Watched, Given
<1>5. ASSUME reply'[a] = "yes", server'.left[a] = server.left[a] \ {"accepted"},
             server'.loaded = server.loaded \cup {a}
      PROVE  Right(a)'
  <2>1. Runs(a)' = Runs(a) /\ ("started" \in server'.left[a] <=> "started" \in server.left[a])
    BY <1>5 DEF Runs
  <2>2. ServerRight(a)'
    BY <1>0, <1>1, <1>4, <1>5, <2>1 DEF Right, ServerRight
  <2>3. WorkRight(a)'
    BY <1>0, <1>1, <1>4, <1>5, <2>1 DEF Right, WorkRight
  <2> QED BY <1>3, <2>2, <2>3 DEF Right
<1>6. ASSUME reply'[a] = "no", server'.left[a] = {}, server'.loaded = server.loaded,
             server.left[a] = IF pc[a] = "turn" THEN Says ELSE {"accepted"}
      PROVE  Right(a)'
  <2>1. ~Runs(a)' /\ (Runs(a) => pc[a] = "turn")
    BY <1>6 DEF Runs
  <2>2. ServerRight(a)'
    BY <1>0, <1>1, <1>4, <1>6, <2>1 DEF Right, ServerRight
  <2>3. Watched(a) /\ Runs(a) => InTurn(a) /\ fate[Top(a).msg] = "taken"
    BY <1>0, <1>1, <2>1 DEF Right, TasksRight, ServerRight, WorkRight, InTurn
  <2>4. WorkRight(a)'
    BY <1>0, <1>1, <1>4, <1>6, <2>1, <2>3 DEF Right, WorkRight
  <2> QED BY <1>3, <2>2, <2>4 DEF Right
<1>7. Right(a)'
  BY <1>1, <1>5, <1>6
<1>8. World /\ \A b \in Agents \ {a} : Same(b)
  BY <1>1 DEF World, Same
<1>9. \A m \in Own(a)' : m \in Own(a)
  BY <1>1 DEF Own, Msg, Places
<1>10. \A m \in Messages : fate[m] = "dropped" \/ fate'[m] # "dropped"
  BY <1>1 DEF IInv, AnsweredNotDropped
<1> QED BY <1>1, <1>7, <1>8, <1>9, <1>10, LocalStep

LEMMA NotificationStep ==
  ASSUME Typed, IInv, NEW a \in Agents, NEW says \in Says, OnNotification(a, says)
  PROVE  IInv'
<1>0. /\ Right(a) /\ server.turn[a] \in Messages \cup {0} /\ server \in ServerType
      /\ agent \in [Agents -> AgentType] /\ saved \in SavedType
  BY DEF IInv, Typed, ServerType
<1>1. /\ UNCHANGED <<known, queue, pc, reply, pool, phase>>
      /\ server.st = "up" /\ phase # "closed" /\ says \in {"started", "completed"} /\ says \in server.left[a]
      /\ says = "completed" => "started" \notin server.left[a]
      /\ server'.st = "up" /\ server'.turn = server.turn /\ server'.loaded = server.loaded
      /\ server'.left = [server.left EXCEPT ![a] = server.left[a] \ {says}]
      /\ agent' = [agent EXCEPT ![a] = agent'[a]]
      /\ agent'[a].sid = agent[a].sid /\ agent'[a].stops = agent[a].stops
  BY OnNotificationIs
<1>2. /\ server'.left[a] = server.left[a] \ {says}
      /\ \A b \in Agents \ {a} : server'.left[b] = server.left[b] /\ agent'[b] = agent[b]
  BY <1>0, <1>1 DEF ServerType
<1>3. Runs(a) /\ server.turn[a] # 0 /\ agent[a].sid /\ agent[a].life # "unborn"
  BY <1>0, <1>1 DEF Right, ServerRight, TasksRight, Runs
<1>4. /\ Runs(a)' <=> says = "started"
      /\ Top(a)' = Top(a) /\ InTurn(a)' = InTurn(a)
  BY <1>1, <1>2, <1>3 DEF Runs, Top, InTurn
<1>5. ServerRight(a)'
  BY <1>0, <1>1, <1>2, <1>3, <1>4 DEF Right, ServerRight
<1>6. pc[a] = "turn" => server.turn[a] = Top(a).msg
  BY <1>0, <1>1 DEF Right, ServerRight, Typed
<1>7. World
  BY <1>1 DEF World
<1>8. \A m \in Own(a)' : m \in Own(a)
  BY <1>1 DEF Own, Msg, Places
<1>9. CASE /\ ~(Watched(a) /\ agent[a].sid) /\ agent' = agent /\ saved' = saved /\ fate' = fate
  <2>1. ~Watched(a) /\ ~Watched(a)' /\ Given(a)' = Given(a)
    BY <1>1, <1>3, <1>9 DEF Watched, Given
  <2>2. WorkRight(a)'
    BY <1>0, <1>1, <1>4, <1>9, <2>1 DEF Right, WorkRight
  <2>3. TasksRight(a)' /\ MessagesRight(a)'
    BY <1>0, <1>1, <1>3, <1>9, Quietly
  <2>4. Right(a)'
    BY <1>5, <2>2, <2>3 DEF Right
  <2>5. \A b \in Agents \ {a} : Same(b)
    BY <1>1, <1>2, <1>9 DEF Same
  <2>6. \A m \in Messages : fate[m] = "dropped" \/ fate'[m] # "dropped"
    BY <1>9 DEF IInv, AnsweredNotDropped
  <2> QED BY <1>7, <1>8, <1>9, <2>4, <2>5, <2>6, LocalStep
<1>10. CASE /\ Watched(a) /\ says = "started" /\ agent'[a].turn /\ agent'[a].life = agent[a].life
            /\ ~agent'[a].logError /\ saved' = saved /\ fate' = fate
  <2>1. agent[a].turn /\ ~agent[a].logError /\ Watched(a)' /\ Given(a)' = Given(a)
    BY <1>0, <1>1, <1>3, <1>10 DEF Right, WorkRight, Watched, Given
  <2>2. WorkRight(a)'
    BY <1>0, <1>1, <1>3, <1>4, <1>10, <2>1 DEF Right, WorkRight
  <2>3. TasksRight(a)' /\ MessagesRight(a)'
    BY <1>0, <1>1, <1>3, <1>10, <2>1, Quietly
  <2>4. Right(a)'
    BY <1>5, <2>2, <2>3 DEF Right
  <2>5. \A b \in Agents \ {a} : Same(b)
    BY <1>1, <1>2, <1>10 DEF Same
  <2>6. \A m \in Messages : fate[m] = "dropped" \/ fate'[m] # "dropped"
    BY <1>10 DEF IInv, AnsweredNotDropped
  <2> QED BY <1>7, <1>8, <1>10, <2>4, <2>5, <2>6, LocalStep
<1>11. CASE /\ Watched(a) /\ says = "completed" /\ ~agent'[a].turn /\ agent'[a].life = agent[a].life
            /\ saved' = saved
            /\ fate' = [m \in Messages |-> IF m = server.turn[a] THEN "done" ELSE fate[m]]
  <2>1. pc[a] \notin {"ensure", "thread", "resume"}
    BY <1>0, <1>3, <1>11 DEF Right, WorkRight
  <2>2. fate'[server.turn[a]] = "done" /\ \A m \in Messages : fate'[m] # fate[m] => m = server.turn[a] /\ fate'[m] = "done"
    BY <1>0, <1>3, <1>11
  <2>3. ~Given(a)' /\ (InTurn(a) => fate'[Top(a).msg] = "done")
    BY <1>1, <1>6, <2>1, <2>2 DEF Given, InTurn
  <2>4. WorkRight(a)'
    BY <1>4, <1>11, <2>3 DEF WorkRight
  <2>5. TasksRight(a)' /\ MessagesRight(a)'
    BY <1>0, <1>1, <1>3, <1>11, <2>1, <2>2, Quietly
  <2>6. Right(a)'
    BY <1>5, <2>4, <2>5 DEF Right
  <2>7. \A b \in Agents \ {a} : Same(b)
    BY <1>1, <1>2, <1>11 DEF Same
  <2>8. \A m \in Messages : fate[m] = "dropped" \/ fate'[m] # "dropped"
    BY <2>2
  <2>9. \A m \in Messages : fate'[m] = fate[m] \/ m \in Own(a)
    BY <2>2 DEF Own
  <2> QED BY <1>7, <1>8, <2>6, <2>7, <2>8, <2>9, LocalStep
<1>12. CASE /\ Watched(a) /\ ~agent'[a].turn /\ agent'[a].life = "failed" /\ agent'[a].logError
            /\ \A b \in known : saved'[b].life = agent'[b].life
            /\ fate' = fate
  <2>1. ~Watched(a)' /\ a \in known /\ Given(a)' = Given(a)
    BY <1>1, <1>12 DEF Watched, Given
  <2>2. WorkRight(a)'
    BY <1>12, <2>1 DEF WorkRight
  <2>3. TasksRight(a)' /\ MessagesRight(a)'
    BY <1>0, <1>1, <1>3, <1>12, Quietly
  <2>4. Right(a)'
    BY <1>5, <2>2, <2>3 DEF Right
  <2>5. \A b \in Agents \ {a} : Same(b)
    BY <1>1, <1>2, <1>12 DEF Same
  <2>6. \A m \in Messages : fate[m] = "dropped" \/ fate'[m] # "dropped"
    BY <1>12 DEF IInv, AnsweredNotDropped
  <2> QED BY <1>7, <1>8, <1>12, <2>4, <2>5, <2>6, LocalStep
<1> QED BY <1>9, <1>10, <1>11, <1>12, OnNotificationIs

-----------------------------------------------------------------------------
(***************************************************************************)
(* Steps of the whole host.                                                *)
(***************************************************************************)
LEMMA HostStep ==
  ASSUME IInv,
         \A b \in Agents : Right(b)' /\ \A m \in Own(b)' : m = 0 \/ m \in Own(b),
         ClosedDown', AnsweredNotDropped'
  PROVE  IInv'
<1>1. Apart'
  BY DEF IInv, Apart
<1> QED BY <1>1 DEF IInv

LEMMA PartStep ==
  ASSUME Typed, IInv, \A b \in Agents : Part(b), fate' = fate, server'.st = server.st,
         phase' = "closed" <=> phase = "closed"
  PROVE  IInv'
<1>1. \A b \in Agents : Right(b)
  BY DEF IInv
<1>2. \A b \in Agents : Right(b)' /\ \A m \in Own(b)' : m = 0 \/ m \in Own(b)
  BY <1>1, PartRight
<1>3. ClosedDown' /\ AnsweredNotDropped'
  BY DEF IInv, ClosedDown, AnsweredNotDropped
<1> QED BY <1>2, <1>3, HostStep

LEMMA DrainSteps ==
  ASSUME Typed, IInv, Drain \/ DrainCuts \/ DrainEnds \/ UNCHANGED vars
  PROVE  IInv'
<1>1. CASE Drain
  <2>1. /\ phase' = "wait" /\ phase = "serving"
        /\ UNCHANGED <<known, agent, queue, pc, reply, pool, server, saved, fate>>
    BY <1>1 DEF Drain, Draining, host, codex, hist
  <2>2. \A b \in Agents : Part(b)
    BY <2>1 DEF Part
  <2> QED BY <2>1, <2>2, PartStep
<1>2. CASE DrainCuts
  <2>1. \A b \in Agents : Part(b)
    BY <1>2, DrainCutsIs DEF Part
  <2>2. fate' = fate /\ server'.st = server.st /\ phase' # "closed" /\ phase # "closed"
    BY <1>2, DrainCutsIs
  <2> QED BY <2>1, <2>2, PartStep
<1>3. CASE DrainEnds
  <2>1. /\ phase' = "end" /\ phase \in {"wait", "wait2"}
        /\ queue' = [b \in Agents |-> IF b \in known THEN Append(queue[b], Simple("drain")) ELSE queue[b]]
        /\ UNCHANGED <<known, agent, pc, reply, pool, server, saved, fate>>
    BY <1>3 DEF DrainEnds, codex, hist
  <2> DEFINE t == Simple("drain")
  <2>2. t \in TaskType /\ t.kind \notin {"spawn", "send"} /\ t.msg = 0
    BY SimpleIs DEF Kinds
  <2>3. ASSUME NEW b \in Agents PROVE Part(b)
    <3>1. queue'[b] = queue[b] \/ (b \in known /\ queue'[b] = Append(queue[b], t))
      BY <2>1
    <3> HIDE DEF t
    <3>2. \/ queue'[b] = queue[b]
          \/ /\ b \in known
             /\ \E u \in TaskType : u.kind \notin {"spawn", "send"} /\ u.msg = 0 /\ queue'[b] = Append(queue[b], u)
      BY <2>2, <3>1
    <3> QED BY <2>1, <3>2 DEF Part
  <2> QED BY <2>1, <2>3, PartStep
<1>4. CASE UNCHANGED vars
  <2>1. UNCHANGED <<known, agent, queue, pc, reply, pool, server, phase, saved, fate>>
    BY <1>4 DEF vars, host, codex, hist
  <2>2. \A b \in Agents : Part(b)
    BY <2>1 DEF Part
  <2> QED BY <2>1, <2>2, PartStep
<1> QED BY <1>1, <1>2, <1>3, <1>4

\* At rest, no answer that was read is still to be acted on.
LEMMA QuietIs ==
  ASSUME Typed, Quiet, NEW b \in Agents
  PROVE  reply[b] = "none" /\ (pc[b] # "idle" => Busy(b))
<1>1. pc[b] # "idle" => Busy(b)
  BY DEF Typed, HeadAwaits
<1> QED BY <1>1 DEF Quiet, Ready, Typed

\* The tasks and messages of an agent, when the app-server comes or goes.
LEMMA Kept ==
  ASSUME Typed, IInv, NEW b \in Agents,
         queue' = queue, pc' = pc, agent'[b].sid = agent[b].sid, agent'[b].stops = agent[b].stops,
         agent'[b].turn => agent[b].turn, agent'[b].life = "unborn" => agent[b].life = "unborn",
         known' = known, agent[b].life = "unborn" => server'.left[b] = {},
         server'.turn[b] \in {0, server.turn[b]},
         \A m \in Messages : fate'[m] # fate[m] => fate[m] = "given" /\ fate'[m] \in {"told", "dropped"}
  PROVE  /\ TasksRight(b)' /\ MessagesRight(b)'
         /\ \A m \in Own(b)' : m = 0 \/ m \in Own(b)
         /\ InTurn(b)' = InTurn(b) /\ Top(b)' = Top(b) /\ (InTurn(b) => fate'[Top(b).msg] = fate[Top(b).msg])
<1>0. /\ Right(b) /\ server.turn[b] \in Messages \cup {0} /\ queue[b] \in Seq(TaskType)
  BY DEF IInv, Typed, ServerType
<1>1. /\ Places(b)' = Places(b) /\ Top(b)' = Top(b) /\ Busy(b)' = Busy(b) /\ InTurn(b)' = InTurn(b)
      /\ \A i \in Places(b) : Msg(b, i)' = Msg(b, i)
  BY DEF Places, Top, Busy, Msg, InTurn
<1>2. \A i \in Places(b) : Msg(b, i) \in Messages \cup {0}
  <2>1. \A i \in Places(b) : queue[b][i] \in TaskType
    <3> HIDE DEF TaskType
    <3> QED BY <1>0 DEF Places
  <2> QED BY <2>1 DEF Msg, TaskType
<1>3. TasksRight(b)'
  BY <1>0, <1>1 DEF Right, TasksRight
<1>4. InTurn(b) => /\ Top(b).msg \in Messages /\ fate'[Top(b).msg] = fate[Top(b).msg]
                   /\ Top(b).kind = "send"
  <2>1. InTurn(b) => Top(b).msg \in Messages /\ fate[Top(b).msg] # "given" /\ Top(b).kind = "send"
    BY <1>0, HeadIs DEF Right, MessagesRight
  <2> QED BY <2>1
<1>5. /\ InTurn(b) => fate'[Top(b).msg] \in {"taken", "done"}
      /\ InTurn(b) /\ pc[b] # "turn" => fate'[Top(b).msg] = "taken"
  BY <1>0, <1>4 DEF Right, MessagesRight
<1>6. server'.turn[b] # 0 => fate'[server'.turn[b]] # "new"
  BY <1>0 DEF Right, MessagesRight
<1>7. ASSUME NEW i \in Places(b), Msg(b, i) # 0
      PROVE  /\ fate'[Msg(b, i)] # "new"
             /\ queue[b][i].stops <= agent'[b].stops
             /\ fate'[Msg(b, i)] = "overtaken" => queue[b][i].stops < agent'[b].stops
             /\ \A j \in Places(b) : Msg(b, j) = Msg(b, i) => i = j
             /\ Msg(b, i) = server'.turn[b] => i = 1 /\ pc[b] = "turn"
  <2>1. fate'[Msg(b, i)] = fate[Msg(b, i)] \/ fate'[Msg(b, i)] \in {"told", "dropped"}
    BY <1>2, <1>7
  <2> QED BY <1>0, <1>7, <2>1 DEF Right, MessagesRight
<1>8. MessagesRight(b)'
  BY <1>1, <1>5, <1>6, <1>7 DEF MessagesRight
<1>9. \A m \in Own(b)' : m = 0 \/ m \in Own(b)
  BY <1>1 DEF Own
<1> QED BY <1>1, <1>3, <1>4, <1>8, <1>9

LEMMA InitializedStep ==
  ASSUME Typed, IInv, Initialized
  PROVE  IInv'
<1>1. /\ server.st = "init" /\ Quiet /\ phase # "closed"
      /\ server'.st = "up" /\ server'.left = server.left /\ server'.turn = server.turn
      /\ pool'.attached = {}
      /\ \A b \in Agents : reply'[b] = IF pc[b] = "ensure" THEN "yes" ELSE reply[b]
      /\ UNCHANGED <<known, agent, queue, pc, phase, saved, fate>>
  BY InitializedIs
<1>2. ASSUME NEW b \in Agents PROVE Right(b)' /\ \A m \in Own(b)' : m = 0 \/ m \in Own(b)
  <2>1. Right(b) /\ reply[b] = "none" /\ pc[b] \in Stages
    BY <1>1, QuietIs DEF IInv, Typed
  <2>2. pc[b] \in {"idle", "ensure"} /\ server.turn[b] = 0 /\ server.left[b] = {}
    BY <1>1, <2>1 DEF Right, ServerRight, Stages
  <2>3. /\ TasksRight(b)' /\ MessagesRight(b)'
        /\ \A m \in Own(b)' : m = 0 \/ m \in Own(b)
        /\ InTurn(b)' = InTurn(b) /\ Top(b)' = Top(b)
    BY <1>1, <2>2, Kept
  <2>4. ~Runs(b) /\ ~Runs(b)' /\ ~Given(b) /\ ~Given(b)' /\ Watched(b)' = Watched(b)
    BY <1>1, <2>2 DEF Runs, Given, Watched
  <2>5. ServerRight(b)'
    BY <1>1, <2>1, <2>2, <2>4 DEF ServerRight
  <2>6. WorkRight(b)'
    BY <1>1, <2>1, <2>2, <2>3, <2>4 DEF Right, WorkRight
  <2> QED BY <2>3, <2>5, <2>6 DEF Right
<1>3. ClosedDown' /\ AnsweredNotDropped'
  BY <1>1 DEF IInv, ClosedDown, AnsweredNotDropped
<1> QED BY <1>2, <1>3, HostStep

LEMMA InitializeFailsStep ==
  ASSUME Typed, IInv, InitializeFails
  PROVE  IInv'
<1>1. /\ server.st = "init" /\ Quiet /\ phase # "closed"
      /\ server' = NoServer
      /\ \A b \in Agents : reply'[b] = IF pc[b] = "ensure" THEN "no" ELSE reply[b]
      /\ UNCHANGED <<known, agent, queue, pc, phase, saved, fate>>
  BY InitializeFailsIs
<1>2. server'.st = "none" /\ \A b \in Agents : server'.left[b] = {} /\ server'.turn[b] = 0
  BY <1>1, NoServerIs
<1>3. ASSUME NEW b \in Agents PROVE Right(b)' /\ \A m \in Own(b)' : m = 0 \/ m \in Own(b)
  <2>1. Right(b) /\ reply[b] = "none" /\ pc[b] \in Stages
    BY <1>1, QuietIs DEF IInv, Typed
  <2>2. pc[b] \in {"idle", "ensure"} /\ server.turn[b] = 0 /\ server.left[b] = {}
    BY <1>1, <2>1 DEF Right, ServerRight, Stages
  <2>3. /\ TasksRight(b)' /\ MessagesRight(b)'
        /\ \A m \in Own(b)' : m = 0 \/ m \in Own(b)
        /\ InTurn(b)' = InTurn(b) /\ Top(b)' = Top(b)
    BY <1>1, <1>2, Kept
  <2>4. ~Runs(b) /\ ~Runs(b)' /\ ~Given(b) /\ ~Given(b)' /\ Watched(b)' = Watched(b)
    BY <1>1, <1>2, <2>2 DEF Runs, Given, Watched
  <2>5. ServerRight(b)'
    BY <1>1, <1>2, <2>1, <2>2, <2>4 DEF ServerRight
  <2>6. WorkRight(b)'
    BY <1>1, <1>2, <2>1, <2>2, <2>3, <2>4 DEF Right, WorkRight
  <2> QED BY <2>3, <2>5, <2>6 DEF Right
<1>4. ClosedDown' /\ AnsweredNotDropped'
  BY <1>1 DEF IInv, ClosedDown, AnsweredNotDropped
<1> QED BY <1>3, <1>4, HostStep

\* Lost counts a message dropped only where an agent hides that it is lost.
LEMMA LostTells ==
  ASSUME Typed, NEW f, NEW l, l = Lost(f), NEW m \in Messages
  PROVE  /\ l[m] # fate[m] => fate[m] = "given" /\ l[m] \in {"told", "dropped"}
         /\ l[m] = "dropped" => \/ fate[m] = "dropped"
                                \/ /\ fate[m] = "given"
                                   /\ \E a \in known : server.turn[a] = m /\ f[a].life \notin {"failed", "stopped"}
BY DEF Lost

LEMMA ExitStep ==
  ASSUME Typed, IInv, ServerExits \/ IdleReap
  PROVE  IInv'
<1>1. /\ Quiet /\ phase # "closed" /\ Over /\ server.st \in {"up", "gone"}
      /\ \A b \in Agents : agent'[b] = Exited(b, agent[b])
      /\ fate' = Lost(agent') /\ UNCHANGED <<known, queue, pc, phase>>
      /\ \A b \in known : saved'[b].life = agent'[b].life
  BY ExitIs
<1>2. /\ \A b \in Agents : reply'[b] = IF pc[b] \in {"thread", "resume", "turn"} THEN "no" ELSE reply[b]
      /\ server' = NoServer
  BY <1>1, OverIs
<1>3. server'.st = "none" /\ \A b \in Agents : server'.left[b] = {} /\ server'.turn[b] = 0
  BY <1>2, NoServerIs
<1>4. \A m \in Messages : fate'[m] # fate[m] => fate[m] = "given" /\ fate'[m] \in {"told", "dropped"}
  BY <1>1, LostTells
<1>5. ASSUME NEW b \in Agents
      PROVE  /\ agent'[b].sid = agent[b].sid /\ agent'[b].stops = agent[b].stops
             /\ agent'[b].logError = agent[b].logError
             /\ b \notin known => agent'[b] = agent[b]
             /\ b \in known => ~agent'[b].turn
             /\ b \in known /\ agent[b].turn => agent'[b].life = "failed"
             /\ b \in known /\ ~agent[b].turn =>
                  agent'[b].life = IF agent[b].life = "alive" THEN "hibernated" ELSE agent[b].life
    <2>1. agent[b] \in AgentType /\ agent'[b] = Exited(b, agent[b])
      BY <1>1 DEF Typed
    <2> QED BY <2>1, ExitedIs
<1>6. ASSUME NEW b \in Agents PROVE Right(b)' /\ \A m \in Own(b)' : m = 0 \/ m \in Own(b)
  <2>1. Right(b) /\ reply[b] = "none" /\ pc[b] \in Stages
    BY <1>1, QuietIs DEF IInv, Typed
  <2>2. pc[b] # "ensure"
    BY <1>1, <2>1 DEF Right, ServerRight
  <2>3. /\ agent'[b].turn => agent[b].turn
        /\ agent'[b].life = "unborn" => agent[b].life = "unborn"
    BY <1>5
  <2>4. /\ TasksRight(b)' /\ MessagesRight(b)'
        /\ \A m \in Own(b)' : m = 0 \/ m \in Own(b)
        /\ InTurn(b)' = InTurn(b) /\ Top(b)' = Top(b)
    BY <1>1, <1>3, <1>4, <1>5, <2>3, Kept
  <2>5. ~Runs(b)' /\ ~Given(b)'
    BY <1>3 DEF Runs, Given
  <2>6. ServerRight(b)'
    BY <1>1, <1>2, <1>3, <2>1, <2>2, <2>5 DEF ServerRight
  <2>7. InTurn(b)' => reply'[b] = "no"
    BY <1>2, <2>2, <2>4 DEF InTurn
  <2>8. b \in known' => ~agent'[b].turn
    BY <1>1, <1>5
  <2>9. WorkRight(b)'
    BY <2>5, <2>7, <2>8 DEF WorkRight, Watched
  <2> QED BY <2>4, <2>6, <2>9 DEF Right
<1>7. AnsweredNotDropped'
  <2> SUFFICES ASSUME NEW m \in Messages, fate'[m] = "dropped" PROVE FALSE
    BY DEF AnsweredNotDropped
  <2>1. fate[m] # "dropped"
    BY DEF IInv, AnsweredNotDropped
  <2>2. PICK a \in known : server.turn[a] = m /\ agent'[a].life \notin {"failed", "stopped"} /\ fate[m] = "given"
    BY <1>1, <2>1, LostTells
  <2>3. a \in Agents /\ m # 0
    BY DEF Typed, Messages
  <2>4. agent[a].turn \/ (agent[a].logError /\ agent[a].life \in {"failed", "stopped"})
    BY <2>2, <2>3 DEF IInv, Right, WorkRight, Given
  <2> QED BY <1>5, <2>2, <2>3, <2>4
<1>8. ClosedDown'
  BY <1>1 DEF ClosedDown
<1> QED BY <1>6, <1>7, <1>8, HostStep

LEMMA ClosedStep ==
  ASSUME Typed, IInv, Closed
  PROVE  IInv'
<1>1. /\ Quiet /\ phase' = "closed"
      /\ \A b \in Agents : agent'[b] = IF pool.st = "up" THEN Exited(b, Marks(b)) ELSE Marks(b)
      /\ pool.st = "up" => Over
      /\ pool.st # "up" => UNCHANGED <<reply, pool, server>>
      /\ fate' = Lost(agent') /\ UNCHANGED <<known, queue, pc>>
      /\ \A b \in known : saved'[b].life = agent'[b].life
  BY ClosedIs
<1>2. \A m \in Messages : fate'[m] # fate[m] => fate[m] = "given" /\ fate'[m] \in {"told", "dropped"}
  BY <1>1, LostTells
<1>3. /\ pool.st = "up" => server.st \in {"up", "gone"}
      /\ pool.st # "up" => server.st \in {"none", "init"}
  BY DEF Typed, Linked, ServerType
<1>4. ASSUME NEW b \in Agents
      PROVE  /\ agent'[b].sid = agent[b].sid /\ agent'[b].stops = agent[b].stops
             /\ agent'[b].turn => agent[b].turn
             /\ agent'[b].life = "unborn" => agent[b].life = "unborn"
             /\ b \in known /\ pool.st = "up" => ~agent'[b].turn
             /\ b \in known /\ agent'[b].turn => agent'[b].life = agent[b].life
             /\ b \in known /\ pool.st = "up" /\ (agent[b].turn \/ agent[b].life \in {"failed", "stopped"}) =>
                  agent'[b].life \in {"failed", "stopped"}
  <2> DEFINE x == Marks(b)
  <2>1. /\ x \in AgentType /\ x.sid = agent[b].sid /\ x.stops = agent[b].stops
        /\ b \notin known => x = agent[b]
        /\ agent[b].life # "alive" => x = agent[b]
        /\ b \in known /\ agent[b].life = "alive" => ~x.turn
        /\ b \in known /\ agent[b].life = "alive" /\ agent[b].turn => x.life = "stopped"
        /\ x.life = "unborn" => agent[b].life = "unborn"
    BY MarksIs
  <2>2. agent'[b] = IF pool.st = "up" THEN Exited(b, x) ELSE x
    BY <1>1
  <2> HIDE DEF x
  <2>3. CASE pool.st = "up"
    <3>1. agent'[b] = Exited(b, x)
      BY <2>2, <2>3
    <3>2. /\ agent'[b].sid = x.sid /\ agent'[b].stops = x.stops
          /\ b \notin known => agent'[b] = x
          /\ b \in known => ~agent'[b].turn
          /\ b \in known /\ x.turn => agent'[b].life = "failed"
          /\ b \in known /\ ~x.turn => agent'[b].life = IF x.life = "alive" THEN "hibernated" ELSE x.life
      BY <2>1, <3>1, ExitedIs
    <3> QED BY <2>1, <2>3, <3>2
  <2>4. CASE pool.st # "up"
    BY <2>1, <2>2, <2>4
  <2> QED BY <2>3, <2>4
<1>5. \A b \in Agents : server'.left[b] = {} /\ server'.turn[b] = 0
  <2>1. CASE pool.st = "up"
    BY <1>1, <2>1, OverIs, NoServerIs
  <2>2. CASE pool.st # "up"
    BY <1>1, <1>3, <2>2 DEF IInv, Right, ServerRight
  <2> QED BY <2>1, <2>2
<1>6. /\ pool.st = "up" => /\ server'.st = "none"
                           /\ \A b \in Agents : reply'[b] = IF pc[b] \in {"thread", "resume", "turn"} THEN "no" ELSE reply[b]
      /\ server'.st \in {"none", "init"}
  BY <1>1, <1>3, OverIs, NoServerIs
<1>7. ASSUME NEW b \in Agents PROVE Right(b)' /\ \A m \in Own(b)' : m = 0 \/ m \in Own(b)
  <2>1. Right(b) /\ reply[b] = "none" /\ pc[b] \in Stages
    BY <1>1, QuietIs DEF IInv, Typed
  <2>2. /\ TasksRight(b)' /\ MessagesRight(b)'
        /\ \A m \in Own(b)' : m = 0 \/ m \in Own(b)
    BY <1>1, <1>2, <1>4, <1>5, Kept
  <2>3. ~Runs(b)' /\ ~Given(b)'
    BY <1>5 DEF Runs, Given
  <2>4. /\ pool.st = "up" => pc[b] # "ensure"
        /\ pool.st # "up" => pc[b] \in {"idle", "ensure"}
    BY <1>3, <2>1 DEF Right, ServerRight, Stages
  <2>5. ServerRight(b)'
    <3>1. CASE pool.st = "up"
      BY <1>1, <1>5, <1>6, <2>1, <2>3, <2>4, <3>1 DEF ServerRight
    <3>2. CASE pool.st # "up"
      BY <1>1, <1>5, <1>6, <2>1, <2>3, <2>4, <3>2 DEF Right, ServerRight
    <3> QED BY <3>1, <3>2
  <2>6. b \in known' /\ agent'[b].turn => agent'[b].life \in {"alive", "failed", "stopped"}
    BY <1>1, <1>4, <2>1 DEF Right, WorkRight
  <2>7. WorkRight(b)'
    BY <1>1, <1>6, <2>3, <2>6 DEF WorkRight, Watched
  <2> QED BY <2>2, <2>5, <2>7 DEF Right
<1>8. AnsweredNotDropped'
  <2> SUFFICES ASSUME NEW m \in Messages, fate'[m] = "dropped" PROVE FALSE
    BY DEF AnsweredNotDropped
  <2>1. fate[m] # "dropped"
    BY DEF IInv, AnsweredNotDropped
  <2>2. PICK a \in known : server.turn[a] = m /\ agent'[a].life \notin {"failed", "stopped"} /\ fate[m] = "given"
    BY <1>1, <2>1, LostTells
  <2>3. a \in Agents /\ m # 0
    BY DEF Typed, Messages
  <2>4. agent[a].turn \/ agent[a].life \in {"failed", "stopped"}
    BY <2>2, <2>3 DEF IInv, Right, WorkRight, Given
  <2>5. pool.st = "up"
    BY <1>3, <2>2, <2>3 DEF IInv, Right, ServerRight
  <2> QED BY <1>4, <2>2, <2>3, <2>4, <2>5
<1>9. ClosedDown'
  BY <1>6 DEF ClosedDown
<1> QED BY <1>7, <1>8, <1>9, HostStep

LEMMA RestartStep ==
  ASSUME Typed, IInv, HostRestarts
  PROVE  IInv'
<1>1. /\ known' = {b \in Agents : saved[b].life # "unborn"}
      /\ \A b \in Agents \ known' : agent'[b] = agent[b]
      /\ \A b \in known' : /\ ~agent'[b].turn
                           /\ agent'[b].life = IF saved[b].life \in {"alive", "starting"} THEN "stopped" ELSE saved[b].life
      /\ \A b \in Agents : queue'[b] = <<>> /\ pc'[b] = "idle" /\ reply'[b] = "none"
      /\ server' = NoServer /\ phase' = "serving"
      /\ fate' = [m \in Messages |-> IF fate[m] \in {"queued", "overtaken", "taken"} THEN "refused" ELSE Lost(agent')[m]]
  BY HostRestartsIs
<1>2. server'.st = "none" /\ \A b \in Agents : server'.left[b] = {} /\ server'.turn[b] = 0
  BY <1>1, NoServerIs
<1>3. ASSUME NEW b \in Agents PROVE Right(b)' /\ \A m \in Own(b)' : m = 0 \/ m \in Own(b)
  <2>1. Right(b) /\ saved[b].life \in Lives
    BY DEF IInv, Typed, SavedType
  <2>2. Places(b)' = {} /\ ~Busy(b)' /\ ~InTurn(b)' /\ ~Runs(b)' /\ ~Given(b)'
    BY <1>1, <1>2 DEF Places, Busy, InTurn, Runs, Given
  <2>3. ~agent'[b].sid => ~agent'[b].turn
    BY <1>1, <2>1 DEF Right, TasksRight
  <2>4. agent'[b].life = "unborn" => b \notin known'
    BY <1>1
  <2>5. TasksRight(b)'
    BY <1>1, <1>2, <2>2, <2>3, <2>4 DEF TasksRight
  <2>6. MessagesRight(b)'
    BY <1>1, <1>2, <2>2 DEF MessagesRight
  <2>7. ServerRight(b)'
    BY <1>1, <1>2, <2>2 DEF ServerRight
  <2>8. WorkRight(b)'
    BY <1>1, <2>2 DEF WorkRight, Watched
  <2>9. \A m \in Own(b)' : m = 0
    BY <1>2, <2>2 DEF Own
  <2> QED BY <2>5, <2>6, <2>7, <2>8, <2>9 DEF Right
<1>4. AnsweredNotDropped'
  <2> SUFFICES ASSUME NEW m \in Messages, fate'[m] = "dropped" PROVE FALSE
    BY DEF AnsweredNotDropped
  <2>1. fate[m] # "dropped" /\ Lost(agent')[m] = "dropped" /\ fate[m] = "given"
    <3>1. fate[m] # "dropped"
      BY DEF IInv, AnsweredNotDropped
    <3>2. Lost(agent')[m] = "dropped"
      BY <1>1
    <3> QED BY <3>1, <3>2, LostTells
  <2>2. PICK a \in known : server.turn[a] = m /\ agent'[a].life \notin {"failed", "stopped"}
    BY <2>1, LostTells
  <2>3. a \in Agents /\ m # 0 /\ saved[a].life \in Lives /\ agent[a].life \in Lives
    BY DEF Typed, Messages, SavedType, AgentType
  <2>4. saved[a].life \notin {"unborn", "hibernated"}
    BY <2>1, <2>2, <2>3 DEF IInv, Right, WorkRight, Given
  <2> QED BY <1>1, <2>2, <2>3, <2>4 DEF Lives
<1>5. ClosedDown'
  BY <1>1 DEF ClosedDown
<1> QED BY <1>3, <1>4, <1>5, HostStep

LEMMA CrashStep ==
  ASSUME Typed, IInv, Crash
  PROVE  IInv'
<1>1. /\ server.st = "up" /\ phase # "closed"
      /\ server'.st = "gone" /\ server'.turn = server.turn
      /\ \A b \in Agents : server'.left[b] = {}
      /\ UNCHANGED <<known, agent, queue, pc, reply, pool, phase, saved, fate>>
  BY CrashIs
<1>2. ASSUME NEW b \in Agents PROVE Right(b)' /\ \A m \in Own(b)' : m = 0 \/ m \in Own(b)
  <2>1. Right(b) /\ pc[b] \in Stages /\ reply[b] \in {"none", "yes", "no"}
    BY DEF IInv, Typed
  <2>2. /\ TasksRight(b)' /\ MessagesRight(b)'
        /\ \A m \in Own(b)' : m = 0 \/ m \in Own(b)
        /\ InTurn(b)' = InTurn(b) /\ Top(b)' = Top(b)
    BY <1>1, Kept
  <2>3. ~Runs(b)' /\ Given(b)' = Given(b) /\ Watched(b)' = Watched(b)
    BY <1>1 DEF Runs, Given, Watched
  <2>4. ServerRight(b)'
    BY <1>1, <2>1, <2>2, <2>3 DEF Right, ServerRight
  <2>5. Watched(b) /\ agent[b].turn => (InTurn(b) /\ fate[Top(b).msg] = "taken") \/ Given(b)
    <3>1. SUFFICES ASSUME Watched(b), agent[b].turn, Runs(b)
                   PROVE  (InTurn(b) /\ fate[Top(b).msg] = "taken") \/ Given(b)
      BY <1>1, <2>1 DEF Right, WorkRight
    <3>2. /\ pc[b] \in {"idle", "turn"}
          /\ pc[b] = "idle" => Given(b)
          /\ pc[b] = "turn" => fate[server.turn[b]] = "taken"
      BY <2>1, <3>1 DEF Right, WorkRight, Stages
    <3>3. pc[b] = "turn" => InTurn(b) /\ server.turn[b] = Top(b).msg
      BY <1>1, <2>1, <3>1 DEF Right, ServerRight, TasksRight, InTurn, Runs
    <3> QED BY <3>2, <3>3
  <2>6. WorkRight(b)'
    BY <1>1, <2>1, <2>2, <2>3, <2>5 DEF Right, WorkRight
  <2> QED BY <2>2, <2>4, <2>6 DEF Right
<1>3. ClosedDown' /\ AnsweredNotDropped'
  BY <1>1 DEF IInv, ClosedDown, AnsweredNotDropped
<1> QED BY <1>2, <1>3, HostStep

LEMMA IInvInit == Init => IInv
<1> SUFFICES ASSUME Init PROVE IInv
  OBVIOUS
<1>1. /\ \A a \in Agents : queue[a] = <<>> /\ pc[a] = "idle" /\ reply[a] = "none"
      /\ server = NoServer /\ known = {} /\ phase = "serving"
      /\ \A m \in Messages : fate[m] = "new"
  BY DEF Init
<1>2. server.st = "none" /\ \A a \in Agents : server.left[a] = {} /\ server.turn[a] = 0
  BY <1>1, NoServerIs
<1>3. ASSUME NEW b \in Agents PROVE Right(b) /\ Own(b) \subseteq {0}
  <2>1. ~agent[b].turn
    <3>1. agent[b] = [Fresh EXCEPT !.life = "unborn"]
      BY DEF Init
    <3> QED BY <3>1, FreshIs DEF AgentType
  <2>2. Places(b) = {} /\ ~Busy(b) /\ ~InTurn(b) /\ ~Runs(b) /\ ~Given(b) /\ ~Watched(b)
    BY <1>1, <1>2 DEF Places, Busy, InTurn, Runs, Given, Watched
  <2>3. TasksRight(b) /\ MessagesRight(b)
    BY <1>1, <1>2, <2>1, <2>2 DEF TasksRight, MessagesRight
  <2>4. ServerRight(b) /\ WorkRight(b)
    BY <1>1, <1>2, <2>2 DEF ServerRight, WorkRight
  <2>5. Own(b) \subseteq {0}
    BY <1>2, <2>2 DEF Own
  <2> QED BY <2>3, <2>4, <2>5 DEF Right
<1>4. Apart
  BY <1>3 DEF Apart
<1>5. ClosedDown /\ AnsweredNotDropped
  BY <1>1 DEF ClosedDown, AnsweredNotDropped
<1> QED BY <1>3, <1>4, <1>5 DEF IInv

LEMMA IInvStep ==
  ASSUME Typed, IInv, [Next]_vars
  PROVE  IInv'
<1>1. ASSUME NEW a \in Agents, Requests(a) PROVE IInv'
  <2>1. CASE \E m \in Messages \cup {0} : ReqSpawn(a, m)
    BY <2>1, SpawnRequest
  <2>2. CASE \E m \in Messages : ReqSend(a, m)
    BY <2>2, SendRequest
  <2>3. CASE ReqStop(a) \/ ReqInterrupt(a) \/ ReqRemove(a) \/ ReqHibernate(a)
    BY <2>3, PlainRequests, PlainStep
  <2> QED BY <1>1, <2>1, <2>2, <2>3 DEF Requests
<1>2. ASSUME NEW a \in Agents, Go(a) \/ OnAnswer(a) \/ \E says \in Says : OnNotification(a, says)
      PROVE  IInv'
  BY <1>2, GoStep, AnswerStep, NotificationStep
<1>3. CASE Events \/ IdleReap
  BY <1>3, InitializedStep, InitializeFailsStep, ExitStep DEF Events
<1>4. CASE Drain \/ Closes \/ UNCHANGED vars
  BY <1>4, DrainSteps, ClosedStep DEF Closes
<1>5. CASE HostRestarts \/ Crash
  BY <1>5, RestartStep, CrashStep
<1> QED BY <1>1, <1>2, <1>3, <1>4, <1>5 DEF Next

LEMMA IInvAlways == Spec => [](Typed /\ IInv)
<1>1. Init => Typed /\ IInv
  BY TypedInit, IInvInit
<1>2. Typed /\ IInv /\ [Next]_vars => (Typed /\ IInv)'
  BY TypedStep, IInvStep
<1> QED BY <1>1, <1>2, PTL DEF Spec

-----------------------------------------------------------------------------
(***************************************************************************)
(* The theorems.                                                           *)
(***************************************************************************)

\* The host's idea of who is working is right whenever its event loop is at
\* rest: what a drain waits for, what refuses a send and what is put to sleep
\* (sendCodex, drainTurns, hibernate) is decided by it.
THEOREM WorksRight == Spec => []WorkingMeansWork
<1>1. ASSUME Typed, IInv PROVE WorkingMeansWork
  <2> SUFFICES ASSUME Quiet, phase # "closed", NEW a \in Agents, Watched(a)
               PROVE  agent[a].turn <=> TurnSomewhere(a)
    BY DEF WorkingMeansWork
  <2>1. Right(a) /\ a \in known /\ ~agent[a].logError /\ reply[a] = "none"
    BY <1>1, QuietIs DEF IInv, Watched
  <2>2. ASSUME agent[a].turn PROVE TurnSomewhere(a)
    BY <2>1, <2>2 DEF Right, WorkRight, TurnSomewhere, Given
  <2>3. ASSUME InTurn(a), fate[Top(a).msg] \in {"taken", "overtaken"} PROVE agent[a].turn
    <3>1. fate[Top(a).msg] = "taken"
      BY <2>1, <2>3 DEF Right, MessagesRight
    <3> QED BY <2>1, <2>3, <3>1 DEF Right, WorkRight
  <2>4. ASSUME Given(a) \/ Runs(a) PROVE agent[a].turn
    BY <2>1, <2>4 DEF Right, WorkRight
  <2> QED BY <2>2, <2>3, <2>4 DEF TurnSomewhere, Given
<1> QED BY <1>1, IInvAlways, PTL

\* A message whose send was answered is not lost silently, whatever dies
\* under its turn: the app-server (onCodexExit), the host (restore) or both.
THEOREM NotDropped == Spec => []AnsweredNotDropped
<1>1. IInv => AnsweredNotDropped
  BY DEF IInv
<1> QED BY <1>1, IInvAlways, PTL

\* Only a task that goes on moves on to another await, and only its own.
LEMMA OwnAwait ==
  ASSUME Typed, [Next]_vars, NEW a \in Agents, pc[a] # "turn", pc'[a] = "turn"
  PROVE  RunSend(a) \/ Ensured(a) \/ ThreadStarted(a) \/ Resumed(a)
<1>0. pc \in [Agents -> Stages]
  BY DEF Typed
<1>1. ASSUME NEW b \in Agents, Requests(b) \/ OnAnswer(b) \/ \E says \in Says : OnNotification(b, says)
      PROVE  pc' = pc
  BY <1>1 DEF Requests, ReqSpawn, ReqSend, ReqStop, ReqInterrupt, ReqRemove, ReqHibernate, OnAnswer, OnNotification
<1>2. CASE Events \/ IdleReap \/ Drain \/ Closes \/ Crash \/ UNCHANGED vars
  BY <1>2 DEF Events, Initialized, InitializeFails, ServerExits, IdleReap, Drain, Closes, DrainCuts, DrainEnds,
     Closed, Crash, vars, host
<1>3. CASE HostRestarts
  BY <1>3, HostRestartsIs
<1>4. ASSUME NEW b \in Agents, NEW s, Settle(b, s) PROVE pc' = [pc EXCEPT ![b] = s]
  BY <1>4 DEF Settle
<1>5. ASSUME NEW b \in Agents, Go(b), ~(RunSend(b) \/ Ensured(b) \/ ThreadStarted(b) \/ Resumed(b))
      PROVE  \E s : s # "turn" /\ Settle(b, s)
  <2>1. CASE Finish(b) \/ SpawnEnds(b)
    <3>1. Settle(b, "idle")
      BY <2>1 DEF Finish, SpawnEnds
    <3> QED BY <3>1
  <2>2. CASE RunSpawn(b) /\ ~agent[b].sid
    <3> DEFINE r == [agent[b] EXCEPT !.life = "starting"]
    <3>1. Ensure(b, r)
      BY <2>2 DEF RunSpawn, StartThread
    <3>2. ~r.sid
      BY <2>2 DEF Typed, AgentType
    <3>3. Settle(b, "ensure") \/ Settle(b, "thread")
      BY <3>1, <3>2 DEF Ensure, Call, Op
    <3> QED BY <3>3
  <2>3. Finish(b) \/ SpawnEnds(b) \/ (RunSpawn(b) /\ ~agent[b].sid)
    BY <1>5 DEF Go, RunSpawn, TurnAccepted, CallFailed, RunStop, RunRemove, RunHibernate, RunDrain
  <2> QED BY <2>1, <2>2, <2>3
<1>6. ASSUME NEW b \in Agents, RunSend(b) \/ Ensured(b) \/ ThreadStarted(b) \/ Resumed(b)
      PROVE  \E s : Settle(b, s)
  <2>1. ASSUME NEW r, Ensure(b, r) PROVE \E s : Settle(b, s)
    BY <2>1 DEF Ensure, Call
  <2>2. ASSUME NEW op, Call(b, op) PROVE \E s : Settle(b, s)
    BY <2>2 DEF Call
  <2>3. CASE RunSend(b)
    <3>1. Finish(b) \/ (\E r : Ensure(b, r))
      BY <2>3, Zenon DEF RunSend, Refuse, StartThread
    <3>2. ASSUME Finish(b) PROVE \E s : Settle(b, s)
      BY <3>2 DEF Finish
    <3> QED BY <2>1, <3>1, <3>2
  <2>4. CASE Ensured(b)
    BY <2>2, <2>4 DEF Ensured
  <2>5. CASE ThreadStarted(b)
    <3>1. Finish(b) \/ SpawnEnds(b) \/ Call(b, "turn")
      BY <2>5 DEF ThreadStarted
    <3>2. ASSUME Finish(b) \/ SpawnEnds(b) PROVE \E s : Settle(b, s)
      <4>1. Settle(b, "idle")
        BY <3>2 DEF Finish, SpawnEnds
      <4> QED BY <4>1
    <3> QED BY <2>2, <3>1, <3>2
  <2>6. CASE Resumed(b)
    BY <2>2, <2>6 DEF Resumed
  <2> QED BY <1>6, <2>3, <2>4, <2>5, <2>6
<1>7. ASSUME NEW b \in Agents, Go(b) PROVE RunSend(a) \/ Ensured(a) \/ ThreadStarted(a) \/ Resumed(a)
  <2>1. PICK s : Settle(b, s) /\ (s # "turn" \/ RunSend(b) \/ Ensured(b) \/ ThreadStarted(b) \/ Resumed(b))
    BY <1>5, <1>6, <1>7
  <2>2. pc' = [pc EXCEPT ![b] = s]
    BY <1>4, <2>1
  <2>3. a = b /\ s = "turn"
    BY <1>0, <2>2
  <2> QED BY <2>1, <2>3
<1> QED BY <1>1, <1>2, <1>3, <1>7 DEF Next

\* A send that no stop overtook is not counted overtaken.
LEMMA NotOvertaken ==
  ASSUME Typed, NEW a \in Agents, Right(a), Busy(a), Top(a).kind = "send", ~Refused(a)
  PROVE  fate[Top(a).msg] # "overtaken"
<1>1. 1 \in Places(a) /\ queue[a][1] = Top(a) /\ Msg(a, 1) = Top(a).msg /\ Top(a).msg # 0
  <2>1. 1 \in Places(a) /\ queue[a][1] = Top(a)
    BY TopIs DEF Places, Top
  <2> QED BY <2>1 DEF Msg, Right, TasksRight
<1>2. Top(a).stops = agent[a].stops /\ agent[a].stops \in Nat
  BY DEF Refused, StoppedSince, Typed, AgentType
<1> QED BY <1>1, <1>2 DEF Right, MessagesRight

\* A turn/start that is sent is due: no stop overtook its message, the thread
\* is one this app-server knows, and no turn runs on it (sendCodex, startTurn,
\* resume, ensure).
THEOREM TurnsDue == Spec => TurnsAreDue
<1>1. ASSUME Typed, IInv, [Next]_vars, NEW a \in Agents, pc[a] # "turn", pc'[a] = "turn", Watched(a)
      PROVE  Due(a)
  <2>0. /\ Right(a) /\ agent[a] \in AgentType /\ pc \in [Agents -> Stages]
        /\ a \in known /\ ~agent[a].logError
    BY <1>1 DEF IInv, Typed, Watched
  <2>1. Busy(a)
    <3>1. RunSend(a) \/ Ensured(a) \/ ThreadStarted(a) \/ Resumed(a)
      BY <1>1, OwnAwait
    <3> QED BY <1>1, <3>1, GoIs DEF Go
  <2>2. ASSUME NEW s, Settle(a, s) PROVE s = "turn"
    BY <1>1, <2>0, <2>2 DEF Settle
  <2>3. ~Finish(a) /\ ~SpawnEnds(a)
    <3>1. ~Settle(a, "idle")
      BY <2>2
    <3> QED BY <3>1 DEF Finish, SpawnEnds
  <2>4. ASSUME NEW r, Ensure(a, r) PROVE r.sid /\ a \in pool.attached
    <3>1. ~Settle(a, "ensure") /\ ~Settle(a, "thread") /\ ~Settle(a, "resume")
      BY <2>2
    <3> QED BY <2>4, <3>1 DEF Ensure, Call, Op
  <2>5. CASE RunSend(a)
    <3>1. ~StartThread(a) \/ agent[a].sid
      <4> SUFFICES ASSUME StartThread(a) PROVE agent[a].sid
        OBVIOUS
      <4> DEFINE r == [agent[a] EXCEPT !.life = "starting"]
      <4>1. Ensure(a, r)
        BY DEF StartThread
      <4>2. r.sid = agent[a].sid
        BY <2>0 DEF AgentType
      <4> QED BY <2>4, <4>1, <4>2
    <3>2. ~Refused(a) /\ ~agent[a].turn /\ Ensure(a, agent[a]) /\ Top(a).kind = "send"
      BY <2>3, <2>5, <3>1 DEF RunSend, Refuse, At
    <3>3. fate[Top(a).msg] # "overtaken"
      BY <1>1, <2>0, <2>1, <3>2, NotOvertaken
    <3>4. ~Runs(a)
      BY <1>1, <2>0, <3>2 DEF Right, WorkRight
    <3>5. server.st = "up" => a \in server.loaded
      BY <2>0, <2>4, <3>2 DEF Right, ServerRight
    <3> QED BY <3>3, <3>4, <3>5 DEF Due
  <2>6. CASE Ensured(a)
    <3> DEFINE op == Op(a, agent[a], pool.attached)
    <3>1. pc[a] = "ensure" /\ Settle(a, op)
      BY <2>6 DEF Ensured, Call
    <3>2. op = "turn"
      BY <2>2, <3>1
    <3>3. agent[a].sid /\ a \in pool.attached
      BY <3>2 DEF Op
    <3>4. InTurn(a)
      BY <3>1, <3>3 DEF InTurn
    <3> QED BY <1>1, <2>0, <3>1, <3>3, <3>4 DEF Right, MessagesRight, ServerRight, WorkRight, Due
  <2>7. CASE Resumed(a)
    <3>1. pc[a] = "resume" /\ reply[a] = "yes" /\ agent[a].sid
      BY <2>0, <2>7 DEF Resumed, Right, TasksRight
    <3>2. InTurn(a)
      BY <3>1 DEF InTurn
    <3> QED BY <2>0, <3>1, <3>2 DEF Right, MessagesRight, ServerRight, Due
  <2>8. CASE ThreadStarted(a)
    <3>1. pc[a] = "thread" /\ reply[a] = "yes" /\ Top(a).kind = "send" /\ ~Refused(a)
      BY <2>3, <2>8 DEF ThreadStarted
    <3>2. fate[Top(a).msg] # "overtaken"
      BY <1>1, <2>0, <2>1, <3>1, NotOvertaken
    <3> QED BY <2>0, <3>1, <3>2 DEF Right, ServerRight, Due
  <2> QED BY <1>1, <2>5, <2>6, <2>7, <2>8, OwnAwait
<1>2. Typed /\ IInv /\ [Next]_vars => [\A a \in Agents : (pc[a] # "turn" /\ pc'[a] = "turn" /\ Watched(a)) => Due(a)]_vars
  BY <1>1
<1> QED BY <1>2, IInvAlways, PTL DEF Spec, TurnsAreDue
=============================================================================
