------------------------ MODULE AgentHostQueueProofs ------------------------
(* What the agents' queues guarantee, for every value of AgentHost's         *)
(* constants:                                                                *)
(*   - no agent makes room for two starts (VictimsNotShared);                *)
(*   - a stop wins over the messages before it (StopsWin);                   *)
(*   - a removed agent stays without a process (RemovedStaysOver);           *)
(*   - a drain leaves no process behind (DrainIsThorough);                   *)
(*   - the registry tells of every process that holds a message (WorkIsTold);*)
(*   - starts never wait for room in a circle (StartsWaitInLine);            *)
(*   - an agent that looks hibernated finished what was written to it alone  *)
(*     (WrittenNotDropped).                                                  *)
EXTENDS AgentHostProofs

-----------------------------------------------------------------------------
(* Victims: only makeRoomFor picks them, among agents nobody picked; a step   *)
(* of o's queue picks for o alone.                                           *)

Picks(o) ==
  /\ \A p \in Objects \ {o} : room'[p].victims \subseteq room[p].victims
  /\ \/ room'[o].victims \subseteq room[o].victims
     \/ room'[o].victims \cap Victims = {}

LEMMA PicksKeep ==
  ASSUME TypeOK, NEW o \in Objects, Picks(o), OneStartPerVictim
  PROVE  OneStartPerVictim'
BY DEF Picks, Victims, OneStartPerVictim

LEMMA MakeRoomPicks ==
  ASSUME TypeOK, NEW o \in Objects, MakeRoom(o) \/ room' = room
  PROVE  Picks(o)
<1>1. CASE room' = room
  BY <1>1 DEF Picks
<1>2. ASSUME NEW vs \in SUBSET LiveBeside(o), NEW prev, NEW todo,
             room' = [room EXCEPT ![o] = [prev |-> prev, victims |-> vs, todo |-> todo,
                                          answer |-> "none"]]
      PROVE  Picks(o)
  <2>1. room'[o].victims = vs /\ \A p \in Objects \ {o} : room'[p] = room[p]
    BY <1>2 DEF TypeOK
  <2>2. vs \cap Victims = {}
    BY DEF LiveBeside
  <2>3. QED BY <2>1, <2>2 DEF Picks
<1>3. QED BY <1>1, <1>2 DEF MakeRoom

LEMMA StartProcessPicks ==
  ASSUME TypeOK, NEW o \in Objects, StartProcess(o)
  PROVE  Picks(o)
BY MakeRoomPicks DEF StartProcess

LEMMA HibernateEndsPicks ==
  ASSUME TypeOK, NEW o \in Objects, Busy(o), NEW ok \in BOOLEAN, HibernateEnds(o, ok)
  PROVE  Picks(o)
<1>1. Top(o).for \in Objects \cup {NoObj}
  BY TopType DEF Tasks
<1>2. \A p \in Objects : room'[p].victims = room[p].victims
  BY <1>1 DEF HibernateEnds, TypeOK, Rooms
<1>3. QED BY <1>2 DEF Picks

LEMMA GoPicks ==
  ASSUME TypeOK, NEW o \in Objects, Go(o)
  PROVE  Picks(o)
<1>1. CASE room' = room
  BY <1>1, MakeRoomPicks
<1>2. CASE RunSpawn(o) \/ RunSend(o) \/ Waited(o)
  BY <1>2, MakeRoomPicks, StartProcessPicks DEF RunSpawn, RunSend, Waited
<1>3. CASE RoomAnswered(o)
  <2>1. CASE room' = [room EXCEPT ![o] = NoRoom]
    <3>1. room'[o].victims = {} /\ \A p \in Objects \ {o} : room'[p] = room[p]
      BY <2>1 DEF NoRoom, TypeOK
    <3>2. QED BY <3>1 DEF Picks
  <2>2. ASSUME NEW v, room' = [room EXCEPT ![o].todo = @ \ {v}, ![o].answer = "none"]
        PROVE  Picks(o)
    <3>1. room'[o].victims = room[o].victims /\ \A p \in Objects \ {o} : room'[p] = room[p]
      BY <2>2 DEF TypeOK, Rooms
    <3>2. QED BY <3>1 DEF Picks
  <2>3. QED BY <1>3, <2>1, <2>2 DEF RoomAnswered
<1>4. CASE RunHibernate(o) \/ Detached(o)
  BY <1>1, <1>4, HibernateEndsPicks DEF RunHibernate, Detached, End, At
<1>5. CASE EndDone(o)
  BY <1>1, <1>5, HibernateEndsPicks DEF EndDone, Stopped, Removed, Dropped
<1>6. CASE ForkFails(o) \/ ForkSucceeds(o)
  BY <1>1, <1>6 DEF ForkFails, ForkSucceeds
<1>7. CASE RunStop(o) \/ RunRemove(o) \/ RunDrain(o) \/ RunLogError(o)
  BY <1>1, <1>7 DEF RunStop, RunRemove, RunDrain, RunLogError, End, Stopped, Removed, Dropped
<1>8. QED BY <1>2, <1>3, <1>4, <1>5, <1>6, <1>7 DEF Go

(* OneStartPerVictim: no agent is hibernated to make room for two starts.    *)
THEOREM VictimsNotShared == Spec => []OneStartPerVictim
<1>1. Init => OneStartPerVictim
  BY DEF Init, NoRoom, OneStartPerVictim
<1>2. TypeOK /\ OneStartPerVictim /\ [Next]_vars => OneStartPerVictim'
  <2> SUFFICES ASSUME TypeOK, OneStartPerVictim, [Next]_vars
               PROVE  OneStartPerVictim'
    OBVIOUS
  <2>1. CASE room' = room
    BY <2>1 DEF OneStartPerVictim
  <2>2. CASE HostRestart
    BY <2>2 DEF HostRestart, NoRoom, OneStartPerVictim
  <2>3. CASE Host
    BY <2>1, <2>2, <2>3 DEF Host, Drain, DrainCuts, DrainEnds, Closed, LogDeleted
  <2>4. ASSUME NEW o \in Objects, Request(o) \/ Event(o) PROVE OneStartPerVictim'
    BY <2>1, <2>4 DEF Request, ReqSpawn, ReqSend, ReqStop, ReqRemove, ReqHibernate,
       Event, OnExit, SweepEnds, OnLine, Settle, LogFails
  <2>5. ASSUME NEW o \in Objects, Cli(o) PROVE OneStartPerVictim'
    BY <2>1, <2>5 DEF Cli, TakeTurn, FoldIn, EndTurn, Background, Exit, Crash
  <2>6. QED BY <2>1, <2>3, <2>4, <2>5, GoPicks, PicksKeep DEF Next, vars
<1>3. QED BY <1>1, <1>2, TypeCorrect, PTL DEF Spec

-----------------------------------------------------------------------------
(* The inductive invariant.                                                  *)

(* An object that was never spawned has no queue, no process and no id, and  *)
(* no life kept aside (a start's former one, a saved one, a victim's) is     *)
(* that of such an object.                                                   *)
Born ==
  /\ \A o \in Objects : agent[o].life = "unborn" =>
       queue[o] = <<>> /\ ~Known(o) /\ cli[o].st = "none"
  /\ \A o \in Objects : /\ room[o].prev # "unborn"
                        /\ \A v \in room[o].todo : agent[v].life # "unborn"
  /\ \A i \in Ids : /\ saved[i] # "unborn"
                    /\ current[i] # NoObj => IdOf(current[i]) = i

(* A task that carries a message is a start; its message waits and was       *)
(* counted no later stop, and fewer when a stop overtook it.                 *)
Carries(o, t) ==
  t.msg # 0 => /\ t.kind \in Starters
               /\ t.stops <= agent[o].stops
               /\ \/ msg[t.msg] = "queued"
                  \/ msg[t.msg] = "overtaken" /\ t.stops < agent[o].stops

(* A message waits in one place, and once handed to a process in none.       *)
Waiting ==
  /\ \A o \in Objects : \A i \in 1..Len(queue[o]) : Carries(o, queue[o][i])
  /\ \A o, p \in Objects : \A i \in 1..Len(queue[o]), j \in 1..Len(queue[p]) :
       queue[o][i].msg = queue[p][j].msg /\ queue[o][i].msg # 0 => o = p /\ i = j
  /\ \A o \in Objects : \A m \in Unfinished(o) : msg[m] \notin {"new", "queued", "overtaken"}

-----------------------------------------------------------------------------
(* Steps that leave the messages where they wait, up to the one a queue's    *)
(* head carries.                                                             *)

StopStep == \A m \in Messages : msg[m] = "overtaken" => msg'[m] \in {"overtaken", "refused"}

Waits == {"new", "queued", "overtaken"}

(* p's tasks that carry a message are k places further on than before. *)
Shifted(p, k) ==
  \A i \in 1..Len(queue'[p]) : queue'[p][i].msg # 0 =>
    i + k \in 1..Len(queue[p]) /\ queue'[p][i] = queue[p][i + k]

SameStops == \A p \in Objects : agent'[p].stops = agent[p].stops

(* No task that carries a message goes on. *)
Rests ==
  /\ SameStops
  /\ \A p \in Objects : Shifted(p, 0) /\ Unfinished(p)' \subseteq Unfinished(p)
  /\ \A m \in Messages : msg'[m] = msg[m] \/ (msg[m] \notin Waits /\ msg'[m] \notin Waits)

(* The head of o's queue ends: its message is refused, or it is not stopped  *)
(* and its message handed to the process.                                    *)
Serves(o) ==
  /\ SameStops
  /\ Shifted(o, 1) /\ \A p \in Objects \ {o} : Shifted(p, 0)
  /\ \A m \in Messages \ {Top(o).msg} : msg'[m] = msg[m]
  /\ Top(o).msg # 0 => \/ msg'[Top(o).msg] = "refused"
                       \/ ~StoppedSince(o) /\ msg'[Top(o).msg] \in {"written", "crowded"}
  /\ \A p \in Objects : Unfinished(p)' \subseteq Unfinished(p) \cup ({Top(o).msg} \ {0})

LEMMA TasksTyped ==
  ASSUME TypeOK, NEW o \in Objects, NEW i \in 1..Len(queue[o])
  PROVE  /\ queue[o][i] \in Tasks
         /\ queue[o][i].msg \in Messages \cup {0} /\ queue[o][i].stops \in Nat
<1>1. queue[o] \in Seq(Tasks)
  BY DEF TypeOK
<1>2. queue[o][i] \in Tasks
  BY <1>1
<1>3. QED BY <1>2 DEF Tasks

LEMMA UnfinishedTyped ==
  ASSUME TypeOK, NEW o \in Objects
  PROVE  Unfinished(o) \subseteq Messages
<1>1. cli[o].work \subseteq Messages /\ cli[o].in \in Seq(Messages)
  BY DEF TypeOK, Processes
<1>2. QED BY <1>1 DEF Unfinished

(* Carries, of a task t of the next state's queue. *)
Carried(o, t) ==
  /\ t.kind \in Starters
  /\ t.stops <= agent'[o].stops
  /\ \/ msg'[t.msg] = "queued"
     \/ msg'[t.msg] = "overtaken" /\ t.stops < agent'[o].stops

LEMMA WaitingNext ==
  ASSUME \A o \in Objects : \A i \in 1..Len(queue'[o]) :
           queue'[o][i].msg # 0 => Carried(o, queue'[o][i]),
         \A o, p \in Objects : \A i \in 1..Len(queue'[o]), j \in 1..Len(queue'[p]) :
           queue'[o][i].msg = queue'[p][j].msg /\ queue'[o][i].msg # 0 => o = p /\ i = j,
         \A o \in Objects : \A m \in Unfinished(o)' : msg'[m] \notin Waits
  PROVE  Waiting'
BY DEF Waiting, Carries, Carried, Waits

LEMMA RestsKeep ==
  ASSUME TypeOK, TypeOK', Waiting, Rests
  PROVE  Waiting' /\ StopStep
<1>1. ASSUME NEW o \in Objects, NEW i \in 1..Len(queue'[o]), queue'[o][i].msg # 0
      PROVE  Carried(o, queue'[o][i])
  <2>1. i \in 1..Len(queue[o]) /\ queue'[o][i] = queue[o][i]
    BY <1>1 DEF Rests, Shifted, TypeOK
  <2>2. Carries(o, queue[o][i]) /\ queue[o][i].msg \in Messages
    BY <1>1, <2>1, TasksTyped DEF Waiting
  <2>3. msg'[queue[o][i].msg] = msg[queue[o][i].msg]
    BY <1>1, <2>1, <2>2 DEF Carries, Rests, Waits
  <2>4. QED BY <1>1, <2>1, <2>2, <2>3 DEF Carries, Carried, Rests, SameStops
<1>2. ASSUME NEW o \in Objects, NEW p \in Objects,
             NEW i \in 1..Len(queue'[o]), NEW j \in 1..Len(queue'[p]),
             queue'[o][i].msg = queue'[p][j].msg, queue'[o][i].msg # 0
      PROVE  o = p /\ i = j
  <2>1. /\ i \in 1..Len(queue[o]) /\ queue'[o][i] = queue[o][i]
        /\ j \in 1..Len(queue[p]) /\ queue'[p][j] = queue[p][j]
    BY <1>2 DEF Rests, Shifted, TypeOK
  <2>2. QED BY <1>2, <2>1 DEF Waiting
<1>3. ASSUME NEW o \in Objects, NEW m \in Unfinished(o)'
      PROVE  msg'[m] \notin Waits
  <2>1. m \in Unfinished(o) /\ m \in Messages /\ msg[m] \notin Waits
    BY <1>3, UnfinishedTyped DEF Rests, Waiting, Waits
  <2>2. QED BY <2>1 DEF Rests, Waits
<1>4. StopStep
  BY DEF StopStep, Rests, Waits
<1>5. QED BY <1>1, <1>2, <1>3, <1>4, WaitingNext

LEMMA ServesKeep ==
  ASSUME TypeOK, TypeOK', Waiting, NEW o \in Objects, Busy(o), Serves(o)
  PROVE  Waiting' /\ StopStep
<1> DEFINE h == Top(o).msg
           k(p) == IF p = o THEN 1 ELSE 0
<1>0. /\ 1 \in 1..Len(queue[o]) /\ Top(o) = queue[o][1]
      /\ h \in Messages \cup {0} /\ Top(o).stops \in Nat /\ Carries(o, Top(o))
  <2>1. 1 \in 1..Len(queue[o])
    BY DEF Busy, TypeOK
  <2>2. QED BY <2>1, TasksTyped DEF Top, Waiting
<1>1. ASSUME NEW p \in Objects, NEW i \in 1..Len(queue'[p]), queue'[p][i].msg # 0
      PROVE  /\ i + k(p) \in 1..Len(queue[p]) /\ queue'[p][i] = queue[p][i + k(p)]
             /\ queue'[p][i].msg # h /\ queue'[p][i].msg \in Messages
  <2>1. i + k(p) \in 1..Len(queue[p]) /\ queue'[p][i] = queue[p][i + k(p)]
    BY <1>1 DEF Serves, Shifted
  <2>2. p = o => i + k(p) # 1
    OBVIOUS
  <2>3. queue'[p][i].msg # h
    BY <1>0, <1>1, <2>1, <2>2 DEF Waiting
  <2>4. QED BY <1>1, <2>1, <2>3, TasksTyped
<1>2. ASSUME NEW p \in Objects, NEW i \in 1..Len(queue'[p]), queue'[p][i].msg # 0
      PROVE  Carried(p, queue'[p][i])
  <2>1. msg'[queue'[p][i].msg] = msg[queue'[p][i].msg]
    BY <1>1, <1>2 DEF Serves
  <2>2. Carries(p, queue'[p][i])
    BY <1>1, <1>2 DEF Waiting
  <2>3. QED BY <1>2, <2>1, <2>2 DEF Carries, Carried, Serves, SameStops
<1>3. ASSUME NEW p \in Objects, NEW q \in Objects,
             NEW i \in 1..Len(queue'[p]), NEW j \in 1..Len(queue'[q]),
             queue'[p][i].msg = queue'[q][j].msg, queue'[p][i].msg # 0
      PROVE  p = q /\ i = j
  <2>1. i + k(p) \in 1..Len(queue[p]) /\ queue'[p][i] = queue[p][i + k(p)]
    BY <1>1, <1>3
  <2>2. j + k(q) \in 1..Len(queue[q]) /\ queue'[q][j] = queue[q][j + k(q)]
    BY <1>1, <1>3
  <2>3. p = q /\ i + k(p) = j + k(q)
    BY <1>3, <2>1, <2>2 DEF Waiting
  <2>4. QED BY <2>3
<1>4. h # 0 => msg'[h] \notin Waits /\ (msg[h] = "overtaken" => msg'[h] = "refused")
  BY <1>0 DEF Serves, Waits, Carries, StoppedSince, TypeOK, Agents
<1>5. ASSUME NEW p \in Objects, NEW m \in Unfinished(p)'
      PROVE  msg'[m] \notin Waits
  <2>1. CASE m = h /\ h # 0
    BY <1>4, <2>1
  <2>2. CASE m \in Unfinished(p) /\ m # h
    BY <2>2, UnfinishedTyped DEF Serves, Waiting, Waits
  <2>3. CASE m \in Unfinished(p) /\ m = h /\ h = 0
    BY <2>3, UnfinishedTyped DEF Messages
  <2>4. QED BY <1>5, <2>1, <2>2, <2>3 DEF Serves
<1>6. StopStep
  <2>1. ASSUME NEW m \in Messages, msg[m] = "overtaken" PROVE msg'[m] \in {"overtaken", "refused"}
    <3>1. CASE m # h
      BY <2>1, <3>1 DEF Serves
    <3>2. CASE m = h
      BY <1>4, <2>1, <3>2 DEF Messages
    <3>3. QED BY <3>1, <3>2
  <2>2. QED BY <2>1 DEF StopStep
<1>7. QED BY <1>2, <1>3, <1>5, <1>6, WaitingNext

-----------------------------------------------------------------------------
(* What each step does to the waiting messages.                              *)

LEMMA SameShifted ==
  ASSUME TypeOK, queue' = queue
  PROVE  \A p \in Objects : Shifted(p, 0)
BY DEF Shifted, TypeOK

LEMMA EnqueueShifted ==
  ASSUME TypeOK, NEW v \in Objects, NEW t \in Tasks, t.msg = 0, Enqueue(v, t)
  PROVE  \A p \in Objects : Shifted(p, 0)
<1>1. ASSUME NEW p \in Objects, p # v PROVE Shifted(p, 0)
  BY <1>1 DEF Enqueue, Shifted, TypeOK
<1>2. Shifted(v, 0)
  <2>1. queue[v] \in Seq(Tasks) /\ queue'[v] = Append(queue[v], t)
    BY DEF Enqueue, TypeOK
  <2>2. ASSUME NEW i \in 1..Len(queue'[v]), queue'[v][i].msg # 0
        PROVE  i \in 1..Len(queue[v]) /\ queue'[v][i] = queue[v][i]
    BY <2>1, <2>2
  <2>3. QED BY <2>2 DEF Shifted
<1>3. QED BY <1>1, <1>2

LEMMA DequeueShifted ==
  ASSUME TypeOK, NEW o \in Objects, Busy(o), Dequeue(o)
  PROVE  Shifted(o, 1) /\ \A p \in Objects \ {o} : Shifted(p, 0)
<1>1. ASSUME NEW p \in Objects \ {o} PROVE Shifted(p, 0)
  BY DEF Dequeue, Shifted, TypeOK
<1>2. Shifted(o, 1)
  <2>1. queue[o] \in Seq(Tasks) /\ queue[o] # <<>> /\ queue'[o] = Tail(queue[o])
    BY DEF Dequeue, TypeOK, Busy
  <2>2. QED BY <2>1 DEF Shifted
<1>3. QED BY <1>1, <1>2

LEMMA SameUnfinished ==
  ASSUME cli' = cli
  PROVE  \A p \in Objects : Unfinished(p)' = Unfinished(p)
BY DEF Unfinished

(* An agent's other fields may change. *)
LEMMA StopsKept ==
  ASSUME TypeOK, NEW o \in Objects,
         \/ agent' = agent
         \/ \E a \in Agents : agent' = [agent EXCEPT ![o] = a] /\ a.stops = agent[o].stops
         \/ \E l : agent' = [agent EXCEPT ![o].life = l]
         \/ \E e : agent' = [agent EXCEPT ![o].ending = e]
  PROVE  SameStops
<1>1. CASE agent' = agent
  BY <1>1 DEF SameStops
<1>2. ASSUME NEW a \in Agents, agent' = [agent EXCEPT ![o] = a], a.stops = agent[o].stops
      PROVE  SameStops
  BY <1>2 DEF SameStops, TypeOK
<1>3. ASSUME NEW l, agent' = [agent EXCEPT ![o].life = l] PROVE SameStops
  BY <1>3 DEF SameStops, TypeOK, Agents
<1>4. ASSUME NEW e, agent' = [agent EXCEPT ![o].ending = e] PROVE SameStops
  BY <1>4 DEF SameStops, TypeOK, Agents
<1>5. QED BY <1>1, <1>2, <1>3, <1>4

LEMMA FailStartServes ==
  ASSUME TypeOK, NEW o \in Objects, Busy(o), FailStart(o), SameStops, cli' = cli
  PROVE  Serves(o)
<1>1. Top(o).msg \in Messages \cup {0}
  BY TopType DEF Tasks
<1>2. QED BY <1>1, DequeueShifted, SameUnfinished DEF FailStart, Fate, Serves, TypeOK

LEMMA SimpleServes ==
  ASSUME TypeOK, Waiting, NEW o \in Objects, Busy(o), Dequeue(o), Top(o).kind \notin Starters,
         SameStops, UNCHANGED <<cli, msg>>
  PROVE  Serves(o)
<1>1. Top(o).msg = 0
  BY DEF Waiting, Carries, Busy, Top, TypeOK
<1>2. QED BY <1>1, DequeueShifted, SameUnfinished DEF Serves

LEMMA HibernateTasks ==
  ASSUME NEW o \in Objects
  PROVE  Task("hibernate", 0, 0, o) \in Tasks /\ Task("hibernate", 0, 0, o).msg = 0
BY TaskRecords DEF Task

LEMMA SimpleTasks ==
  ASSUME NEW k \in Kinds \ {"send"}
  PROVE  Simple(k) \in Tasks /\ Simple(k).msg = 0
BY TaskRecords DEF Simple, Task

LEMMA RestsIf ==
  ASSUME TypeOK, SameStops, UNCHANGED <<cli, msg>>, \A p \in Objects : Shifted(p, 0)
  PROVE  Rests
BY SameUnfinished DEF Rests

LEMMA MakeRoomWaits ==
  ASSUME TypeOK, NEW o \in Objects, Busy(o), MakeRoom(o), cli' = cli
  PROVE  Rests \/ Serves(o)
<1>1. CASE agent' = agent /\ FailStart(o)
  BY <1>1, StopsKept, FailStartServes
<1>2. CASE agent' = [agent EXCEPT ![o].life = "starting"] /\ UNCHANGED <<queue, msg>>
  BY <1>2, StopsKept, SameShifted, RestsIf
<1>3. ASSUME agent' = [agent EXCEPT ![o].life = "starting"], msg' = msg,
             NEW v \in LiveBeside(o), Enqueue(v, Task("hibernate", 0, 0, o))
      PROVE  Rests
  <2>1. v \in Objects
    BY DEF LiveBeside
  <2>2. QED BY <1>3, <2>1, StopsKept, HibernateTasks, EnqueueShifted, RestsIf
<1>4. QED BY <1>1, <1>2, <1>3 DEF MakeRoom

LEMMA StartProcessWaits ==
  ASSUME TypeOK, NEW o \in Objects, Busy(o), StartProcess(o), cli' = cli
  PROVE  Rests \/ Serves(o)
<1>1. CASE agent' = agent /\ FailStart(o)
  BY <1>1, StopsKept, FailStartServes
<1>2. CASE MakeRoom(o)
  BY <1>2, MakeRoomWaits
<1>3. CASE UNCHANGED <<agent, queue, msg>>
  BY <1>3, StopsKept, SameShifted, RestsIf
<1>4. QED BY <1>1, <1>2, <1>3 DEF StartProcess

LEMMA EndWaits ==
  ASSUME TypeOK, NEW o \in Objects, NEW why, End(o, why)
  PROVE  Rests
<1>1. \A p \in Objects : Unfinished(p)' = Unfinished(p)
  BY DEF End, Unfinished, TypeOK, Processes
<1>2. QED BY <1>1, StopsKept, SameShifted DEF End, Rests

LEMMA EndsWait ==
  ASSUME TypeOK, Waiting, NEW o \in Objects, Busy(o), Top(o).kind \notin Starters
  PROVE  /\ (Stopped(o) \/ Removed(o) \/ Dropped(o)) => Serves(o)
         /\ \A ok \in BOOLEAN : HibernateEnds(o, ok) /\ UNCHANGED <<agent, cli, msg>> => Serves(o)
BY StopsKept, SimpleServes DEF Stopped, Removed, Dropped, HibernateEnds

LEMMA HandUnfinished ==
  ASSUME NEW c \in Processes, NEW m \in Messages
  PROVE  \A x : x \in Hand(c, m).work \cup {Hand(c, m).in[i] : i \in 1..Len(Hand(c, m).in)} =>
                 x = m \/ x \in c.work \cup {c.in[i] : i \in 1..Len(c.in)}
<1>1. Hand(c, m).work = c.work /\ Hand(c, m).in = Append(c.in, m) /\ c.in \in Seq(Messages)
  BY DEF Hand, Processes
<1>2. ASSUME NEW i \in 1..Len(Append(c.in, m))
      PROVE  Append(c.in, m)[i] = m \/ (i \in 1..Len(c.in) /\ Append(c.in, m)[i] = c.in[i])
  BY <1>1
<1>3. QED BY <1>1, <1>2

LEMMA RunSendWaits ==
  ASSUME TypeOK, NEW o \in Objects, RunSend(o)
  PROVE  Rests \/ Serves(o)
<1>0. Busy(o) /\ Top(o).kind = "send"
  BY DEF RunSend, At
<1>1. CASE FailStart(o) /\ UNCHANGED <<agent, cli>>
  BY <1>0, <1>1, StopsKept, FailStartServes
<1>2. CASE StartProcess(o) /\ UNCHANGED cli
  BY <1>0, <1>2, StartProcessWaits
<1>3. CASE /\ ~StoppedSince(o) /\ Dequeue(o)
           /\ Fate(o, IF Crowded(cli[o]) THEN "crowded" ELSE "written")
           /\ agent' = [agent EXCEPT ![o] = WriteTo(@)]
           /\ cli' = [cli EXCEPT ![o] = Hand(@, Top(o).msg)]
  <2>1. Top(o).msg \in Messages
    BY <1>0, TopType DEF Tasks
  <2>2. SameStops
    BY <1>3 DEF WriteTo, SameStops, TypeOK, Agents
  <2>3. \A m \in Messages \ {Top(o).msg} : msg'[m] = msg[m]
    BY <1>3 DEF Fate
  <2>4. msg'[Top(o).msg] \in {"written", "crowded"}
    BY <1>3, <2>1 DEF Fate
  <2>5. \A p \in Objects : Unfinished(p)' \subseteq Unfinished(p) \cup ({Top(o).msg} \ {0})
    <3>1. Top(o).msg # 0
      BY <2>1 DEF Messages
    <3>2. ASSUME NEW p \in Objects \ {o} PROVE Unfinished(p)' = Unfinished(p)
      BY <1>3 DEF Unfinished, TypeOK
    <3>3. cli'[o] = Hand(cli[o], Top(o).msg) /\ cli[o] \in Processes
      BY <1>3 DEF TypeOK
    <3>4. Unfinished(o)' \subseteq Unfinished(o) \cup {Top(o).msg}
      BY <2>1, <3>3, HandUnfinished DEF Unfinished
    <3>5. QED BY <3>1, <3>2, <3>4
  <2>6. QED BY <1>0, <1>3, <2>2, <2>3, <2>4, <2>5, DequeueShifted DEF Serves
<1>4. QED BY <1>1, <1>2, <1>3 DEF RunSend

LEMMA RoomAnsweredWaits ==
  ASSUME TypeOK, NEW o \in Objects, RoomAnswered(o)
  PROVE  Rests \/ Serves(o)
<1>0. Busy(o) /\ cli' = cli
  BY DEF RoomAnswered, At
<1>1. ASSUME NEW v \in room[o].todo, Enqueue(v, Task("hibernate", 0, 0, o)),
             UNCHANGED <<agent, msg>>
      PROVE  Rests
  <2>1. v \in Objects
    BY <1>1 DEF TypeOK, Rooms
  <2>2. QED BY <1>0, <1>1, <2>1, StopsKept, HibernateTasks, EnqueueShifted, RestsIf
<1>2. CASE UNCHANGED <<agent, queue, msg>>
  BY <1>0, <1>2, StopsKept, SameShifted, RestsIf
<1>3. CASE FailStart(o) /\ (agent' = agent \/ agent' = [agent EXCEPT ![o].life = room[o].prev])
  BY <1>0, <1>3, StopsKept, FailStartServes
<1>4. QED BY <1>1, <1>2, <1>3 DEF RoomAnswered

LEMMA ForkFailsWaits ==
  ASSUME TypeOK, NEW o \in Objects, ForkFails(o)
  PROVE  Serves(o)
<1>1. /\ Busy(o) /\ Dequeue(o) /\ Fate(o, "refused") /\ cli' = cli
      /\ agent' = [agent EXCEPT ![o].life = "failed"]
  BY DEF ForkFails, At
<1>2. Top(o).msg \in Messages \cup {0}
  BY <1>1, TopType DEF Tasks
<1>3. QED BY <1>1, <1>2, StopsKept, DequeueShifted, SameUnfinished DEF Fate, Serves

(* o's queue loses its head or not, and is given a task without a message. *)
Rest(o, k) == IF k = 0 THEN queue[o] ELSE Tail(queue[o])

LEMMA AppendShifted ==
  ASSUME TypeOK, NEW o \in Objects, Busy(o), NEW k \in {0, 1},
         NEW t \in Tasks, t.msg = 0,
         \/ queue' = [queue EXCEPT ![o] = Rest(o, k)]
         \/ queue' = [queue EXCEPT ![o] = Append(Rest(o, k), t)]
  PROVE  Shifted(o, k) /\ \A p \in Objects \ {o} : Shifted(p, 0)
<1>0. PICK rest : rest = Rest(o, k)
  OBVIOUS
<1>1. queue[o] \in Seq(Tasks) /\ queue[o] # <<>> /\ rest \in Seq(Tasks)
  BY <1>0 DEF TypeOK, Busy, Rest
<1>2. Len(rest) + k = Len(queue[o]) /\ \A i \in 1..Len(rest) : rest[i] = queue[o][i + k]
  <2>1. CASE k = 0
    BY <1>0, <1>1, <2>1 DEF Rest
  <2>2. CASE k = 1
    BY <1>0, <1>1, <2>2 DEF Rest
  <2>3. QED BY <2>1, <2>2
<1>3. queue'[o] = rest \/ queue'[o] = Append(rest, t)
  BY <1>0 DEF TypeOK
<1>4. ASSUME NEW i \in 1..Len(queue'[o]), queue'[o][i].msg # 0
      PROVE  i \in 1..Len(rest) /\ queue'[o][i] = rest[i]
  <2>1. CASE queue'[o] = rest
    BY <1>4, <2>1
  <2>2. CASE queue'[o] = Append(rest, t)
    <3>1. Len(queue'[o]) = Len(rest) + 1 /\ queue'[o][Len(rest) + 1] = t
      BY <1>1, <2>2
    <3>2. i # Len(rest) + 1
      BY <1>4, <3>1
    <3>3. i \in 1..Len(rest)
      BY <1>1, <3>1, <3>2
    <3>4. QED BY <1>1, <2>2, <3>3
  <2>3. QED BY <1>3, <2>1, <2>2
<1>5. Shifted(o, k)
  BY <1>1, <1>2, <1>4 DEF Shifted
<1>6. ASSUME NEW p \in Objects \ {o} PROVE Shifted(p, 0)
  BY DEF Shifted, TypeOK
<1>7. QED BY <1>5, <1>6

LEMMA ForkSucceedsWaits ==
  ASSUME TypeOK, NEW o \in Objects, ForkSucceeds(o)
  PROVE  Rests \/ Serves(o)
<1> DEFINE m == Top(o).msg
           write == m # 0 /\ ~Draining /\ ~IsRemoved(o) /\ ~StoppedSince(o)
           proc == [NoProcess EXCEPT !.st = "up", !.eof = Draining]
           rest == IF Draining THEN queue[o] ELSE Tail(queue[o])
<1>1. Busy(o) /\ m \in Messages \cup {0}
  <2>1. Busy(o)
    BY DEF ForkSucceeds, At
  <2>2. QED BY <2>1, TopType DEF Tasks
<1>2. SameStops
  <2>1. agent'[o].stops = agent[o].stops
    BY DEF ForkSucceeds, WriteTo, TypeOK, Agents
  <2>2. \A p \in Objects \ {o} : agent'[p] = agent[p]
    BY DEF ForkSucceeds, TypeOK
  <2>3. QED BY <2>1, <2>2 DEF SameStops
<1>3. \/ queue' = [queue EXCEPT ![o] = rest]
      \/ queue' = [queue EXCEPT ![o] = Append(rest, Simple("log_error"))]
  BY DEF ForkSucceeds
<1>4. Simple("log_error") \in Tasks /\ Simple("log_error").msg = 0
  BY SimpleTasks DEF Kinds
<1>5. ASSUME NEW p \in Objects
      PROVE  Unfinished(p)' \subseteq Unfinished(p) \cup (IF write THEN {m} ELSE {})
  <2>1. CASE p # o
    BY <2>1 DEF ForkSucceeds, Unfinished, TypeOK
  <2>2. CASE p = o
    <3>0. \A c \in Processes, b \in BOOLEAN :
            /\ [c EXCEPT !.st = "up", !.eof = b] \in Processes
            /\ [c EXCEPT !.st = "up", !.eof = b].work = c.work
            /\ [c EXCEPT !.st = "up", !.eof = b].in = c.in
      BY DEF Processes
    <3>1. PICK c \in Processes : c = proc /\ c.work = {} /\ c.in = <<>>
      <4>1. NoProcess.work = {} /\ NoProcess.in = <<>> /\ Draining \in BOOLEAN
        BY DEF NoProcess, Draining
      <4>2. QED BY <3>0, <4>1, FreshRecords
    <3>2. cli'[o] = IF write THEN Hand(c, m) ELSE c
      BY <3>1 DEF ForkSucceeds, TypeOK
    <3>3. ASSUME m \in Messages, cli'[o] = Hand(c, m) PROVE Unfinished(o)' \subseteq {m}
      <4>1. \A x \in Unfinished(o)' : x = m \/ x \in c.work \cup {c.in[i] : i \in 1..Len(c.in)}
        BY <3>3, HandUnfinished DEF Unfinished
      <4>2. c.work \cup {c.in[i] : i \in 1..Len(c.in)} = {}
        BY <3>1
      <4>3. QED BY <4>1, <4>2
    <3>4. ASSUME cli'[o] = c PROVE Unfinished(o)' = {}
      BY <3>1, <3>4 DEF Unfinished
    <3>5. QED BY <1>1, <2>2, <3>2, <3>3, <3>4
  <2>3. QED BY <2>1, <2>2
<1>6. CASE Draining
  <2>0. \/ queue' = [queue EXCEPT ![o] = Rest(o, 0)]
        \/ queue' = [queue EXCEPT ![o] = Append(Rest(o, 0), Simple("log_error"))]
    BY <1>3, <1>6 DEF Rest
  <2>1. \A p \in Objects : Shifted(p, 0)
    BY <1>1, <1>4, <2>0, AppendShifted
  <2>2. msg' = msg
    BY <1>6 DEF ForkSucceeds
  <2>3. QED BY <1>2, <1>5, <1>6, <2>1, <2>2 DEF Rests
<1>7. CASE ~Draining
  <2>0. \/ queue' = [queue EXCEPT ![o] = Rest(o, 1)]
        \/ queue' = [queue EXCEPT ![o] = Append(Rest(o, 1), Simple("log_error"))]
    BY <1>3, <1>7 DEF Rest
  <2>1. Shifted(o, 1) /\ \A p \in Objects \ {o} : Shifted(p, 0)
    BY <1>1, <1>4, <2>0, AppendShifted
  <2>2. Fate(o, IF write THEN "written" ELSE "refused")
    BY <1>7 DEF ForkSucceeds
  <2>3. QED BY <1>1, <1>2, <1>5, <2>1, <2>2 DEF Serves, Fate
<1>8. QED BY <1>6, <1>7

LEMMA GoWaits ==
  ASSUME TypeOK, Waiting, NEW o \in Objects, Go(o)
  PROVE  Busy(o) /\ (Rests \/ Serves(o))
<1>1. Busy(o)
  BY DEF Go, RunSpawn, RunSend, Waited, RoomAnswered, ForkFails, ForkSucceeds, RunStop,
     RunRemove, RunHibernate, Detached, RunDrain, RunLogError, EndDone, At
<1>2. CASE RunSpawn(o)
  BY <1>1, <1>2, StartProcessWaits DEF RunSpawn
<1>3. CASE Waited(o)
  BY <1>1, <1>3, StopsKept, FailStartServes, MakeRoomWaits DEF Waited
<1>4. CASE RunStop(o) \/ RunRemove(o) \/ RunDrain(o) \/ RunLogError(o)
  BY <1>1, <1>4, EndWaits, EndsWait DEF RunStop, RunRemove, RunDrain, RunLogError, At, Starters
<1>5. CASE RunHibernate(o)
  <2>1. Top(o).kind \notin Starters /\ UNCHANGED <<agent, cli, msg>>
    BY <1>5 DEF RunHibernate, At, Starters
  <2>2. CASE UNCHANGED queue
    <3>1. SameStops
      BY <2>1 DEF SameStops
    <3>2. \A p \in Objects : Shifted(p, 0)
      BY <2>2, SameShifted
    <3>3. Rests
      BY <2>1, <3>1, <3>2, RestsIf
    <3>4. QED BY <1>1, <3>3
  <2>3. CASE HibernateEnds(o, agent[o].life = "hibernated")
    BY <1>1, <2>1, <2>3, EndsWait
  <2>4. QED BY <1>5, <2>2, <2>3 DEF RunHibernate
<1>6. CASE Detached(o)
  BY <1>1, <1>6, EndWaits, EndsWait DEF Detached, At, Starters
<1>7. CASE EndDone(o)
  <2>1. CASE Top(o).kind \in Starters
    <3>1. FailStart(o) /\ UNCHANGED <<agent, cli>>
      BY <1>7, <2>1 DEF EndDone, Starters
    <3>2. QED BY <1>1, <3>1, StopsKept, FailStartServes
  <2>2. CASE Top(o).kind \notin Starters
    <3>1. \/ Stopped(o) \/ Removed(o) \/ Dropped(o)
          \/ HibernateEnds(o, TRUE) /\ UNCHANGED <<agent, cli, msg>>
      BY <1>7, <2>2 DEF EndDone
    <3>2. QED BY <1>1, <2>2, <3>1, EndsWait
  <2>3. QED BY <2>1, <2>2
<1>8. QED BY <1>1, <1>2, <1>3, <1>4, <1>5, <1>6, <1>7, RunSendWaits, RoomAnsweredWaits,
             ForkFailsWaits, ForkSucceedsWaits DEF Go

(* What the process of o does to the messages it holds. *)
LEMMA CliWaits ==
  ASSUME TypeOK, Waiting, NEW o \in Objects, Cli(o)
  PROVE  Rests
<1>1. UNCHANGED <<agent, queue>>
  BY DEF Cli, TakeTurn, FoldIn, EndTurn, Background, Exit, Crash
<1>2. SameStops /\ \A p \in Objects : Shifted(p, 0)
  BY <1>1, SameShifted DEF SameStops
<1>3. \A p \in Objects \ {o} : Unfinished(p)' = Unfinished(p)
  <2>1. \A p \in Objects \ {o} : cli'[p] = cli[p]
    BY DEF Cli, TakeTurn, FoldIn, EndTurn, Background, Exit, Crash, Emit, TypeOK
  <2>2. QED BY <2>1 DEF Unfinished
<1>4. cli[o] \in Processes /\ cli[o].in \in Seq(Messages)
  BY DEF TypeOK, Processes
<1>5. CASE /\ cli[o].in # <<>> /\ cli'[o].in = Tail(cli[o].in)
           /\ cli'[o].work \subseteq cli[o].work \cup {Head(cli[o].in)}
           /\ msg' = msg
  <2>1. Head(cli[o].in) \in Unfinished(o)
    <3>1. 1 \in 1..Len(cli[o].in) /\ Head(cli[o].in) = cli[o].in[1]
      BY <1>4, <1>5
    <3>2. QED BY <3>1 DEF Unfinished
  <2>2. ASSUME NEW i \in 1..Len(Tail(cli[o].in)) PROVE Tail(cli[o].in)[i] \in Unfinished(o)
    <3>1. i + 1 \in 1..Len(cli[o].in) /\ Tail(cli[o].in)[i] = cli[o].in[i + 1]
      BY <1>4, <1>5
    <3>2. QED BY <3>1 DEF Unfinished
  <2>3. Unfinished(o)' \subseteq Unfinished(o)
    BY <1>5, <2>1, <2>2 DEF Unfinished
  <2>4. QED BY <1>2, <1>3, <1>5, <2>3 DEF Rests
<1>6. CASE cli'[o].in = cli[o].in /\ cli'[o].work \subseteq cli[o].work /\ msg' = msg
  BY <1>2, <1>3, <1>6 DEF Rests, Unfinished
<1>7. CASE TakeTurn(o)
  BY <1>4, <1>5, <1>7 DEF TakeTurn, Emit, TypeOK, Processes
<1>8. CASE FoldIn(o)
  BY <1>4, <1>5, <1>8 DEF FoldIn, TypeOK, Processes
<1>9. CASE EndTurn(o)
  <2>1. cli'[o].in = cli[o].in /\ cli'[o].work = {}
    BY <1>4, <1>9 DEF EndTurn, Emit, TypeOK, Processes
  <2>2. \A m \in Messages : msg'[m] = msg[m] \/ (m \in Unfinished(o) /\ msg'[m] = "done")
    BY <1>9 DEF EndTurn, Unfinished
  <2>3. Unfinished(o)' \subseteq Unfinished(o)
    BY <2>1 DEF Unfinished
  <2>4. QED BY <1>2, <1>3, <2>2, <2>3 DEF Rests, Waits, Waiting
<1>10. CASE Background(o)
  <2>1. cli'[o].in = cli[o].in /\ cli'[o].work = cli[o].work
    <3>1. CASE \E b, l : Emit(o, [cli[o] EXCEPT !.bg = b], l)
      BY <1>4, <3>1 DEF Emit, TypeOK, Processes
    <3>2. CASE cli' = [cli EXCEPT ![o] = [cli[o] EXCEPT !.bg = FALSE, !.busy = TRUE,
                                                        !.out = @ \o <<"bg_off", "assistant">>]]
      BY <1>4, <3>2 DEF TypeOK, Processes
    <3>3. QED BY <1>10, <3>1, <3>2 DEF Background
  <2>2. msg' = msg
    BY <1>10 DEF Background
  <2>3. QED BY <1>6, <2>1, <2>2
<1>11. CASE Exit(o) \/ Crash(o)
  <2>1. cli' = [cli EXCEPT ![o].st = "gone"] /\ msg' = msg
    BY <1>11 DEF Exit, Crash
  <2>2. cli'[o].in = cli[o].in /\ cli'[o].work = cli[o].work
    BY <1>4, <2>1 DEF TypeOK, Processes
  <2>3. QED BY <1>6, <2>1, <2>2
<1>12. QED BY <1>7, <1>8, <1>9, <1>10, <1>11 DEF Cli

LEMMA EventWaits ==
  ASSUME TypeOK, Waiting, NEW o \in Objects, Event(o)
  PROVE  Rests
<1>1. CASE OnExit(o)
  <2>1. SameStops
    BY <1>1 DEF OnExit, SameStops, TypeOK, Agents
  <2>2. \A p \in Objects : Shifted(p, 0)
    BY <1>1, SameShifted DEF OnExit
  <2>3. \A p \in Objects : Unfinished(p)' \subseteq Unfinished(p)
    BY <1>1 DEF OnExit, NoProcess, Unfinished, TypeOK
  <2>4. ASSUME NEW m \in Messages
        PROVE  msg'[m] = msg[m] \/ (m \in Unfinished(o) /\ msg'[m] \notin Waits)
    BY <1>1 DEF OnExit, Lost, Waits
  <2>5. QED BY <2>1, <2>2, <2>3, <2>4 DEF Rests, Waits, Waiting
<1>2. CASE SweepEnds(o)
  BY <1>2, StopsKept, SameShifted, RestsIf DEF SweepEnds
<1>3. CASE OnLine(o)
  <2>1. Followed(agent[o], Head(cli[o].out)).stops = agent[o].stops
    <3>1. Head(cli[o].out) \in Lines
      BY <1>3, ProcessUpdates DEF OnLine, TypeOK
    <3>2. QED BY <3>1 DEF Followed, Announced, TypeOK, Agents, Lines
  <2>2. SameStops
    BY <1>3, <2>1 DEF OnLine, SameStops, TypeOK
  <2>3. \A p \in Objects : Shifted(p, 0)
    BY <1>3, SameShifted DEF OnLine
  <2>4. \A p \in Objects : Unfinished(p)' = Unfinished(p)
    <3>1. \A p \in Objects : cli'[p].in = cli[p].in /\ cli'[p].work = cli[p].work
      BY <1>3 DEF OnLine, TypeOK, Processes
    <3>2. QED BY <3>1 DEF Unfinished
  <2>5. QED BY <1>3, <2>2, <2>3, <2>4 DEF OnLine, Rests
<1>4. CASE Settle(o)
  <2>1. SameStops
    BY <1>4 DEF Settle, SameStops, TypeOK, Agents
  <2>2. QED BY <1>4, <2>1, SameShifted, RestsIf DEF Settle
<1>5. CASE LogFails(o)
  <2>1. SameStops
    BY <1>5 DEF LogFails, SameStops, TypeOK, Agents
  <2>2. \A p \in Objects : Shifted(p, 0)
    BY <1>5, SimpleTasks, EnqueueShifted DEF LogFails, Kinds
  <2>3. QED BY <1>5, <2>1, <2>2, RestsIf DEF LogFails
<1>6. QED BY <1>1, <1>2, <1>3, <1>4, <1>5 DEF Event

-----------------------------------------------------------------------------
(* Born is kept.  What every step but a spawn and a restart does to it: no   *)
(* object's life ends unborn, no unborn one is given a task, a process or an *)
(* id, and what is kept aside is the life of one that was born.              *)

LivesKept ==
  \A p \in Objects : agent'[p].life = "unborn" =>
    agent[p].life = "unborn" /\ queue'[p] = queue[p] /\ cli'[p].st = cli[p].st
IdsKept   == \A i \in Ids : current'[i] \in {current[i], NoObj}
RoomsKept == \A p \in Objects : /\ room'[p].prev # "unborn"
                                /\ \A v \in room'[p].todo : agent[v].life # "unborn"
Bears == LivesKept /\ IdsKept /\ RoomsKept /\ (saved' = saved \/ Persist)

LEMMA BearsKeep ==
  ASSUME TypeOK, TypeOK', Born, Bears
  PROVE  Born'
<1>1. ASSUME NEW o \in Objects, agent'[o].life = "unborn"
      PROVE  queue'[o] = <<>> /\ current'[IdOf(o)] # o /\ cli'[o].st = "none"
  BY <1>1, ObjectsAreNamed DEF Born, Bears, LivesKept, IdsKept, Known
<1>2. ASSUME NEW o \in Objects
      PROVE  room'[o].prev # "unborn" /\ \A v \in room'[o].todo : agent'[v].life # "unborn"
  <2>1. room'[o].todo \subseteq Objects
    BY DEF TypeOK, Rooms
  <2>2. QED BY <2>1 DEF Bears, RoomsKept, LivesKept
<1>3. ASSUME NEW i \in Ids
      PROVE  saved'[i] # "unborn" /\ (current'[i] # NoObj => IdOf(current'[i]) = i)
  <2>1. current'[i] # NoObj => IdOf(current'[i]) = i
    BY DEF Born, Bears, IdsKept
  <2>2. ASSUME current'[i] # NoObj PROVE agent'[current'[i]].life # "unborn"
    <3>1. current'[i] \in Objects
      BY <2>2 DEF TypeOK
    <3>2. QED BY <1>1, <2>1, <2>2, <3>1
  <2>3. CASE saved' = saved
    BY <2>1, <2>3 DEF Born
  <2>4. CASE Persist
    BY <2>1, <2>2, <2>4 DEF Persist, Persisted
  <2>5. QED BY <2>3, <2>4 DEF Bears
<1>4. QED BY <1>1, <1>2, <1>3 DEF Born, Known

LEMMA ForgetBears ==
  ASSUME TypeOK, NEW o \in Objects, Forget(o) \/ UNCHANGED <<current, saved>>
  PROVE  IdsKept /\ (saved' = saved \/ Persist)
BY ObjectsAreNamed DEF Forget, IdsKept, TypeOK

LEMMA SameRooms ==
  ASSUME Born, room' = room
  PROVE  RoomsKept
BY DEF Born, RoomsKept

(* A queue's head belongs to an object that was born. *)
LEMMA BusyBorn ==
  ASSUME Born, NEW o \in Objects, Busy(o)
  PROVE  agent[o].life # "unborn"
BY DEF Born, Busy

(* Only o's life, queue and process change, and o's life not to unborn. *)
LEMMA LivesKeptIf ==
  ASSUME TypeOK, NEW o \in Objects, agent'[o].life # "unborn",
         \A p \in Objects \ {o} : agent'[p] = agent[p] /\ cli'[p] = cli[p] /\ queue'[p] = queue[p]
  PROVE  LivesKept
BY DEF LivesKept

LEMMA FailStartBears ==
  ASSUME TypeOK, Born, NEW o \in Objects, FailStart(o), cli' = cli, RoomsKept,
         agent'[o].life # "unborn", \A p \in Objects \ {o} : agent'[p] = agent[p]
  PROVE  Bears
<1>1. LivesKept
  BY LivesKeptIf DEF FailStart, Dequeue, TypeOK
<1>2. QED BY <1>1, ForgetBears DEF FailStart, Bears

LEMMA MakeRoomBears ==
  ASSUME TypeOK, Born, NEW o \in Objects, Busy(o), MakeRoom(o), cli' = cli
  PROVE  Bears
<1>0. agent[o].life # "unborn"
  BY BusyBorn
<1>1. CASE agent' = agent /\ FailStart(o) /\ UNCHANGED room
  BY <1>0, <1>1, FailStartBears, SameRooms
<1>2. CASE agent' = [agent EXCEPT ![o].life = "starting"]
  <2>1. agent'[o].life = "starting" /\ \A p \in Objects \ {o} : agent'[p] = agent[p]
    BY <1>2 DEF TypeOK, Agents
  <2>2. CASE UNCHANGED <<current, queue, room, saved>>
    BY <2>1, <2>2, SameRooms, LivesKeptIf, ForgetBears DEF Bears
  <2>3. ASSUME NEW vs \in SUBSET LiveBeside(o), NEW v \in vs,
               room' = [room EXCEPT ![o] = [prev |-> agent[o].life, victims |-> vs,
                                            todo |-> vs \ {v}, answer |-> "none"]],
               Enqueue(v, Task("hibernate", 0, 0, o)), UNCHANGED <<current, saved>>
        PROVE  Bears
    <3>1. \A u \in vs : u \in Objects /\ agent[u].life # "unborn"
      BY DEF LiveBeside
    <3>2. RoomsKept
      BY <1>0, <2>3, <3>1 DEF RoomsKept, Born, TypeOK
    <3>3. \A p \in Objects : p = v \/ queue'[p] = queue[p]
      BY <2>3 DEF Enqueue, TypeOK
    <3>4. LivesKept
      BY <2>1, <3>1, <3>3 DEF LivesKept
    <3>5. QED BY <2>3, <3>2, <3>4, ForgetBears DEF Bears
  <2>4. QED BY <1>1, <2>2, <2>3 DEF MakeRoom
<1>3. QED BY <1>1, <1>2 DEF MakeRoom

LEMMA StartProcessBears ==
  ASSUME TypeOK, Born, NEW o \in Objects, Busy(o), StartProcess(o), cli' = cli
  PROVE  Bears
<1>1. CASE agent' = agent /\ FailStart(o) /\ UNCHANGED room
  BY <1>1, BusyBorn, FailStartBears, SameRooms
<1>2. CASE MakeRoom(o)
  BY <1>2, MakeRoomBears
<1>3. CASE UNCHANGED <<current, agent, queue, room, saved>>
  BY <1>3, SameRooms, ForgetBears DEF Bears, LivesKept
<1>4. QED BY <1>1, <1>2, <1>3 DEF StartProcess

(* The tasks that end, or have their process ended. *)
LEMMA EndsBear ==
  ASSUME TypeOK, Born, NEW o \in Objects, Busy(o)
  PROVE  /\ \A why : End(o, why) => Bears
         /\ (Stopped(o) \/ Removed(o) \/ Dropped(o)) => Bears
         /\ \A ok \in BOOLEAN :
              HibernateEnds(o, ok) /\ UNCHANGED <<current, agent, cli, saved>> => Bears
<1>0. agent[o].life # "unborn"
  BY BusyBorn
<1>1. ASSUME NEW why, End(o, why) PROVE Bears
  <2>1. agent'[o].life = agent[o].life /\ \A p \in Objects \ {o} : agent'[p] = agent[p]
    BY <1>1 DEF End, TypeOK, Agents
  <2>2. \A p \in Objects \ {o} : cli'[p] = cli[p] /\ queue'[p] = queue[p]
    BY <1>1 DEF End, TypeOK
  <2>3. LivesKept
    BY <1>0, <2>1, <2>2, LivesKeptIf
  <2>4. QED BY <1>1, <2>3, SameRooms, ForgetBears DEF End, Bears
<1>2. ASSUME Dequeue(o), cli' = cli, agent'[o].life # "unborn",
             \A p \in Objects \ {o} : agent'[p] = agent[p]
      PROVE  LivesKept
  BY <1>2, LivesKeptIf DEF Dequeue, TypeOK
<1>3. Stopped(o) => Bears
  <2> SUFFICES ASSUME Stopped(o) PROVE Bears
    OBVIOUS
  <2>1. agent'[o].life = "stopped" /\ \A p \in Objects \ {o} : agent'[p] = agent[p]
    BY DEF Stopped, TypeOK, Agents
  <2>2. LivesKept
    BY <1>2, <2>1 DEF Stopped
  <2>3. QED BY <2>2, SameRooms DEF Stopped, Bears, IdsKept
<1>4. Removed(o) \/ Dropped(o) => Bears
  BY <1>0, <1>2, SameRooms, ForgetBears DEF Removed, Dropped, Bears
<1>5. ASSUME NEW ok \in BOOLEAN, HibernateEnds(o, ok), UNCHANGED <<current, agent, cli, saved>>
      PROVE  Bears
  <2>1. Top(o).for \in Objects \cup {NoObj}
    BY TopType DEF Tasks
  <2>2. \A p \in Objects : room'[p].prev = room[p].prev /\ room'[p].todo = room[p].todo
    BY <1>5, <2>1 DEF HibernateEnds, TypeOK, Rooms
  <2>3. RoomsKept
    BY <2>2 DEF RoomsKept, Born
  <2>4. LivesKept
    BY <1>0, <1>2, <1>5 DEF HibernateEnds
  <2>5. QED BY <1>5, <2>3, <2>4, ForgetBears DEF Bears
<1>6. QED BY <1>1, <1>3, <1>4, <1>5

LEMMA RoomAnsweredBears ==
  ASSUME TypeOK, Born, NEW o \in Objects, Busy(o), RoomAnswered(o)
  PROVE  Bears
<1>0. agent[o].life # "unborn" /\ cli' = cli /\ room[o].prev # "unborn"
  BY BusyBorn DEF RoomAnswered, Born
<1>1. ASSUME NEW v \in room[o].todo, Enqueue(v, Task("hibernate", 0, 0, o)),
             room' = [room EXCEPT ![o].todo = @ \ {v}, ![o].answer = "none"],
             UNCHANGED <<current, agent, saved>>
      PROVE  Bears
  <2>1. v \in Objects /\ agent[v].life # "unborn"
    BY <1>1 DEF TypeOK, Rooms, Born
  <2>2. \A p \in Objects : p = v \/ queue'[p] = queue[p]
    BY <1>1 DEF Enqueue, TypeOK
  <2>3. \A p \in Objects : room'[p].prev = room[p].prev /\ room'[p].todo \subseteq room[p].todo
    <3>1. room[o] \in Rooms
      BY DEF TypeOK
    <3>2. /\ room'[o].prev = room[o].prev /\ room'[o].todo = room[o].todo \ {v}
      BY <1>1, <3>1 DEF TypeOK, Rooms
    <3>3. \A p \in Objects \ {o} : room'[p] = room[p]
      BY <1>1 DEF TypeOK
    <3>4. QED BY <3>2, <3>3
  <2>4. LivesKept
    BY <1>0, <1>1, <2>1, <2>2 DEF LivesKept
  <2>5. RoomsKept
    BY <2>3 DEF RoomsKept, Born
  <2>6. QED BY <1>1, <2>4, <2>5, ForgetBears DEF Bears
<1>2. CASE room' = [room EXCEPT ![o] = NoRoom]
  <2>1. RoomsKept
    BY <1>2 DEF RoomsKept, Born, NoRoom, TypeOK
  <2>2. CASE UNCHANGED <<current, agent, queue, saved>>
    BY <1>0, <2>1, <2>2, ForgetBears DEF Bears, LivesKept
  <2>3. CASE FailStart(o) /\ (agent' = agent \/ agent' = [agent EXCEPT ![o].life = room[o].prev])
    <3>1. agent'[o].life # "unborn" /\ \A p \in Objects \ {o} : agent'[p] = agent[p]
      BY <1>0, <2>3 DEF TypeOK, Agents
    <3>2. QED BY <1>0, <2>1, <2>3, <3>1, FailStartBears
  <2>4. CASE ~(room[o].answer = "yes" /\ room[o].todo # {})
    BY <2>2, <2>3, <2>4 DEF RoomAnswered
  <2>5. CASE room[o].answer = "yes" /\ room[o].todo # {}
    BY <1>1, <2>5 DEF RoomAnswered
  <2>6. QED BY <2>4, <2>5
<1>3. QED BY <1>1, <1>2 DEF RoomAnswered

LEMMA ForkBears ==
  ASSUME TypeOK, Born, NEW o \in Objects, Busy(o), ForkFails(o) \/ ForkSucceeds(o)
  PROVE  Bears
<1>1. CASE ForkFails(o)
  <2>1. agent'[o].life = "failed" /\ \A p \in Objects \ {o} : agent'[p] = agent[p]
    BY <1>1 DEF ForkFails, TypeOK, Agents
  <2>2. LivesKept
    BY <1>1, <2>1, LivesKeptIf DEF ForkFails, Dequeue, TypeOK
  <2>3. IdsKept /\ (saved' = saved \/ Persist)
    BY <1>1, ForgetBears DEF ForkFails, IdsKept
  <2>4. QED BY <1>1, <2>2, <2>3, SameRooms DEF ForkFails, Bears
<1>2. CASE ForkSucceeds(o)
  <2>1. agent'[o].life \in {"alive", "failed"}
    BY <1>2 DEF ForkSucceeds, WriteTo, TypeOK, Agents
  <2>2. \A p \in Objects \ {o} : agent'[p] = agent[p] /\ cli'[p] = cli[p] /\ queue'[p] = queue[p]
    BY <1>2 DEF ForkSucceeds, TypeOK
  <2>3. LivesKept
    BY <2>1, <2>2, LivesKeptIf
  <2>4. QED BY <1>2, <2>3, SameRooms DEF ForkSucceeds, SaveStart, Bears, IdsKept
<1>3. QED BY <1>1, <1>2

LEMMA RunSendBears ==
  ASSUME TypeOK, Born, NEW o \in Objects, Busy(o), RunSend(o)
  PROVE  Bears
<1>0. agent[o].life # "unborn"
  BY BusyBorn
<1>1. CASE FailStart(o) /\ UNCHANGED <<agent, cli, room>>
  BY <1>0, <1>1, FailStartBears, SameRooms
<1>2. CASE StartProcess(o) /\ UNCHANGED cli
  BY <1>2, StartProcessBears
<1>3. CASE /\ Dequeue(o) /\ UNCHANGED <<current, room, saved>>
           /\ agent' = [agent EXCEPT ![o] = WriteTo(@)]
           /\ cli' = [cli EXCEPT ![o] = Hand(@, Top(o).msg)]
  <2>1. agent'[o].life = agent[o].life
    BY <1>3 DEF WriteTo, TypeOK, Agents
  <2>2. \A p \in Objects \ {o} : agent'[p] = agent[p] /\ cli'[p] = cli[p] /\ queue'[p] = queue[p]
    BY <1>3 DEF Dequeue, TypeOK
  <2>3. QED BY <1>0, <1>3, <2>1, <2>2, LivesKeptIf, SameRooms, ForgetBears DEF Bears
<1>4. QED BY <1>1, <1>2, <1>3 DEF RunSend

LEMMA GoBears ==
  ASSUME TypeOK, Born, NEW o \in Objects, Busy(o), Go(o)
  PROVE  Bears
<1>0. agent[o].life # "unborn"
  BY BusyBorn
<1>1. CASE RunSpawn(o)
  BY <1>1, StartProcessBears DEF RunSpawn
<1>2. CASE Waited(o)
  BY <1>0, <1>2, SameRooms, FailStartBears, MakeRoomBears DEF Waited
<1>3. CASE RunStop(o) \/ RunRemove(o) \/ RunDrain(o) \/ RunLogError(o)
  BY <1>3, EndsBear DEF RunStop, RunRemove, RunDrain, RunLogError
<1>4. CASE RunHibernate(o)
  <2>1. CASE UNCHANGED <<queue, room>>
    BY <1>4, <2>1, SameRooms, ForgetBears DEF RunHibernate, Bears, LivesKept
  <2>2. CASE HibernateEnds(o, agent[o].life = "hibernated")
    BY <1>4, <2>2, EndsBear DEF RunHibernate
  <2>3. QED BY <1>4, <2>1, <2>2 DEF RunHibernate
<1>5. CASE Detached(o)
  BY <1>5, EndsBear DEF Detached
<1>6. CASE EndDone(o)
  <2>1. CASE Stopped(o) \/ Removed(o) \/ Dropped(o)
    BY <2>1, EndsBear
  <2>2. CASE HibernateEnds(o, TRUE) /\ UNCHANGED <<current, agent, cli, saved>>
    BY <2>2, EndsBear
  <2>3. CASE FailStart(o) /\ UNCHANGED <<agent, cli, room>>
    BY <1>0, <2>3, FailStartBears, SameRooms
  <2>4. QED BY <1>6, <2>1, <2>2, <2>3 DEF EndDone
<1>7. QED BY <1>1, <1>2, <1>3, <1>4, <1>5, <1>6, RunSendBears, RoomAnsweredBears, ForkBears DEF Go

LEMMA SettleLife ==
  ASSUME TypeOK, NEW o \in Objects, Settle(o)
  PROVE  agent'[o].life = agent[o].life
<1>1. PICK a \in Agents : a = agent[o]
  BY DEF TypeOK
<1>2. agent'[o] = IF a.since = 0 THEN [a EXCEPT !.settle = FALSE]
                  ELSE [a EXCEPT !.settle = FALSE, !.since = 0, !.turn = FALSE]
  BY <1>1 DEF Settle, TypeOK
<1>3. QED BY <1>1, <1>2 DEF Agents

LEMMA EventBears ==
  ASSUME TypeOK, Born, NEW o \in Objects, Event(o) \/ Cli(o)
  PROVE  Bears
<1>0. /\ \A p \in Objects \ {o} : agent'[p] = agent[p] /\ cli'[p] = cli[p]
      /\ RoomsKept /\ IdsKept /\ (saved' = saved \/ Persist)
  <2>1. \A p \in Objects \ {o} : agent'[p] = agent[p] /\ cli'[p] = cli[p]
    BY DEF Event, OnExit, SweepEnds, OnLine, Settle, LogFails, TypeOK,
       Cli, TakeTurn, FoldIn, EndTurn, Background, Exit, Crash, Emit
  <2>2. UNCHANGED <<current, room>> /\ (saved' = saved \/ Persist)
    BY DEF Event, OnExit, SweepEnds, OnLine, Settle, LogFails,
       Cli, TakeTurn, FoldIn, EndTurn, Background, Exit, Crash
  <2>3. QED BY <2>1, <2>2, SameRooms DEF IdsKept
<1>1. CASE cli[o].st # "none"
  <2>1. agent[o].life # "unborn"
    BY <1>1 DEF Born
  <2>2. agent'[o].life # "unborn"
    <3>1. CASE OnExit(o)
      BY <2>1, <3>1 DEF OnExit, TypeOK, Agents
    <3>2. CASE OnLine(o)
      <4>1. Head(cli[o].out) \in Lines
        BY <3>2, ProcessUpdates DEF OnLine, TypeOK
      <4>2. QED BY <2>1, <3>2, <4>1 DEF OnLine, Followed, Announced, TypeOK, Agents, Lines
    <3>3. CASE Settle(o) \/ LogFails(o)
      <4>1. LogFails(o) => agent'[o].life = "failed"
        BY DEF LogFails, TypeOK, Agents
      <4>2. QED BY <2>1, <3>3, <4>1, SettleLife
    <3>4. CASE SweepEnds(o) \/ Cli(o)
      BY <2>1, <3>4, CliChanges DEF SweepEnds
    <3>5. QED BY <3>1, <3>2, <3>3, <3>4 DEF Event
  <2>3. \A p \in Objects \ {o} : queue'[p] = queue[p]
    BY CliChanges DEF Event, OnExit, SweepEnds, OnLine, Settle, LogFails, Enqueue, TypeOK
  <2>4. QED BY <1>0, <2>2, <2>3, LivesKeptIf DEF Bears
<1>2. CASE cli[o].st = "none"
  <2>1. SweepEnds(o) \/ Settle(o)
    BY <1>2 DEF Event, OnExit, OnLine, LogFails, Cli, TakeTurn, FoldIn, EndTurn, Background,
       Exit, Crash, Running
  <2>2. UNCHANGED <<cli, queue>> /\ agent'[o].life = agent[o].life
    BY <2>1, SettleLife DEF SweepEnds, Settle
  <2>3. LivesKept
    BY <1>0, <2>2 DEF LivesKept
  <2>4. QED BY <1>0, <2>3 DEF Bears
<1>3. QED BY <1>1, <1>2

-----------------------------------------------------------------------------
(* Requests: a message arrives, or a stop overtakes those that wait.         *)

(* t is put behind o's queue with the message m, or none; an object with     *)
(* tasks has the stops it had.                                               *)
Arrives(o, t, m) ==
  /\ Enqueue(o, t) /\ t.msg = m
  /\ t.kind \in Starters /\ t.stops <= agent'[o].stops
  /\ \A p \in Objects : queue[p] # <<>> => agent'[p].stops = agent[p].stops
  /\ m # 0 => msg[m] = "new"
  /\ msg' = [k \in Messages |-> IF k = m THEN "queued" ELSE msg[k]]
  /\ cli' = cli

LEMMA ArrivesKeeps ==
  ASSUME TypeOK, TypeOK', Waiting, NEW o \in Objects, NEW t \in Tasks,
         NEW m \in Messages \cup {0}, Arrives(o, t, m)
  PROVE  Waiting' /\ StopStep
<1>1. ASSUME NEW p \in Objects, NEW i \in 1..Len(queue'[p])
      PROVE  \/ i \in 1..Len(queue[p]) /\ queue'[p][i] = queue[p][i]
             \/ p = o /\ i = Len(queue[o]) + 1 /\ queue'[p][i] = t
  <2>1. queue[p] \in Seq(Tasks)
    BY DEF TypeOK
  <2>2. queue'[p] = IF p = o THEN Append(queue[o], t) ELSE queue[p]
    BY DEF Arrives, Enqueue, TypeOK
  <2>3. CASE p # o
    BY <2>2, <2>3
  <2>4. CASE p = o
    <3>1. Len(queue'[p]) = Len(queue[p]) + 1
      BY <2>1, <2>2, <2>4
    <3>2. CASE i = Len(queue[p]) + 1
      BY <2>1, <2>2, <2>4, <3>2
    <3>3. CASE i # Len(queue[p]) + 1
      <4>1. i \in 1..Len(queue[p])
        BY <2>1, <3>1, <3>3
      <4>2. QED BY <2>1, <2>2, <2>4, <4>1
    <3>4. QED BY <3>2, <3>3
  <2>5. QED BY <2>3, <2>4
<1>2. ASSUME m # 0
      PROVE  /\ m \in Messages
             /\ \A p \in Objects : m \notin Unfinished(p)
             /\ \A p \in Objects : \A i \in 1..Len(queue[p]) : queue[p][i].msg # m
  BY <1>2 DEF Arrives, Waiting, Carries
<1>3. ASSUME NEW p \in Objects, NEW i \in 1..Len(queue'[p]), queue'[p][i].msg # 0
      PROVE  Carried(p, queue'[p][i])
  <2>1. CASE i \in 1..Len(queue[p]) /\ queue'[p][i] = queue[p][i]
    <3>1. Carries(p, queue[p][i]) /\ queue[p][i].msg \in Messages
      BY <1>3, <2>1, TasksTyped DEF Waiting
    <3>2. queue[p] # <<>>
      BY <2>1
    <3>3. queue[p][i].msg # m
      BY <1>2, <1>3, <2>1
    <3>4. msg'[queue[p][i].msg] = msg[queue[p][i].msg]
      BY <3>1, <3>3 DEF Arrives
    <3>5. agent'[p].stops = agent[p].stops
      BY <3>2 DEF Arrives
    <3>6. QED BY <1>3, <2>1, <3>1, <3>4, <3>5 DEF Carries, Carried
  <2>2. CASE p = o /\ queue'[p][i] = t
    BY <1>2, <1>3, <2>2 DEF Arrives, Carried
  <2>3. QED BY <1>1, <1>3, <2>1, <2>2
<1>4. ASSUME NEW p \in Objects, NEW q \in Objects,
             NEW i \in 1..Len(queue'[p]), NEW j \in 1..Len(queue'[q]),
             queue'[p][i].msg = queue'[q][j].msg, queue'[p][i].msg # 0
      PROVE  p = q /\ i = j
  <2>1. CASE i \in 1..Len(queue[p]) /\ queue'[p][i] = queue[p][i]
    <3>1. queue'[p][i].msg # m
      BY <1>2, <1>4, <2>1
    <3>2. j \in 1..Len(queue[q]) /\ queue'[q][j] = queue[q][j]
      BY <1>1, <1>4, <3>1 DEF Arrives
    <3>3. QED BY <1>4, <2>1, <3>2 DEF Waiting
  <2>2. CASE p = o /\ i = Len(queue[o]) + 1 /\ queue'[p][i] = t
    <3>1. queue'[q][j].msg = m /\ m # 0
      BY <1>4, <2>2 DEF Arrives
    <3>2. q = o /\ j = Len(queue[o]) + 1
      BY <1>1, <1>2, <3>1
    <3>3. QED BY <2>2, <3>2
  <2>3. QED BY <1>1, <2>1, <2>2
<1>5. ASSUME NEW p \in Objects, NEW k \in Unfinished(p)'
      PROVE  msg'[k] \notin Waits
  <2>1. k \in Unfinished(p) /\ k \in Messages
    BY <1>5, SameUnfinished, UnfinishedTyped DEF Arrives
  <2>2. k # m
    BY <1>2, <2>1 DEF Messages
  <2>3. QED BY <2>1, <2>2 DEF Arrives, Waiting, Waits
<1>6. StopStep
  BY DEF StopStep, Arrives
<1>7. QED BY <1>3, <1>4, <1>5, <1>6, WaitingNext

LEMMA StopKeeps ==
  ASSUME TypeOK, TypeOK', Waiting, NEW o \in Objects, ReqStop(o)
  PROVE  Waiting' /\ StopStep
<1> DEFINE mine == {queue[o][i].msg : i \in 1..Len(queue[o])}
<1>1. \A p \in Objects : Shifted(p, 0)
  BY SimpleTasks, EnqueueShifted DEF ReqStop, Kinds
<1>2. msg' = [m \in Messages |-> IF m \in mine THEN "overtaken" ELSE msg[m]]
  BY DEF ReqStop
<1>3. agent'[o].stops = agent[o].stops + 1 /\ agent[o].stops \in Nat
  BY DEF ReqStop, TypeOK, Agents
<1>4. \A p \in Objects \ {o} : agent'[p].stops = agent[p].stops
  BY DEF ReqStop, TypeOK
<1>5. ASSUME NEW p \in Objects, NEW i \in 1..Len(queue'[p]), queue'[p][i].msg # 0
      PROVE  i \in 1..Len(queue[p]) /\ queue'[p][i] = queue[p][i] /\ queue[p][i].msg \in Messages
  <2>1. i + 0 \in 1..Len(queue[p]) /\ queue'[p][i] = queue[p][i + 0]
    BY <1>1, <1>5 DEF Shifted
  <2>2. i + 0 = i
    OBVIOUS
  <2>3. QED BY <1>5, <2>1, <2>2, TasksTyped
<1>6. ASSUME NEW p \in Objects, NEW i \in 1..Len(queue'[p]), queue'[p][i].msg # 0
      PROVE  Carried(p, queue'[p][i])
  <2>1. /\ i \in 1..Len(queue[p]) /\ queue'[p][i] = queue[p][i] /\ queue[p][i].msg \in Messages
        /\ Carries(p, queue[p][i]) /\ queue[p][i].stops \in Nat
    BY <1>5, <1>6, TasksTyped DEF Waiting
  <2>2. CASE p = o
    <3>1. queue[p][i].msg \in mine
      BY <2>1, <2>2
    <3>2. msg'[queue[p][i].msg] = "overtaken"
      BY <1>2, <2>1, <3>1
    <3>3. QED BY <1>3, <1>6, <2>1, <2>2, <3>2 DEF Carries, Carried
  <2>3. CASE p # o
    <3>1. queue[p][i].msg \notin mine
      BY <1>6, <2>1, <2>3 DEF Waiting
    <3>2. msg'[queue[p][i].msg] = msg[queue[p][i].msg]
      BY <1>2, <2>1, <3>1
    <3>3. QED BY <1>4, <1>6, <2>1, <2>3, <3>2 DEF Carries, Carried
  <2>4. QED BY <2>2, <2>3
<1>7. ASSUME NEW p \in Objects, NEW q \in Objects,
             NEW i \in 1..Len(queue'[p]), NEW j \in 1..Len(queue'[q]),
             queue'[p][i].msg = queue'[q][j].msg, queue'[p][i].msg # 0
      PROVE  p = q /\ i = j
  <2>1. i \in 1..Len(queue[p]) /\ queue'[p][i] = queue[p][i]
    BY <1>5, <1>7
  <2>2. j \in 1..Len(queue[q]) /\ queue'[q][j] = queue[q][j]
    BY <1>5, <1>7
  <2>3. QED BY <1>7, <2>1, <2>2 DEF Waiting
<1>8. ASSUME NEW p \in Objects, NEW m \in Unfinished(p)'
      PROVE  msg'[m] \notin Waits
  <2>1. m \in Unfinished(p) /\ m \in Messages /\ msg[m] \notin Waits
    BY <1>8, SameUnfinished, UnfinishedTyped DEF ReqStop, Waiting, Waits
  <2>2. m \notin mine
    BY <2>1 DEF Waiting, Carries, Waits, Messages
  <2>3. QED BY <1>2, <2>1, <2>2
<1>9. StopStep
  BY <1>2 DEF StopStep
<1>10. QED BY <1>6, <1>7, <1>8, <1>9, WaitingNext

LEMMA RequestKeeps ==
  ASSUME TypeOK, TypeOK', Born, Waiting, NEW o \in Objects, Request(o)
  PROVE  Born' /\ Waiting' /\ StopStep
<1>1. ASSUME NEW m \in Messages \cup {0}, ReqSpawn(o, m)
      PROVE  Born' /\ Waiting' /\ StopStep
  <2>1. queue[o] = <<>> /\ IdOf(o) \in Ids
    BY <1>1, ObjectsAreNamed DEF ReqSpawn, Born
  <2>2. agent'[o] = Fresh /\ \A p \in Objects \ {o} : agent'[p] = agent[p]
    BY <1>1 DEF ReqSpawn, TypeOK
  <2>3. Task("spawn", m, 0, NoObj) \in Tasks
    BY TaskRecords
  <2>4. \A p \in Objects \ {o} : queue'[p] = queue[p] /\ (Known(p)' => Known(p))
    <3>1. \A p \in Objects \ {o} : queue'[p] = queue[p]
      BY <1>1 DEF ReqSpawn, Enqueue, TypeOK
    <3>2. \A p \in Objects \ {o} : Known(p)' => Known(p)
      BY <1>1, ObjectsAreNamed DEF ReqSpawn, Known, TypeOK
    <3>3. QED BY <3>1, <3>2
  <2>5. Waiting' /\ StopStep
    <3>1. Fresh.stops = 0
      BY DEF Fresh
    <3>2. Arrives(o, Task("spawn", m, 0, NoObj), m)
      BY <1>1, <2>1, <2>2, <3>1 DEF Arrives, ReqSpawn, NextNew, Task, Starters
    <3>3. QED BY <2>3, <3>2, ArrivesKeeps
  <2>6. Born'
    <3>1. Fresh.life = "starting"
      BY DEF Fresh
    <3>2. \A i \in Ids : current'[i] # NoObj => IdOf(current'[i]) = i
      BY <1>1, <2>1 DEF ReqSpawn, Born, TypeOK
    <3>3. \A p \in Objects : agent[p].life # "unborn" => agent'[p].life # "unborn"
      BY <2>2, <3>1
    <3>4. room' \in [Objects -> Rooms] /\ UNCHANGED <<room, saved, cli>>
      BY <1>1 DEF ReqSpawn, TypeOK
    <3>5. \A p \in Objects : /\ room'[p].prev # "unborn"
                             /\ \A v \in room'[p].todo : agent'[v].life # "unborn"
      BY <3>3, <3>4 DEF Born, Rooms
    <3>6. \A p \in Objects : agent'[p].life = "unborn" =>
                             queue'[p] = <<>> /\ ~Known(p)' /\ cli'[p].st = "none"
      BY <2>2, <2>4, <3>1, <3>4 DEF Born
    <3>7. QED BY <3>2, <3>4, <3>5, <3>6 DEF Born
  <2>7. QED BY <2>5, <2>6
<1>2. CASE \/ \E m \in Messages : ReqSend(o, m)
           \/ ReqStop(o) \/ ReqRemove(o) \/ ReqHibernate(o)
  <2>1. Known(o) /\ agent[o].life # "unborn"
    BY <1>2 DEF ReqSend, ReqStop, ReqRemove, ReqHibernate, Accepts, Born
  <2>2. Born'
    <3>1. agent'[o].life = agent[o].life /\ \A p \in Objects \ {o} : agent'[p] = agent[p]
      BY <1>2 DEF ReqSend, ReqStop, ReqRemove, ReqHibernate, TypeOK, Agents
    <3>2. \A p \in Objects \ {o} : queue'[p] = queue[p] /\ cli'[p] = cli[p]
      BY <1>2 DEF ReqSend, ReqStop, ReqRemove, ReqHibernate, Enqueue, TypeOK
    <3>3. UNCHANGED <<current, room, saved>>
      BY <1>2 DEF ReqSend, ReqStop, ReqRemove, ReqHibernate
    <3>4. Bears
      BY <2>1, <3>1, <3>2, <3>3, LivesKeptIf, SameRooms, ForgetBears DEF Bears
    <3>5. QED BY <3>4, BearsKeep
  <2>3. ASSUME NEW m \in Messages, ReqSend(o, m) PROVE Waiting' /\ StopStep
    <3>1. Task("send", m, agent[o].stops, NoObj) \in Tasks
      BY TaskRecords DEF TypeOK, Agents
    <3>2. agent[o].stops \in Nat
      BY DEF TypeOK, Agents
    <3>3. msg' = [k \in Messages |-> IF k = m THEN "queued" ELSE msg[k]]
      BY <2>3 DEF ReqSend, TypeOK
    <3>4. PICK t \in Tasks : t = Task("send", m, agent[o].stops, NoObj)
      BY <3>1
    <3>5. t.msg = m /\ t.kind \in Starters /\ t.stops = agent[o].stops
      BY <3>4 DEF Task, Starters
    <3>6. Enqueue(o, t) /\ msg[m] = "new" /\ UNCHANGED <<agent, cli>>
      BY <2>3, <3>4 DEF ReqSend, NextNew
    <3>7. t.stops <= agent'[o].stops
      BY <3>2, <3>5, <3>6
    <3>8. Arrives(o, t, m)
      BY <3>3, <3>5, <3>6, <3>7 DEF Arrives
    <3>9. QED BY <3>8, ArrivesKeeps
  <2>4. CASE ReqRemove(o) \/ ReqHibernate(o)
    <3>1. SameStops
      <4>1. agent[o] \in Agents
        BY DEF TypeOK
      <4>2. agent'[o].stops = agent[o].stops
        BY <2>4, <4>1 DEF ReqRemove, ReqHibernate, TypeOK, Agents
      <4>3. \A p \in Objects \ {o} : agent'[p] = agent[p]
        BY <2>4 DEF ReqRemove, ReqHibernate, TypeOK
      <4>4. QED BY <4>2, <4>3 DEF SameStops
    <3>2. \A p \in Objects : Shifted(p, 0)
      BY <2>4, SimpleTasks, EnqueueShifted DEF ReqRemove, ReqHibernate, Kinds
    <3>3. Rests
      BY <2>4, <3>1, <3>2, RestsIf DEF ReqRemove, ReqHibernate
    <3>4. QED BY <2>2, <3>3, RestsKeep
  <2>5. ReqStop(o) => Waiting' /\ StopStep
    BY StopKeeps
  <2>6. QED BY <1>2, <2>2, <2>3, <2>4, <2>5
<1>3. QED BY <1>1, <1>2 DEF Request

-----------------------------------------------------------------------------
(* The host's own steps.                                                     *)

LEMMA HostKeeps ==
  ASSUME TypeOK, TypeOK', Born, Waiting, Host
  PROVE  Born' /\ Waiting' /\ StopStep
<1>1. CASE HostRestart
  <2>1. \A o \in Objects : queue'[o] = <<>> /\ cli'[o] = NoProcess /\ room'[o] = NoRoom
    BY <1>1 DEF HostRestart
  <2>2. Waiting'
    <3>1. \A o \in Objects : Unfinished(o)' = {}
      BY <2>1 DEF Unfinished, NoProcess
    <3>2. QED BY <2>1, <3>1, WaitingNext
  <2>3. StopStep
    BY <1>1 DEF HostRestart, StopStep
  <2>4. Born'
    <3>1. \A i \in Ids : current'[i] \in {current[i], NoObj}
      BY <1>1 DEF HostRestart
    <3>2. ASSUME NEW o \in Objects, agent'[o].life = "unborn"
          PROVE  agent[o].life = "unborn"
      <4>1. saved[IdOf(o)] # "unborn"
        BY ObjectsAreNamed DEF Born
      <4>2. [agent[o] EXCEPT !.settle = FALSE].life = agent[o].life
        BY DEF TypeOK, Agents
      <4>3. QED BY <1>1, <3>2, <4>1, <4>2 DEF HostRestart, Fresh
    <3>3. LivesKept
      BY <2>1, <3>2 DEF LivesKept, Born, NoProcess
    <3>4. RoomsKept
      BY <2>1 DEF RoomsKept, NoRoom
    <3>5. Bears
      BY <1>1, <3>1, <3>3, <3>4 DEF Bears, IdsKept, HostRestart
    <3>6. QED BY <3>5, BearsKeep
  <2>5. QED BY <2>2, <2>3, <2>4
<1>2. CASE DrainEnds
  <2>1. \A p \in Objects : queue'[p] = (IF Known(p) THEN Append(queue[p], Simple("drain")) ELSE queue[p])
    BY <1>2 DEF DrainEnds, ToEnd
  <2>2. Simple("drain") \in Tasks /\ Simple("drain").msg = 0
    BY SimpleTasks DEF Kinds
  <2>3. ASSUME NEW p \in Objects PROVE Shifted(p, 0)
    <3>1. queue[p] \in Seq(Tasks)
      BY DEF TypeOK
    <3>2. CASE Known(p)
      <4>1. queue'[p] = Append(queue[p], Simple("drain"))
        BY <2>1, <3>2
      <4>2. ASSUME NEW i \in 1..Len(queue'[p]), queue'[p][i].msg # 0
            PROVE  i \in 1..Len(queue[p]) /\ queue'[p][i] = queue[p][i]
        BY <2>2, <3>1, <4>1, <4>2
      <4>3. QED BY <4>2 DEF Shifted
    <3>3. CASE ~Known(p)
      BY <2>1, <3>1, <3>3 DEF Shifted
    <3>4. QED BY <3>2, <3>3
  <2>4. Rests
    <3>1. SameStops /\ UNCHANGED <<cli, msg>>
      BY <1>2 DEF DrainEnds, SameStops
    <3>2. QED BY <2>3, <3>1, RestsIf
  <2>5. Bears
    <3>1. LivesKept
      BY <1>2, <2>1 DEF DrainEnds, LivesKept, Born
    <3>2. QED BY <1>2, <3>1, SameRooms, ForgetBears DEF DrainEnds, Bears, IdsKept
  <2>6. QED BY <2>4, <2>5, RestsKeep, BearsKeep
<1>3. CASE UNCHANGED <<current, agent, cli, queue, room, msg>> /\ (saved' = saved \/ Persist)
  <2>1. Rests
    BY <1>3, SameShifted, RestsIf DEF SameStops
  <2>2. Bears
    BY <1>3, SameRooms DEF Bears, LivesKept, IdsKept
  <2>3. QED BY <2>1, <2>2, RestsKeep, BearsKeep
<1>4. QED BY <1>1, <1>2, <1>3 DEF Host, Drain, DrainCuts, Closed, LogDeleted

LEMMA NextKeeps ==
  ASSUME TypeOK, TypeOK', Born, Waiting, [Next]_vars
  PROVE  Born' /\ Waiting' /\ StopStep
<1>1. CASE UNCHANGED vars
  <2>1. Rests
    BY <1>1, SameShifted, RestsIf DEF vars, SameStops
  <2>2. Bears
    BY <1>1, SameRooms DEF vars, Bears, LivesKept, IdsKept
  <2>3. QED BY <2>1, <2>2, RestsKeep, BearsKeep
<1>2. ASSUME NEW o \in Objects, Go(o) PROVE Born' /\ Waiting' /\ StopStep
  <2>1. Busy(o) /\ (Rests \/ Serves(o))
    BY <1>2, GoWaits
  <2>2. Bears
    BY <1>2, <2>1, GoBears
  <2>3. QED BY <2>1, <2>2, RestsKeep, ServesKeep, BearsKeep
<1>3. ASSUME NEW o \in Objects, Event(o) \/ Cli(o) PROVE Born' /\ Waiting' /\ StopStep
  BY <1>3, EventWaits, CliWaits, EventBears, RestsKeep, BearsKeep
<1>4. QED BY <1>1, <1>2, <1>3, RequestKeeps, HostKeeps DEF Next

(* Whoever waits, waits in one place, and a message is handed on only by the *)
(* start it belongs to: Born and Waiting hold in every reachable state.      *)
LEMMA WaitingInvariant == Spec => [](Born /\ Waiting)
<1>1. Init => Born /\ Waiting
  <2> SUFFICES ASSUME Init PROVE Born /\ Waiting
    OBVIOUS
  <2>1. \A o \in Objects : ~Known(o)
    BY ObjectsAreNamed DEF Init, Known
  <2>2. Born
    BY <2>1 DEF Init, Born, NoRoom, NoProcess
  <2>3. \A o \in Objects : queue[o] = <<>> /\ Unfinished(o) = {}
    BY DEF Init, NoProcess, Unfinished
  <2>4. QED BY <2>2, <2>3 DEF Waiting
<1>2. TypeOK /\ TypeOK' /\ Born /\ Waiting /\ [Next]_vars => (Born /\ Waiting)'
  BY NextKeeps
<1>3. QED BY <1>1, <1>2, TypeCorrect, PTL DEF Spec

(* StopWins: no message that was queued when a stop was requested is written *)
(* to a process afterwards; all that can become of it is to be refused.      *)
THEOREM StopsWin == Spec => StopWins
<1>1. TypeOK /\ TypeOK' /\ Born /\ Waiting /\ [Next]_vars =>
        [\A m \in Messages : msg[m] = "overtaken" => msg'[m] \in {"overtaken", "refused"}]_vars
  BY NextKeeps DEF StopStep
<1>2. QED BY <1>1, TypeCorrect, WaitingInvariant, PTL DEF Spec, StopWins

-----------------------------------------------------------------------------
(* What a step of an object's queue does to the queues.                      *)

Tasked(p) == 1 .. Len(queue[p])

(* p's tasks are k places further on than before, and what is added asks for *)
(* a hibernation or follows a log that failed.                               *)
Kept(p, k) ==
  /\ \A i \in Tasked(p) : i > k =>
       i - k \in 1 .. Len(queue'[p]) /\ queue'[p][i - k] = queue[p][i]
  /\ \A i \in 1 .. Len(queue'[p]) :
       \/ i + k \in Tasked(p) /\ queue'[p][i] = queue[p][i + k]
       \/ queue'[p][i].kind \in {"hibernate", "log_error"} /\ i + k > Len(queue[p])

LEMMA SameKept ==
  ASSUME TypeOK, NEW p \in Objects, queue'[p] = queue[p]
  PROVE  Kept(p, 0)
BY DEF TypeOK, Kept, Tasked

LEMMA AppendKept ==
  ASSUME TypeOK, NEW p \in Objects, NEW t \in Tasks, t.kind \in {"hibernate", "log_error"},
         queue'[p] = Append(queue[p], t)
  PROVE  Kept(p, 0)
<1>1. queue[p] \in Seq(Tasks)
  BY DEF TypeOK
<1>2. /\ Len(queue'[p]) = Len(queue[p]) + 1 /\ Len(queue[p]) \in Nat
      /\ \A i \in 1 .. Len(queue[p]) : queue'[p][i] = queue[p][i]
      /\ queue'[p][Len(queue[p]) + 1] = t
  BY <1>1
<1>3. QED BY <1>2 DEF Kept, Tasked

LEMMA TailKept ==
  ASSUME TypeOK, NEW p \in Objects, Busy(p), queue'[p] = Tail(queue[p])
  PROVE  Kept(p, 1)
<1>1. queue[p] \in Seq(Tasks) /\ queue[p] # <<>>
  BY DEF TypeOK, Busy
<1>2. /\ Len(queue'[p]) = Len(queue[p]) - 1 /\ Len(queue[p]) \in Nat \ {0}
      /\ \A i \in 1 .. Len(queue[p]) - 1 : queue'[p][i] = queue[p][i + 1]
  BY <1>1
<1>3. \A i \in Tasked(p) : i > 1 => i - 1 \in 1 .. Len(queue'[p]) /\ queue'[p][i - 1] = queue[p][i]
  <2> TAKE i \in Tasked(p)
  <2> HAVE i > 1
  <2>1. i - 1 \in 1 .. Len(queue[p]) - 1 /\ (i - 1) + 1 = i
    BY <1>2 DEF Tasked
  <2>2. QED BY <1>2, <2>1
<1>4. QED BY <1>2, <1>3 DEF Kept, Tasked

LEMMA TailAppendKept ==
  ASSUME TypeOK, NEW p \in Objects, Busy(p), NEW t \in Tasks, t.kind \in {"hibernate", "log_error"},
         queue'[p] = Append(Tail(queue[p]), t)
  PROVE  Kept(p, 1)
<1>1. queue[p] \in Seq(Tasks) /\ queue[p] # <<>>
  BY DEF TypeOK, Busy
<1> DEFINE q == Tail(queue[p])
<1>2. /\ q \in Seq(Tasks) /\ Len(q) = Len(queue[p]) - 1 /\ Len(queue[p]) \in Nat \ {0}
      /\ \A i \in 1 .. Len(queue[p]) - 1 : q[i] = queue[p][i + 1]
  BY <1>1
<1> HIDE DEF q
<1>3. /\ Len(queue'[p]) = Len(queue[p]) /\ queue'[p][Len(queue[p])] = t
      /\ \A i \in 1 .. Len(queue[p]) - 1 : queue'[p][i] = queue[p][i + 1]
  <2>1. queue'[p] = Append(q, t)
    BY DEF q
  <2>2. QED BY <1>2, <2>1
<1>4. \A i \in Tasked(p) : i > 1 => i - 1 \in 1 .. Len(queue'[p]) /\ queue'[p][i - 1] = queue[p][i]
  <2> TAKE i \in Tasked(p)
  <2> HAVE i > 1
  <2>1. i - 1 \in 1 .. Len(queue[p]) - 1 /\ (i - 1) + 1 = i
    BY <1>2 DEF Tasked
  <2>2. QED BY <1>3, <2>1
<1>5. QED BY <1>2, <1>3, <1>4 DEF Kept, Tasked

(* A step of o's queue: its head goes on, asks another agent to hibernate,   *)
(* or ends.                                                                  *)
GoesOn(o) ==
  /\ \A p \in Objects : p # o => Kept(p, 0)
  /\ \/ Kept(o, 0) /\ pc'[o] # "idle"
     \/ Kept(o, 1) /\ pc'[o] = "idle"
  /\ \A p \in Objects : p # o => pc'[p] = pc[p]

LEMMA DequeueGoes ==
  ASSUME TypeOK, NEW o \in Objects, Busy(o), Dequeue(o)
  PROVE  GoesOn(o) /\ Kept(o, 1) /\ pc'[o] = "idle"
<1>1. \A p \in Objects : p # o => queue'[p] = queue[p] /\ pc'[p] = pc[p]
  BY DEF Dequeue, TypeOK
<1>2. queue'[o] = Tail(queue[o]) /\ pc'[o] = "idle"
  BY DEF Dequeue, TypeOK
<1>3. QED BY <1>1, <1>2, SameKept, TailKept DEF GoesOn

LEMMA StepGoes ==
  ASSUME TypeOK, NEW o \in Objects, NEW s \in Stages \ {"idle"}, Step(o, s), queue' = queue
  PROVE  GoesOn(o)
BY SameKept DEF Step, GoesOn, TypeOK

LEMMA AskGoes ==
  ASSUME TypeOK, NEW o \in Objects, NEW v \in Objects, Enqueue(v, Task("hibernate", 0, 0, o)),
         Step(o, "room") \/ (pc' = pc /\ pc[o] = "room")
  PROVE  GoesOn(o)
<1>1. Task("hibernate", 0, 0, o) \in Tasks /\ Task("hibernate", 0, 0, o).kind = "hibernate"
  BY TaskRecords DEF Task
<1>2. Kept(v, 0)
  BY <1>1, AppendKept DEF Enqueue, TypeOK
<1>3. \A p \in Objects : p # v => Kept(p, 0)
  BY SameKept DEF Enqueue, TypeOK
<1>4. pc'[o] = "room" /\ \A p \in Objects : p # o => pc'[p] = pc[p]
  BY DEF Step, TypeOK
<1>5. QED BY <1>2, <1>3, <1>4 DEF GoesOn

LEMMA MakeRoomGoes ==
  ASSUME TypeOK, NEW o \in Objects, Busy(o), MakeRoom(o)
  PROVE  GoesOn(o)
<1>1. CASE FailStart(o)
  BY <1>1, DequeueGoes DEF FailStart
<1>2. CASE Step(o, "fork") /\ queue' = queue
  BY <1>2, StepGoes DEF Stages
<1>3. ASSUME NEW v \in LiveBeside(o), Enqueue(v, Task("hibernate", 0, 0, o)), Step(o, "room")
      PROVE  GoesOn(o)
  <2>1. v \in Objects
    BY DEF LiveBeside
  <2>2. QED BY <1>3, <2>1, AskGoes
<1>4. QED BY <1>1, <1>2, <1>3 DEF MakeRoom

LEMMA StartProcessGoes ==
  ASSUME TypeOK, NEW o \in Objects, Busy(o), StartProcess(o)
  PROVE  GoesOn(o)
<1>1. CASE FailStart(o)
  BY <1>1, DequeueGoes DEF FailStart
<1>2. CASE Step(o, "start") /\ queue' = queue
  BY <1>2, StepGoes DEF Stages
<1>3. QED BY <1>1, <1>2, MakeRoomGoes DEF StartProcess

LEMMA EndsGo ==
  ASSUME TypeOK, NEW o \in Objects, Busy(o)
  PROVE  /\ \A why \in Endings : End(o, why) => GoesOn(o)
         /\ Stopped(o) \/ Removed(o) \/ Dropped(o) => GoesOn(o)
         /\ \A ok \in BOOLEAN : HibernateEnds(o, ok) => GoesOn(o)
BY StepGoes, DequeueGoes DEF End, Stopped, Removed, Dropped, HibernateEnds, Stages

LEMMA ForkGoes ==
  ASSUME TypeOK, NEW o \in Objects, ForkSucceeds(o)
  PROVE  GoesOn(o)
<1>1. Busy(o) /\ Simple("log_error") \in Tasks /\ Simple("log_error").kind = "log_error"
  BY TaskRecords DEF ForkSucceeds, At, Simple, Task, Kinds
<1>2. \A p \in Objects : p # o => queue'[p] = queue[p] /\ pc'[p] = pc[p]
  BY DEF ForkSucceeds, Step, TypeOK
<1>3. \/ pc'[o] = "ending" /\ queue'[o] \in {queue[o], Append(queue[o], Simple("log_error"))}
      \/ pc'[o] = "idle" /\ queue'[o] \in {Tail(queue[o]), Append(Tail(queue[o]), Simple("log_error"))}
  BY DEF ForkSucceeds, Step, TypeOK
<1>4. QED BY <1>1, <1>2, <1>3, SameKept, AppendKept, TailKept, TailAppendKept DEF GoesOn

LEMMA GoGoes ==
  ASSUME TypeOK, NEW o \in Objects, Go(o)
  PROVE  GoesOn(o) /\ Busy(o)
<1>1. Busy(o)
  BY DEF Go, RunSpawn, RunSend, Waited, RoomAnswered, ForkFails, ForkSucceeds, RunStop, RunRemove,
     RunHibernate, Detached, RunDrain, RunLogError, EndDone, At
<1>2. CASE RunSpawn(o) \/ RunSend(o) \/ Waited(o)
  BY <1>1, <1>2, StartProcessGoes, MakeRoomGoes, DequeueGoes DEF RunSpawn, RunSend, Waited, FailStart
<1>3. CASE RoomAnswered(o)
  <2>1. pc[o] = "room"
    BY <1>3 DEF RoomAnswered, At
  <2>2. ASSUME NEW v \in room[o].todo, Enqueue(v, Task("hibernate", 0, 0, o)), pc' = pc
        PROVE  GoesOn(o)
    <3>1. v \in Objects
      BY DEF TypeOK, Rooms
    <3>2. QED BY <2>1, <2>2, <3>1, AskGoes
  <2>3. CASE Step(o, "fork") /\ queue' = queue
    BY <1>1, <2>3, StepGoes DEF Stages
  <2>4. QED BY <1>1, <1>3, <2>2, <2>3, DequeueGoes DEF RoomAnswered, FailStart
<1>4. CASE ForkFails(o) \/ ForkSucceeds(o)
  BY <1>1, <1>4, DequeueGoes, ForkGoes DEF ForkFails
<1>5. CASE RunStop(o) \/ RunRemove(o) \/ RunDrain(o) \/ RunLogError(o)
  BY <1>1, <1>5, EndsGo DEF RunStop, RunRemove, RunDrain, RunLogError, Endings
<1>6. CASE RunHibernate(o) \/ Detached(o)
  <2>1. (agent[o].life = "hibernated") \in BOOLEAN
    OBVIOUS
  <2>2. QED BY <1>1, <1>6, <2>1, EndsGo, StepGoes DEF RunHibernate, Detached, Endings, Stages
<1>7. CASE EndDone(o)
  BY <1>1, <1>7, EndsGo, DequeueGoes DEF EndDone, FailStart
<1>8. QED BY <1>1, <1>2, <1>3, <1>4, <1>5, <1>6, <1>7 DEF Go

-----------------------------------------------------------------------------
(* What a step of an object's queue does to the agents, and when it forgets. *)

(* The agent's process, which only a fork makes. *)
Processed(o) ==
  /\ \A p \in Objects : p # o => cli'[p] = cli[p] /\ agent'[p] = agent[p]
  /\ agent'[o].removed = agent[o].removed
  /\ \/ cli'[o].st = cli[o].st
     \/ pc[o] = "fork" /\ Top(o).kind \in Starters /\ pc'[o] \in {"idle", "ending"}

LEMMA SameProcessed ==
  ASSUME TypeOK, NEW o \in Objects, cli' = cli,
         agent' = agent \/ (\E l : agent' = [agent EXCEPT ![o].life = l])
  PROVE  Processed(o)
<1>1. CASE agent' = agent
  BY <1>1 DEF Processed
<1>2. ASSUME NEW l, agent' = [agent EXCEPT ![o].life = l] PROVE Processed(o)
  BY <1>2 DEF Processed, TypeOK, Agents
<1>3. QED BY <1>1, <1>2

LEMMA EndProcessed ==
  ASSUME TypeOK, NEW o \in Objects, NEW why, End(o, why)
  PROVE  Processed(o)
BY DEF End, Processed, TypeOK, Agents, Processes

LEMMA MakeRoomAgents ==
  ASSUME TypeOK, NEW o \in Objects, MakeRoom(o)
  PROVE  agent' = agent \/ (\E l : agent' = [agent EXCEPT ![o].life = l])
BY DEF MakeRoom

LEMMA StartProcessAgents ==
  ASSUME TypeOK, NEW o \in Objects, StartProcess(o)
  PROVE  agent' = agent \/ (\E l : agent' = [agent EXCEPT ![o].life = l])
BY MakeRoomAgents DEF StartProcess

LEMMA GoProcessed ==
  ASSUME TypeOK, NEW o \in Objects, Go(o)
  PROVE  Processed(o)
<1>1. CASE RunSpawn(o) \/ Waited(o)
  BY <1>1, StartProcessAgents, MakeRoomAgents, SameProcessed DEF RunSpawn, Waited
<1>2. CASE RunSend(o)
  <2>1. CASE cli' = cli /\ (agent' = agent \/ StartProcess(o))
    BY <1>2, <2>1, StartProcessAgents, SameProcessed DEF RunSend
  <2>2. CASE cli' = [cli EXCEPT ![o] = Hand(@, Top(o).msg)] /\ agent' = [agent EXCEPT ![o] = WriteTo(@)]
    BY <2>2 DEF Hand, WriteTo, Processed, TypeOK, Agents, Processes
  <2>3. QED BY <1>2, <2>1, <2>2 DEF RunSend
<1>3. CASE RoomAnswered(o) \/ ForkFails(o)
  BY <1>3, SameProcessed DEF RoomAnswered, ForkFails
<1>4. CASE ForkSucceeds(o)
  <2>1. pc[o] = "fork" /\ Top(o).kind \in Starters /\ pc'[o] \in {"idle", "ending"}
    BY <1>4 DEF ForkSucceeds, At, Step, TypeOK
  <2>2. agent'[o].removed = agent[o].removed
    BY <1>4 DEF ForkSucceeds, WriteTo, TypeOK, Agents
  <2>3. \A p \in Objects : p # o => cli'[p] = cli[p] /\ agent'[p] = agent[p]
    BY <1>4 DEF ForkSucceeds, TypeOK
  <2>4. QED BY <2>1, <2>2, <2>3 DEF Processed
<1>5. CASE RunStop(o) \/ RunRemove(o) \/ RunDrain(o) \/ RunLogError(o)
  BY <1>5, EndProcessed, SameProcessed DEF RunStop, RunRemove, RunDrain, RunLogError,
     Stopped, Removed, Dropped
<1>6. CASE RunHibernate(o) \/ Detached(o)
  BY <1>6, EndProcessed, SameProcessed DEF RunHibernate, Detached
<1>7. CASE EndDone(o)
  BY <1>7, SameProcessed DEF EndDone, Stopped, Removed, Dropped
<1>8. QED BY <1>1, <1>2, <1>3, <1>4, <1>5, <1>6, <1>7 DEF Go

(* The task that forgets: a spawn refused, or a remove that found no process. *)
Forgets(o) ==
  /\ Forget(o) /\ Dequeue(o) /\ cli' = cli
  /\ Top(o).kind \in {"spawn", "remove"}
  /\ cli[o].st = "none" \/ pc[o] # "ending"
  /\ Top(o).kind = "remove" => ~Running(o)

LEMMA FailStartForgets ==
  ASSUME TypeOK, NEW o \in Objects, FailStart(o), cli' = cli, cli[o].st = "none" \/ pc[o] # "ending"
  PROVE  UNCHANGED <<current, removing>> \/ Forgets(o)
BY DEF FailStart, Forgets

LEMMA StartProcessForgets ==
  ASSUME TypeOK, NEW o \in Objects, StartProcess(o) \/ MakeRoom(o), cli' = cli, pc[o] # "ending"
  PROVE  UNCHANGED <<current, removing>> \/ Forgets(o)
BY FailStartForgets DEF StartProcess, MakeRoom

LEMMA GoForgets ==
  ASSUME TypeOK, NEW o \in Objects, Go(o)
  PROVE  UNCHANGED <<current, removing>> \/ Forgets(o)
<1>1. CASE RunSpawn(o) \/ Waited(o)
  BY <1>1, StartProcessForgets, FailStartForgets DEF RunSpawn, Waited, At
<1>2. CASE RunSend(o)
  BY <1>2, StartProcessForgets, FailStartForgets DEF RunSend, At
<1>3. CASE RoomAnswered(o)
  BY <1>3, FailStartForgets DEF RoomAnswered, At
<1>4. CASE ForkFails(o) \/ ForkSucceeds(o)
  BY <1>4 DEF ForkFails, ForkSucceeds, At, Forgets
<1>5. CASE RunStop(o) \/ RunDrain(o) \/ RunLogError(o)
  BY <1>5 DEF RunStop, RunDrain, RunLogError, End, Stopped, Dropped
<1>6. CASE RunRemove(o)
  BY <1>6 DEF RunRemove, End, Removed, Forgets, At
<1>7. CASE RunHibernate(o) \/ Detached(o)
  BY <1>7 DEF RunHibernate, Detached, End
<1>8. CASE EndDone(o)
  <2>1. cli[o].st = "none" /\ ~Running(o)
    BY <1>8 DEF EndDone, Running
  <2>2. Removed(o) /\ Top(o).kind = "remove" => Forgets(o)
    BY <2>1 DEF Removed, Forgets
  <2>3. FailStart(o) /\ UNCHANGED <<cli, sweep, room, phase, cut>> => UNCHANGED <<current, removing>> \/ Forgets(o)
    BY <2>1, FailStartForgets
  <2>4. QED BY <1>8, <2>2, <2>3 DEF EndDone, Stopped, Dropped
<1>9. QED BY <1>1, <1>2, <1>3, <1>4, <1>5, <1>6, <1>7, <1>8 DEF Go

LEMMA EndAwaited ==
  ASSUME NEW o \in Objects, Go(o), pc[o] = "ending"
  PROVE  cli[o].st = "none"
BY DEF Go, RunSpawn, RunSend, Waited, RoomAnswered, ForkFails, ForkSucceeds, RunStop, RunRemove,
   RunHibernate, Detached, RunDrain, RunLogError, EndDone, At

(* A removed agent without a process does not get one. *)
LEMMA RemovedGoes ==
  ASSUME TypeOK, NEW o \in Objects, Go(o), IsRemoved(o), ~Running(o), pc[o] = "idle"
  PROVE  pc'[o] = "idle" /\ ~Running(o)'
<1>1. ~Running(o)'
  <2>1. Processed(o)
    BY GoProcessed
  <2>2. QED BY <2>1 DEF Processed, Running
<1>2. Dequeue(o) => pc'[o] = "idle"
  BY DEF Dequeue, TypeOK
<1>3. CASE RunSpawn(o) \/ RunSend(o)
  BY <1>1, <1>2, <1>3 DEF RunSpawn, RunSend, StartProcess, FailStart
<1>4. CASE RunStop(o) \/ RunRemove(o) \/ RunDrain(o) \/ RunLogError(o)
  BY <1>1, <1>2, <1>4 DEF RunStop, RunRemove, RunDrain, RunLogError, Stopped, Removed, Dropped
<1>5. CASE RunHibernate(o)
  BY <1>1, <1>2, <1>5 DEF RunHibernate, Hibernatable, HibernateEnds
<1>6. QED BY <1>1, <1>3, <1>4, <1>5 DEF Go, Waited, RoomAnswered, ForkFails, ForkSucceeds, Detached, EndDone, At

-----------------------------------------------------------------------------
(* An agent is forgotten by its own tasks, and only once it has no process.  *)

(* A spawn is the first task of its object, which has no process before it.  *)
SpawnsFirst ==
  \A o \in Objects : \A i \in Tasked(o) : queue[o][i].kind = "spawn" =>
    i = 1 /\ Known(o) /\ (pc[o] = "ending" \/ cli[o].st = "none")

(* A remove that waits forgets the agent it was asked for, or nobody.        *)
RemovesOwn ==
  \A o \in Objects : \A i \in Tasked(o) : queue[o][i].kind = "remove" =>
    agent[o].removed /\ (Known(o) \/ IdOf(o) \in removing)

(* A removed agent that is forgotten: whatever it has queued can go on at    *)
(* once, so that none of it is left when the id is free again.               *)
ForgottenRests ==
  \A o \in Objects : agent[o].removed /\ ~Known(o) => ~Running(o) /\ pc[o] = "idle"

Forgetting == SpawnsFirst /\ RemovesOwn /\ ForgottenRests

LEMMA TopTasked ==
  ASSUME TypeOK, NEW o \in Objects, Busy(o)
  PROVE  1 \in Tasked(o) /\ Top(o) = queue[o][1]
BY DEF Busy, TypeOK, Tasked, Top

(* Whom a step of o's queue makes unknown: itself. *)
LEMMA ForgetsItself ==
  ASSUME TypeOK, NoReuseWhileDeleting, Forgetting, NEW o \in Objects, Go(o),
         NEW p \in Objects, Known(p), ~Known(p)'
  PROVE  p = o /\ Forgets(o)
<1>1. Forgets(o)
  BY GoForgets DEF Known
<1>2. IdOf(o) \in Ids /\ IdOf(p) \in Ids /\ p # NoObj
  BY ObjectsAreNamed
<1>3. IdOf(p) = IdOf(o) /\ IdOf(o) \notin removing
  BY <1>1, <1>2 DEF Forgets, Forget, Known, TypeOK
<1>4. Known(o)
  BY <1>1, <1>3, GoGoes, TopTasked DEF Forgets, Forgetting, SpawnsFirst, RemovesOwn
<1>5. QED BY <1>1, <1>3, <1>4 DEF Known

LEMMA GoForgetting ==
  ASSUME TypeOK, NoReuseWhileDeleting, Forgetting, NEW o \in Objects, Go(o)
  PROVE  Forgetting'
<1>1. GoesOn(o) /\ Processed(o) /\ Busy(o) /\ (UNCHANGED <<current, removing>> \/ Forgets(o))
  BY GoGoes, GoProcessed, GoForgets
<1>2. \A p \in Objects : agent'[p].removed = agent[p].removed
  BY <1>1 DEF Processed
<1>3. Forgets(o) => pc'[o] = "idle"
  BY <1>1, DequeueGoes DEF Forgets
<1>4. ASSUME NEW p \in Objects, NEW i \in 1 .. Len(queue'[p]), queue'[p][i].kind = "spawn"
      PROVE  i = 1 /\ Known(p)' /\ (pc'[p] = "ending" \/ cli'[p].st = "none")
  <2>1. CASE p # o
    <3>1. i \in Tasked(p) /\ queue[p][i].kind = "spawn"
      BY <1>1, <1>4, <2>1 DEF GoesOn, Kept
    <3>2. i = 1 /\ Known(p) /\ (pc[p] = "ending" \/ cli[p].st = "none")
      BY <3>1 DEF Forgetting, SpawnsFirst
    <3>3. Known(p)'
      BY <2>1, <3>2, ForgetsItself
    <3>4. QED BY <1>1, <2>1, <3>2, <3>3 DEF GoesOn, Processed
  <2>2. CASE p = o
    <3>1. PICK k \in {0, 1} : Kept(o, k) /\ (k = 0 <=> pc'[o] # "idle")
      BY <1>1 DEF GoesOn
    <3>2. i + k \in Tasked(o) /\ queue[o][i + k].kind = "spawn"
      BY <1>4, <2>2, <3>1 DEF Kept
    <3>3. i + k = 1 /\ Known(o) /\ (pc[o] = "ending" \/ cli[o].st = "none")
      BY <3>2 DEF Forgetting, SpawnsFirst
    <3>4. i = 1 /\ k = 0 /\ pc'[o] # "idle"
      BY <3>1, <3>3
    <3>5. Known(o)'
      BY <1>3, <3>3, <3>4, ForgetsItself
    <3>6. pc'[o] = "ending" \/ cli'[o].st = "none"
      BY <1>1, <3>3, <3>4, EndAwaited DEF Processed
    <3>7. QED BY <2>2, <3>4, <3>5, <3>6
  <2>3. QED BY <2>1, <2>2
<1>5. ASSUME NEW p \in Objects, NEW i \in 1 .. Len(queue'[p]), queue'[p][i].kind = "remove"
      PROVE  agent'[p].removed /\ (Known(p)' \/ IdOf(p) \in removing')
  <2>1. \E j \in Tasked(p) : queue[p][j].kind = "remove"
    BY <1>1, <1>5 DEF GoesOn, Kept
  <2>2. agent[p].removed /\ (Known(p) \/ IdOf(p) \in removing)
    BY <2>1 DEF Forgetting, RemovesOwn
  <2>3. UNCHANGED <<current, removing>> \/ Forget(o)
    BY <1>1 DEF Forgets
  <2>4. Known(p)' \/ IdOf(p) \in removing'
    BY <2>2, <2>3, ObjectsAreNamed DEF Forget, Known, TypeOK
  <2>5. QED BY <1>2, <2>2, <2>4
<1>6. ASSUME NEW p \in Objects, agent'[p].removed, ~Known(p)'
      PROVE  ~Running(p)' /\ pc'[p] = "idle"
  <2>1. CASE Known(p)
    <3>1. p = o /\ Forgets(o)
      BY <1>6, <2>1, ForgetsItself
    <3>2. Top(o).kind = "spawn" => pc[o] = "ending" \/ cli[o].st = "none"
      BY <1>1, TopTasked DEF Forgetting, SpawnsFirst
    <3>3. ~Running(o)
      BY <3>1, <3>2 DEF Forgets, Running
    <3>4. QED BY <1>3, <3>1, <3>3 DEF Forgets, Running
  <2>2. CASE ~Known(p)
    <3>1. ~Running(p) /\ pc[p] = "idle" /\ agent[p].removed
      BY <1>2, <1>6, <2>2 DEF Forgetting, ForgottenRests
    <3>2. CASE p = o
      BY <3>1, <3>2, RemovedGoes DEF IsRemoved
    <3>3. CASE p # o
      BY <1>1, <3>1, <3>3 DEF GoesOn, Processed, Running
    <3>4. QED BY <3>2, <3>3
  <2>3. QED BY <2>1, <2>2
<1>7. SpawnsFirst'
  BY <1>4 DEF SpawnsFirst, Tasked
<1>8. RemovesOwn'
  BY <1>5 DEF RemovesOwn, Tasked
<1>9. ForgottenRests'
  BY <1>6 DEF ForgottenRests
<1>10. QED BY <1>7, <1>8, <1>9 DEF Forgetting

-----------------------------------------------------------------------------
(* Steps that are not of a queue: requests, events, the CLI's, the host's.   *)

(* A task joins p's queue. *)
Joins(p, t) ==
  /\ queue'[p] = Append(queue[p], t) /\ t.for = NoObj
  /\ t.kind = "spawn" => queue[p] = <<>> /\ Known(p)' /\ cli[p].st = "none"
  /\ t.kind = "remove" => agent'[p].removed /\ Known(p)
  /\ t.kind \in Starters => ~Draining
  /\ t.kind = "drain" => DrainEnds

Elsewhere ==
  /\ UNCHANGED <<pc, room>>
  /\ phase' = phase \/ Drain \/ DrainCuts \/ DrainEnds \/ Closed
  /\ \A p \in Objects :
       /\ queue'[p] = queue[p] \/ \E t \in Tasks : Joins(p, t)
       /\ \/ cli'[p].st \in {cli[p].st, "none"}
          \/ Running(p) /\ cli'[p].st = "gone"
       /\ agent'[p].removed => agent[p].removed \/ Known(p)
       /\ agent[p].removed => agent'[p].removed \/ queue[p] = <<>>
       /\ agent'[p].life = "alive" => agent[p].life = "alive"
       /\ Known(p) => Known(p)'
       /\ Draining /\ Known(p)' => Known(p)
       /\ IdOf(p) \in removing => IdOf(p) \in removing' \/ Quiet

LEMMA RequestElsewhere ==
  ASSUME TypeOK, Born, NEW o \in Objects, Request(o)
  PROVE  Elsewhere
<1>1. ASSUME NEW m \in Messages \cup {0}, ReqSpawn(o, m) PROVE Elsewhere
  <2>1. queue[o] = <<>> /\ cli[o].st = "none" /\ ~Known(o) /\ IdOf(o) \in Ids
    BY <1>1, ObjectsAreNamed DEF ReqSpawn, Born
  <2>2. agent'[o].removed = FALSE /\ agent'[o].life = "starting" /\ \A p \in Objects : p # o => agent'[p] = agent[p]
    BY <1>1 DEF ReqSpawn, Fresh, TypeOK
  <2>3. Known(o)' /\ \A p \in Objects : Known(p) => Known(p)'
    BY <1>1, <2>1, ObjectsAreNamed DEF ReqSpawn, Free, Known, TypeOK
  <2> DEFINE t == Task("spawn", m, 0, NoObj)
  <2>4. t \in Tasks /\ t.kind = "spawn" /\ t.for = NoObj
    BY TaskRecords DEF Task
  <2>5. queue'[o] = Append(queue[o], t) /\ \A p \in Objects : p # o => queue'[p] = queue[p]
    BY <1>1 DEF ReqSpawn, Enqueue, TypeOK
  <2> HIDE DEF t
  <2>6. Joins(o, t)
    BY <1>1, <2>1, <2>3, <2>4, <2>5 DEF Joins, ReqSpawn
  <2>7. UNCHANGED <<pc, room, cli, removing, phase>> /\ ~Draining
    BY <1>1 DEF ReqSpawn
  <2>8. QED BY <2>1, <2>2, <2>3, <2>4, <2>5, <2>6, <2>7 DEF Elsewhere
<1>2. ASSUME NEW t \in Tasks, Enqueue(o, t), t.for = NoObj, Known(o),
             UNCHANGED <<current, removing, cli, pc, room, phase>>,
             t.kind # "spawn", t.kind # "drain", t.kind = "send" => ~Draining,
             t.kind = "remove" => agent'[o].removed,
             agent[o].removed => agent'[o].removed, agent'[o].life = agent[o].life,
             \A p \in Objects : p # o => agent'[p] = agent[p]
      PROVE  Elsewhere
  <2>1. queue'[o] = Append(queue[o], t) /\ \A p \in Objects : p # o => queue'[p] = queue[p]
    BY <1>2 DEF Enqueue, TypeOK
  <2>2. Joins(o, t)
    BY <1>2, <2>1 DEF Joins, Starters
  <2>3. \A p \in Objects : Known(p)' = Known(p)
    BY <1>2 DEF Known
  <2>4. QED BY <1>2, <2>1, <2>2, <2>3 DEF Elsewhere
<1>3. ASSUME NEW m \in Messages, ReqSend(o, m) PROVE Elsewhere
  <2> DEFINE t == Task("send", m, agent[o].stops, NoObj)
  <2>1. t \in Tasks /\ t.kind = "send" /\ t.for = NoObj
    <3>1. agent[o].stops \in Nat
      BY DEF TypeOK, Agents
    <3>2. QED BY <3>1, TaskRecords DEF Task
  <2>2. Enqueue(o, t) /\ ~Draining /\ Known(o) /\ UNCHANGED <<current, removing, agent, cli, pc, room, phase>>
    BY <1>3 DEF ReqSend, Accepts
  <2> HIDE DEF t
  <2>3. QED BY <1>2, <2>1, <2>2
<1>4. CASE ReqStop(o) \/ ReqRemove(o) \/ ReqHibernate(o)
  <2>1. PICK k \in {"stop", "remove", "hibernate"} :
          Enqueue(o, Simple(k)) /\ (k = "remove" => agent' = [agent EXCEPT ![o].removed = TRUE])
    BY <1>4 DEF ReqStop, ReqRemove, ReqHibernate
  <2>2. Simple(k) \in Tasks /\ Simple(k).kind = k /\ Simple(k).for = NoObj
    BY TaskRecords DEF Simple, Task, Kinds
  <2>3. Known(o) /\ UNCHANGED <<current, removing, cli, pc, room, phase>>
    BY <1>4 DEF ReqStop, ReqRemove, ReqHibernate, Accepts
  <2>4. /\ agent[o].removed => agent'[o].removed
        /\ k = "remove" => agent'[o].removed
        /\ agent'[o].life = agent[o].life
        /\ \A p \in Objects : p # o => agent'[p] = agent[p]
    <3>1. agent[o] \in Agents /\ agent \in [Objects -> Agents]
      BY DEF TypeOK
    <3>2. /\ agent[o].removed => agent'[o].removed
          /\ agent'[o].life = agent[o].life
      BY <1>4, <3>1 DEF ReqStop, ReqRemove, ReqHibernate, Agents
    <3>3. k = "remove" => agent'[o].removed
      BY <2>1, <3>1 DEF Agents
    <3>4. \A p \in Objects : p # o => agent'[p] = agent[p]
      BY <1>4, <3>1 DEF ReqStop, ReqRemove, ReqHibernate
    <3>5. QED BY <3>2, <3>3, <3>4
  <2>5. QED BY <1>2, <2>1, <2>2, <2>3, <2>4
<1>5. QED BY <1>1, <1>3, <1>4 DEF Request

(* A process comes by a fork alone, and goes when its exit is handled. *)
LEMMA EventStates ==
  ASSUME TypeOK, NEW o \in Objects, Event(o) \/ Cli(o)
  PROVE  \A p \in Objects :
           \/ cli'[p].st = cli[p].st
           \/ OnExit(o) /\ cli'[p].st = "none"
           \/ Running(p) /\ cli'[p].st = "gone"
<1>1. cli \in [Objects -> Processes] /\ cli[o] \in Processes
  BY DEF TypeOK
<1>2. CASE cli' = cli
  BY <1>2
<1>3. CASE OnExit(o)
  BY <1>1, <1>3 DEF OnExit, NoProcess
<1>4. CASE Exit(o) \/ Crash(o)
  BY <1>1, <1>4 DEF Exit, Crash, Processes
<1>6. CASE OnLine(o)
  <2>1. cli' = [cli EXCEPT ![o].out = Tail(@)]
    BY <1>6 DEF OnLine
  <2>2. cli'[o].st = cli[o].st /\ \A p \in Objects : p # o => cli'[p] = cli[p]
    BY <1>1, <2>1 DEF Processes
  <2>3. QED BY <2>2
<1>7. CASE FoldIn(o) \/ TakeTurn(o) \/ EndTurn(o) \/ Background(o)
  <2>1. \A p \in Objects : p # o => cli'[p] = cli[p]
    BY <1>1, <1>7 DEF FoldIn, TakeTurn, EndTurn, Background, Emit
  <2>2. FoldIn(o) => cli'[o].st = cli[o].st
    BY <1>1 DEF FoldIn, Processes
  <2>3. TakeTurn(o) => cli'[o].st = cli[o].st
    BY <1>1 DEF TakeTurn, Emit, Processes
  <2>4. EndTurn(o) => cli'[o].st = cli[o].st
    BY <1>1 DEF EndTurn, Emit, Processes
  <2>5. Background(o) => cli'[o].st = cli[o].st
    BY <1>1 DEF Background, Emit, Processes
  <2>6. cli'[o].st = cli[o].st
    BY <1>7, <2>2, <2>3, <2>4, <2>5
  <2>7. QED BY <2>1, <2>6
<1>8. QED BY <1>2, <1>3, <1>4, <1>6, <1>7 DEF Event, SweepEnds, Settle, LogFails, Cli

LEMMA EventElsewhere ==
  ASSUME TypeOK, NEW o \in Objects, Event(o) \/ Cli(o)
  PROVE  Elsewhere
<1>1. UNCHANGED <<current, removing, pc, room, phase>>
  BY CliChanges DEF Event, OnExit, SweepEnds, OnLine, Settle, LogFails
<1>2. \A p \in Objects : agent'[p].removed = agent[p].removed /\ (agent'[p].life = "alive" => agent[p].life = "alive")
  <2>1. CASE OnLine(o)
    <3>1. agent[o] \in Agents /\ Head(cli[o].out) \in Lines
      BY <2>1, ProcessUpdates DEF OnLine, TypeOK
    <3>2. /\ Followed(agent[o], Head(cli[o].out)).removed = agent[o].removed
          /\ Followed(agent[o], Head(cli[o].out)).life = agent[o].life
      BY <3>1 DEF Followed, Announced, Lines, Agents
    <3>3. agent'[o].removed = agent[o].removed /\ agent'[o].life = agent[o].life /\ \A p \in Objects : p # o => agent'[p] = agent[p]
      BY <2>1, <3>2 DEF OnLine, TypeOK
    <3>4. QED BY <3>3
  <2>2. CASE OnExit(o) \/ SweepEnds(o) \/ Settle(o) \/ LogFails(o)
    <3>1. agent[o] \in Agents /\ agent \in [Objects -> Agents]
      BY DEF TypeOK
    <3>2. CASE SweepEnds(o)
      BY <3>2 DEF SweepEnds
    <3>3. CASE OnExit(o) \/ Settle(o) \/ LogFails(o)
      <4>1. \A p \in Objects : p # o => agent'[p] = agent[p]
        BY <3>1, <3>3 DEF OnExit, Settle, LogFails
      <4>2. LogFails(o) => agent'[o].removed = agent[o].removed /\ (agent'[o].life = "alive" => agent[o].life = "alive")
        BY <3>1 DEF LogFails, Agents
      <4>3. Settle(o) => agent'[o].removed = agent[o].removed
        BY <3>1 DEF Settle, Agents
      <4>4. OnExit(o) => agent'[o].removed = agent[o].removed /\ (agent'[o].life = "alive" => agent[o].life = "alive")
        BY <3>1 DEF OnExit, Agents
      <4>5. QED BY <3>3, <4>1, <4>2, <4>3, <4>4, SettleLife
    <3>4. QED BY <2>2, <3>2, <3>3
  <2>3. QED BY <2>1, <2>2, CliChanges DEF Event
<1>3. \A p \in Objects :
        \/ cli'[p].st \in {cli[p].st, "none"}
        \/ Running(p) /\ cli'[p].st = "gone"
  BY EventStates
<1>4. \A p \in Objects : queue'[p] = queue[p] \/ \E t \in Tasks : Joins(p, t)
  <2>1. CASE LogFails(o)
    <3> DEFINE t == Simple("log_error")
    <3>1. t \in Tasks /\ t.kind = "log_error" /\ t.for = NoObj
      BY TaskRecords DEF Simple, Task, Kinds
    <3>2. queue'[o] = Append(queue[o], t) /\ \A p \in Objects : p # o => queue'[p] = queue[p]
      BY <2>1 DEF LogFails, Enqueue, TypeOK
    <3> HIDE DEF t
    <3>3. Joins(o, t)
      BY <3>1, <3>2 DEF Joins, Starters
    <3>4. QED BY <3>1, <3>2, <3>3
  <2>2. CASE queue' = queue
    BY <2>2
  <2>3. QED BY <2>1, <2>2, CliChanges DEF Event, OnExit, SweepEnds, OnLine, Settle
<1>5. QED BY <1>1, <1>2, <1>3, <1>4 DEF Elsewhere, Known

LEMMA HostElsewhere ==
  ASSUME TypeOK, Host, ~HostRestart
  PROVE  Elsewhere
<1>1. UNCHANGED <<current, agent, cli, pc, room>>
  BY DEF Host, Drain, DrainCuts, DrainEnds, Closed, LogDeleted
<1>2. \A p \in Objects : IdOf(p) \in removing => IdOf(p) \in removing' \/ Quiet
  BY DEF Host, Drain, DrainCuts, DrainEnds, Closed, LogDeleted
<1>3. ASSUME NEW p \in Objects PROVE queue'[p] = queue[p] \/ \E t \in Tasks : Joins(p, t)
  <2>1. CASE DrainEnds
    <3> DEFINE t == Simple("drain")
    <3>1. t \in Tasks /\ t.kind = "drain" /\ t.for = NoObj
      BY TaskRecords DEF Simple, Task, Kinds
    <3>2. queue'[p] = queue[p] \/ queue'[p] = Append(queue[p], t)
      BY <2>1 DEF DrainEnds
    <3> HIDE DEF t
    <3>3. QED BY <2>1, <3>1, <3>2 DEF Joins, Starters
  <2>2. CASE queue' = queue
    BY <2>2
  <2>3. QED BY <2>1, <2>2 DEF Host, Drain, DrainCuts, Closed, LogDeleted
<1>4. phase' = phase \/ Drain \/ DrainCuts \/ DrainEnds \/ Closed
  BY DEF Host, LogDeleted
<1>5. QED BY <1>1, <1>2, <1>3, <1>4 DEF Elsewhere, Known

(* p's tasks are those it had, and perhaps one that joined. *)
LEMMA JoinedTasks ==
  ASSUME TypeOK, NEW p \in Objects, queue'[p] = queue[p] \/ \E t \in Tasks : Joins(p, t),
         NEW i \in 1 .. Len(queue'[p])
  PROVE  \/ i \in Tasked(p) /\ queue'[p][i] = queue[p][i]
         \/ i = Len(queue[p]) + 1 /\ Joins(p, queue'[p][i])
<1>1. queue[p] \in Seq(Tasks)
  BY DEF TypeOK
<1>2. CASE queue'[p] = queue[p]
  BY <1>1, <1>2 DEF Tasked
<1>3. ASSUME NEW t \in Tasks, Joins(p, t)
      PROVE  \/ i \in Tasked(p) /\ queue'[p][i] = queue[p][i]
             \/ i = Len(queue[p]) + 1 /\ Joins(p, queue'[p][i])
  <2>1. queue'[p] = Append(queue[p], t)
    BY <1>3 DEF Joins
  <2>2. \/ i \in 1 .. Len(queue[p]) /\ queue'[p][i] = queue[p][i]
        \/ i = Len(queue[p]) + 1 /\ queue'[p][i] = t
    BY <1>1, <2>1
  <2>3. QED BY <1>3, <2>2 DEF Tasked
<1>4. QED BY <1>2, <1>3

LEMMA ElsewhereForgetting ==
  ASSUME TypeOK, Forgetting, Elsewhere
  PROVE  Forgetting'
<1>1. ASSUME NEW p \in Objects, NEW i \in 1 .. Len(queue'[p]), queue'[p][i].kind = "spawn"
      PROVE  i = 1 /\ Known(p)' /\ (pc'[p] = "ending" \/ cli'[p].st = "none")
  <2>1. CASE i \in Tasked(p) /\ queue'[p][i] = queue[p][i]
    <3>1. i = 1 /\ Known(p) /\ (pc[p] = "ending" \/ cli[p].st = "none")
      BY <1>1, <2>1 DEF Forgetting, SpawnsFirst
    <3>2. QED BY <3>1 DEF Elsewhere, Running
  <2>2. CASE i = Len(queue[p]) + 1 /\ Joins(p, queue'[p][i])
    BY <1>1, <2>2 DEF Joins, Elsewhere, Running
  <2>3. QED BY <2>1, <2>2, JoinedTasks DEF Elsewhere
<1>2. ASSUME NEW p \in Objects, NEW i \in 1 .. Len(queue'[p]), queue'[p][i].kind = "remove"
      PROVE  agent'[p].removed /\ (Known(p)' \/ IdOf(p) \in removing')
  <2>1. CASE i \in Tasked(p) /\ queue'[p][i] = queue[p][i]
    <3>1. agent[p].removed /\ (Known(p) \/ IdOf(p) \in removing)
      BY <1>2, <2>1 DEF Forgetting, RemovesOwn
    <3>2. Busy(p)
      BY <2>1 DEF Tasked, Busy
    <3>3. agent'[p].removed
      BY <3>1, <3>2 DEF Elsewhere, Busy
    <3>4. ~Known(p) => Ready(p)
      BY <3>1, <3>2 DEF Forgetting, ForgottenRests, Ready
    <3>5. QED BY <3>1, <3>3, <3>4 DEF Elsewhere, Quiet
  <2>2. CASE i = Len(queue[p]) + 1 /\ Joins(p, queue'[p][i])
    BY <1>2, <2>2 DEF Joins, Elsewhere
  <2>3. QED BY <2>1, <2>2, JoinedTasks DEF Elsewhere
<1>3. ASSUME NEW p \in Objects, agent'[p].removed, ~Known(p)'
      PROVE  ~Running(p)' /\ pc'[p] = "idle"
  <2>1. agent[p].removed /\ ~Known(p)
    BY <1>3 DEF Elsewhere
  <2>2. QED BY <2>1 DEF Forgetting, ForgottenRests, Elsewhere, Running
<1>4. SpawnsFirst' /\ RemovesOwn' /\ ForgottenRests'
  BY <1>1, <1>2, <1>3 DEF SpawnsFirst, RemovesOwn, ForgottenRests, Tasked
<1>5. QED BY <1>4 DEF Forgetting

LEMMA RestartForgetting ==
  ASSUME HostRestart
  PROVE  Forgetting'
<1>1. \A p \in Objects : queue'[p] = <<>> /\ cli'[p].st = "none" /\ pc'[p] = "idle"
  BY DEF HostRestart, NoProcess
<1>2. SpawnsFirst' /\ RemovesOwn' /\ ForgottenRests'
  BY <1>1 DEF SpawnsFirst, RemovesOwn, ForgottenRests, Tasked, Running
<1>3. QED BY <1>2 DEF Forgetting

LEMMA SameElsewhere ==
  ASSUME UNCHANGED vars
  PROVE  Elsewhere
BY DEF vars, Elsewhere, Known

LEMMA NextElsewhere ==
  ASSUME TypeOK, Born, [Next]_vars
  PROVE  Elsewhere \/ HostRestart \/ \E o \in Objects : Go(o)
BY SameElsewhere, RequestElsewhere, EventElsewhere, HostElsewhere DEF Next

LEMMA ForgettingInvariant == Spec => []Forgetting
<1>1. Init => Forgetting
  <2> SUFFICES ASSUME Init PROVE Forgetting
    OBVIOUS
  <2>1. \A p \in Objects : queue[p] = <<>> /\ ~agent[p].removed
    BY DEF Init, Fresh
  <2>2. SpawnsFirst /\ RemovesOwn /\ ForgottenRests
    BY <2>1 DEF SpawnsFirst, RemovesOwn, ForgottenRests, Tasked
  <2>3. QED BY <2>2 DEF Forgetting
<1>2. TypeOK /\ Born /\ NoReuseWhileDeleting /\ Forgetting /\ [Next]_vars => Forgetting'
  BY NextElsewhere, ElsewhereForgetting, RestartForgetting, GoForgetting
<1>3. QED BY <1>1, <1>2, TypeCorrect, IdsNotReused, WaitingInvariant, PTL DEF Spec

(* RemovedIsOver: an agent that was removed and is forgotten runs nothing and *)
(* starts nothing, whatever is still queued for it.                          *)
THEOREM RemovedStaysOver == Spec => []RemovedIsOver
<1>1. Forgetting => RemovedIsOver
  BY DEF Forgetting, ForgottenRests, RemovedIsOver
<1>2. QED BY <1>1, ForgettingInvariant, PTL

-----------------------------------------------------------------------------
(* A drain's own task is the last of an agent's queue to find a process or a *)
(* start, so that nothing runs for the agent once it is done.                *)

Late == phase \in {"end", "closed"}
DrainOf(o, i) == i \in Tasked(o) /\ queue[o][i].kind = "drain"
StartOf(o, i) == i \in Tasked(o) /\ queue[o][i].kind \in Starters

Ended(o) ==
  /\ \A i, j \in Tasked(o) : DrainOf(o, i) /\ StartOf(o, j) => j < i
  /\ (\A i \in Tasked(o) : ~DrainOf(o, i)) => ~Running(o) /\ \A i \in Tasked(o) : ~StartOf(o, i)

DrainedLast ==
  /\ phase # "end" => \A o \in Objects : \A i \in Tasked(o) : ~DrainOf(o, i)
  /\ Late => \A o \in Objects : Known(o) => Ended(o)

LEMMA HeadDrains ==
  ASSUME TypeOK, NEW o \in Objects, Go(o), Top(o).kind = "drain", pc'[o] = "idle"
  PROVE  ~Running(o)
BY DEF Go, RunSpawn, RunSend, Waited, RoomAnswered, ForkFails, ForkSucceeds, RunStop, RunRemove,
   RunHibernate, Detached, RunDrain, RunLogError, EndDone, At, Starters, End, Step, TypeOK, Running

LEMMA GoKnown ==
  ASSUME TypeOK, NEW o \in Objects, Go(o)
  PROVE  phase' = phase /\ \A p \in Objects : Known(p)' => Known(p)
<1>1. UNCHANGED <<current, removing>> \/ Forget(o)
  BY GoForgets DEF Forgets
<1>2. \A p \in Objects : Known(p)' => Known(p)
  BY <1>1, ObjectsAreNamed DEF Forget, Known, TypeOK
<1>3. phase' = phase
  BY DEF Go, RunSpawn, RunSend, Waited, RoomAnswered, ForkFails, ForkSucceeds, RunStop, RunRemove,
     RunHibernate, Detached, RunDrain, RunLogError, EndDone, End, Stopped, Removed, Dropped
<1>4. QED BY <1>2, <1>3

(* A step of o's queue, seen from p's: its tasks are k places further on. *)
LEMMA GoEnded ==
  ASSUME TypeOK, NEW o \in Objects, Go(o), NEW p \in Objects, Ended(p)
  PROVE  Ended(p)'
<1>1. GoesOn(o) /\ Processed(o) /\ Busy(o) /\ 1 \in Tasked(o) /\ Top(o) = queue[o][1]
  BY GoGoes, GoProcessed, TopTasked
<1>2. PICK k \in {0, 1} : Kept(p, k) /\ (k = 1 => p = o /\ pc'[o] = "idle")
  BY <1>1 DEF GoesOn
<1>3. \A i \in Tasked(p)' : DrainOf(p, i)' => DrainOf(p, i + k)
  BY <1>2 DEF Kept, DrainOf, Tasked
<1>4. \A i \in Tasked(p)' : StartOf(p, i)' => StartOf(p, i + k)
  BY <1>2 DEF Kept, StartOf, Starters, Tasked
<1>5. \A i, j \in Tasked(p)' : DrainOf(p, i)' /\ StartOf(p, j)' => j < i
  <2> TAKE i, j \in Tasked(p)'
  <2> HAVE DrainOf(p, i)' /\ StartOf(p, j)'
  <2>1. i \in Nat /\ j \in Nat
    BY DEF Tasked
  <2>2. j + k < i + k
    BY <1>3, <1>4 DEF Ended, DrainOf, StartOf
  <2>3. QED BY <2>1, <2>2
<1>6. ASSUME \A i \in Tasked(p)' : ~DrainOf(p, i)'
      PROVE  ~Running(p)' /\ \A i \in Tasked(p)' : ~StartOf(p, i)'
  <2>1. \A i \in Tasked(p) : DrainOf(p, i) => k = 1 /\ i = 1
    <3> TAKE i \in Tasked(p)
    <3> HAVE DrainOf(p, i)
    <3>1. i > k => i - k \in Tasked(p)' /\ DrainOf(p, i - k)'
      BY <1>2 DEF Kept, DrainOf, Tasked
    <3>2. i \in Nat /\ i >= 1
      BY DEF Tasked
    <3>3. QED BY <1>6, <3>1, <3>2
  <2>2. CASE \E i \in Tasked(p) : DrainOf(p, i)
    <3>1. k = 1 /\ DrainOf(p, 1) /\ p = o /\ pc'[o] = "idle"
      BY <1>2, <2>1, <2>2
    <3>2. ~Running(o)
      BY <1>1, <3>1, HeadDrains DEF DrainOf
    <3>3. Top(o).kind \notin Starters
      BY <1>1, <3>1 DEF DrainOf, Starters
    <3>4. ~Running(o)'
      BY <1>1, <3>2, <3>3 DEF Processed, Running
    <3>5. \A j \in Tasked(p) : StartOf(p, j) => j < 1
      BY <3>1 DEF Ended, DrainOf
    <3>6. \A j \in Tasked(p) : j >= 1
      BY DEF Tasked
    <3>7. \A j \in Tasked(p) : ~StartOf(p, j)
      BY <3>5, <3>6 DEF Tasked
    <3>8. QED BY <1>4, <3>1, <3>4, <3>7 DEF StartOf
  <2>3. CASE \A i \in Tasked(p) : ~DrainOf(p, i)
    <3>1. ~Running(p) /\ \A i \in Tasked(p) : ~StartOf(p, i)
      BY <2>3 DEF Ended
    <3>2. p = o => Top(o).kind \notin Starters
      BY <1>1, <3>1 DEF StartOf
    <3>3. ~Running(p)'
      BY <1>1, <3>1, <3>2 DEF Processed, Running
    <3>4. QED BY <1>4, <3>1, <3>3 DEF StartOf
  <2>4. QED BY <2>2, <2>3
<1>7. QED BY <1>5, <1>6 DEF Ended

LEMMA GoDrained ==
  ASSUME TypeOK, DrainedLast, NEW o \in Objects, Go(o)
  PROVE  DrainedLast'
<1>1. phase' = phase /\ \A p \in Objects : Known(p)' => Known(p)
  BY GoKnown
<1>2. phase # "end" => \A p \in Objects : \A i \in Tasked(p)' : ~DrainOf(p, i)'
  <2> SUFFICES ASSUME phase # "end", NEW p \in Objects, NEW i \in Tasked(p)', DrainOf(p, i)'
               PROVE  FALSE
    OBVIOUS
  <2>1. PICK k \in {0, 1} : Kept(p, k)
    BY GoGoes DEF GoesOn
  <2>2. DrainOf(p, i + k)
    BY <2>1 DEF Kept, DrainOf, Tasked
  <2>3. QED BY <2>2 DEF DrainedLast, DrainOf
<1>3. Late => \A p \in Objects : Known(p)' => Ended(p)'
  BY <1>1, GoEnded DEF DrainedLast
<1>4. QED BY <1>1, <1>2, <1>3 DEF DrainedLast, Late

(* An agent's queue keeps its tasks in their order; what joins is no start.  *)
LEMMA ElsewhereEnded ==
  ASSUME TypeOK, Elsewhere, Draining, ~DrainEnds, NEW p \in Objects, Ended(p)
  PROVE  Ended(p)'
<1>1. \A i \in Tasked(p)' : DrainOf(p, i)' => DrainOf(p, i)
  BY JoinedTasks DEF Elsewhere, DrainOf, Tasked, Joins
<1>2. \A i \in Tasked(p)' : StartOf(p, i)' => StartOf(p, i)
  BY JoinedTasks DEF Elsewhere, StartOf, Tasked, Joins
<1>3. \A i \in Tasked(p) : DrainOf(p, i) => i \in Tasked(p)' /\ DrainOf(p, i)'
  <2>1. queue'[p] = queue[p] \/ \E t \in Tasks : queue'[p] = Append(queue[p], t)
    BY DEF Elsewhere, Joins
  <2>2. QED BY <2>1 DEF TypeOK, DrainOf, Tasked
<1>4. ~Running(p) => ~Running(p)'
  BY DEF Elsewhere, Running
<1>5. \A i, j \in Tasked(p)' : DrainOf(p, i)' /\ StartOf(p, j)' => j < i
  BY <1>1, <1>2 DEF Ended, DrainOf, StartOf
<1>6. (\A i \in Tasked(p)' : ~DrainOf(p, i)') => \A i \in Tasked(p) : ~DrainOf(p, i)
  BY <1>3
<1>7. (\A i \in Tasked(p)' : ~DrainOf(p, i)') => ~Running(p)' /\ \A i \in Tasked(p)' : ~StartOf(p, i)'
  BY <1>2, <1>4, <1>6 DEF Ended, StartOf
<1>8. QED BY <1>5, <1>7 DEF Ended

(* The drain's task is put behind every task an agent has. *)
LEMMA DrainEndsEnded ==
  ASSUME TypeOK, DrainEnds, DrainedLast, NEW p \in Objects, Known(p)'
  PROVE  Ended(p)'
<1> DEFINE t == Simple("drain")
<1>1. t \in Tasks /\ t.kind = "drain" /\ queue[p] \in Seq(Tasks)
  BY TaskRecords DEF Simple, Task, Kinds, TypeOK
<1>2. queue'[p] = Append(queue[p], t)
  BY DEF DrainEnds, ToEnd, Known
<1> HIDE DEF t
<1>0. PICK n \in Nat : n = Len(queue[p])
  BY <1>1
<1>3. /\ Len(queue'[p]) = n + 1 /\ queue'[p][n + 1] = t
      /\ \A i \in 1 .. n : queue'[p][i] = queue[p][i]
  BY <1>0, <1>1, <1>2
<1>4. phase # "end"
  BY DEF DrainEnds, DrainOver
<1>5. \A i \in Tasked(p) : queue[p][i].kind # "drain"
  BY <1>4 DEF DrainedLast, DrainOf
<1>6. \A i \in Tasked(p)' : DrainOf(p, i)' => i = n + 1
  BY <1>0, <1>3, <1>5 DEF DrainOf, Tasked
<1>7. \A j \in Tasked(p)' : StartOf(p, j)' => j < n + 1
  BY <1>1, <1>3 DEF StartOf, Tasked, Starters
<1>8. n + 1 \in Tasked(p)' /\ DrainOf(p, n + 1)'
  <2>1. n + 1 \in 1 .. Len(queue'[p])
    BY <1>3
  <2>2. queue'[p][n + 1].kind = "drain"
    BY <1>1, <1>3
  <2>3. QED BY <2>1, <2>2 DEF DrainOf, Tasked
<1>9. QED BY <1>6, <1>7, <1>8 DEF Ended

LEMMA ElsewhereDrained ==
  ASSUME TypeOK, DrainedLast, Elsewhere
  PROVE  DrainedLast'
<1>1. CASE DrainEnds
  BY <1>1, DrainEndsEnded DEF DrainedLast, DrainEnds
<1>2. CASE ~DrainEnds
  <2>1. \A p \in Objects : \A i \in Tasked(p)' : DrainOf(p, i)' => DrainOf(p, i)
    BY <1>2, JoinedTasks DEF Elsewhere, DrainOf, Tasked, Joins
  <2>2. phase' # "end" => phase # "end" \/ Closed
    BY DEF Elsewhere, Drain, DrainCuts, DrainEnds, Draining
  <2>3. Closed => \A p \in Objects : \A i \in Tasked(p) : ~DrainOf(p, i)
    BY DEF Closed, DrainOf, Tasked
  <2>4. phase' # "end" => \A p \in Objects : \A i \in Tasked(p)' : ~DrainOf(p, i)'
    BY <2>1, <2>2, <2>3 DEF DrainedLast, DrainOf
  <2>5. Late' => Late /\ Draining
    BY <1>2 DEF Elsewhere, Drain, DrainCuts, Closed, Late, Draining
  <2>6. Late' => \A p \in Objects : Known(p)' => Ended(p)'
    BY <1>2, <2>5, ElsewhereEnded DEF Elsewhere, DrainedLast
  <2>7. QED BY <2>4, <2>6 DEF DrainedLast
<1>3. QED BY <1>1, <1>2

LEMMA DrainedInvariant == Spec => []DrainedLast
<1>1. Init => DrainedLast
  <2> SUFFICES ASSUME Init PROVE DrainedLast
    OBVIOUS
  <2>1. phase = "serving" /\ \A p \in Objects : Tasked(p) = {}
    BY DEF Init, Tasked
  <2>2. QED BY <2>1 DEF DrainedLast, Late
<1>2. HostRestart => DrainedLast'
  <2> SUFFICES ASSUME HostRestart PROVE DrainedLast'
    OBVIOUS
  <2>1. phase' = "serving" /\ \A p \in Objects : Tasked(p)' = {}
    BY DEF HostRestart, Tasked
  <2>2. QED BY <2>1 DEF DrainedLast, Late
<1>3. TypeOK /\ Born /\ DrainedLast /\ [Next]_vars => DrainedLast'
  BY <1>2, NextElsewhere, ElsewhereDrained, GoDrained
<1>4. QED BY <1>1, <1>3, TypeCorrect, WaitingInvariant, PTL DEF Spec

(* DrainLeavesNothing: when close() is over no agent has a process, not even *)
(* one whose start was under way when the drain began.                       *)
THEOREM DrainIsThorough == Spec => []DrainLeavesNothing
<1>1. DrainedLast => DrainLeavesNothing
  BY DEF DrainedLast, Late, Ended, DrainLeavesNothing
<1>2. QED BY <1>1, DrainedInvariant, PTL

-----------------------------------------------------------------------------
(* A process is of an agent that shows it, and the registry says so unless   *)
(* the drain ended the start that made it before it was handed anything.     *)

Shows == {"alive", "starting", "failed", "stopped"}
Shown(o) ==
  /\ cli[o].st = "none" => Unfinished(o) = {}
  /\ cli[o].st # "none" => agent[o].life \in Shows
Told(o) == Known(o) /\ cli[o].st # "none" =>
             saved[IdOf(o)] \in Shows \/ (Draining /\ Unfinished(o) = {})
ProcessTold == \A o \in Objects : Shown(o) /\ Told(o)

(* p's process is one that was told of, or it was handed nothing. *)
StillTold(p) ==
  \/ Known(p) /\ cli[p].st # "none" /\ (Draining => Unfinished(p)' \subseteq Unfinished(p))
  \/ Draining /\ Unfinished(p)' = {}

LEMMA ToldKept ==
  ASSUME ProcessTold, \A p \in Objects : Shown(p)', Draining => Draining',
         \/ Persist
         \/ saved' = saved /\ \A p \in Objects : Known(p)' /\ cli'[p].st # "none" => StillTold(p)
  PROVE  ProcessTold'
<1>1. ASSUME NEW p \in Objects, Known(p)', cli'[p].st # "none"
      PROVE  saved'[IdOf(p)] \in Shows \/ (Draining' /\ Unfinished(p)' = {})
  <2>1. CASE Persist
    <3>1. IdOf(p) \in Ids /\ current'[IdOf(p)] = p /\ p # NoObj
      BY <1>1, ObjectsAreNamed DEF Known
    <3>2. saved'[IdOf(p)] = agent'[p].life
      BY <2>1, <3>1 DEF Persist, Persisted
    <3>3. QED BY <1>1, <3>2 DEF Shown
  <2>2. CASE saved' = saved /\ StillTold(p)
    BY <2>2 DEF ProcessTold, Told, StillTold
  <2>3. QED BY <1>1, <2>1, <2>2
<1>2. QED BY <1>1 DEF ProcessTold, Told

(* An agent whose process goes on as it was. *)
LEMMA SameShown ==
  ASSUME NEW p \in Objects, Shown(p), Known(p)' => Known(p),
         cli'[p].st = cli[p].st, cli'[p].in = cli[p].in, cli'[p].work = cli[p].work,
         cli[p].st # "none" => agent'[p].life \in {agent[p].life} \cup Shows
  PROVE  Shown(p)' /\ (Known(p)' /\ cli'[p].st # "none" => StillTold(p))
<1>1. Unfinished(p)' = Unfinished(p)
  BY DEF Unfinished
<1>2. QED BY <1>1 DEF Shown, StillTold

LEMMA LifeShown ==
  ASSUME TypeOK, NEW o \in Objects, Shown(o), Known(o)' => Known(o), cli' = cli,
         agent' = agent \/ \E l : agent' = [agent EXCEPT ![o].life = l] /\ (l \in Shows \/ cli[o].st = "none")
  PROVE  Shown(o)' /\ (Known(o)' /\ cli'[o].st # "none" => StillTold(o))
<1>1. cli[o].st # "none" => agent'[o].life \in {agent[o].life} \cup Shows
  BY DEF TypeOK, Agents
<1>2. QED BY <1>1, SameShown

LEMMA EndShown ==
  ASSUME TypeOK, NEW o \in Objects, Shown(o), Known(o)' => Known(o), NEW why, End(o, why)
  PROVE  Shown(o)' /\ (Known(o)' /\ cli'[o].st # "none" => StillTold(o))
<1>1. cli[o] \in Processes /\ agent[o] \in Agents
  BY DEF TypeOK
<1>2. cli'[o].st = cli[o].st /\ cli'[o].in = cli[o].in /\ cli'[o].work = cli[o].work
  BY <1>1 DEF End, TypeOK, Processes
<1>3. agent'[o].life = agent[o].life
  BY <1>1 DEF End, TypeOK, Agents
<1>4. QED BY <1>2, <1>3, SameShown

LEMMA StartShown ==
  ASSUME TypeOK, NEW o \in Objects, StartProcess(o) \/ MakeRoom(o)
  PROVE  agent' = agent \/ \E l : agent' = [agent EXCEPT ![o].life = l] /\ (l \in Shows \/ cli[o].st = "none")
<1>1. MakeRoom(o) => agent' = agent \/ agent' = [agent EXCEPT ![o].life = "starting"]
  BY DEF MakeRoom
<1>2. QED BY <1>1 DEF StartProcess, Shows

LEMMA ForkShown ==
  ASSUME TypeOK, NEW o \in Objects, ForkSucceeds(o)
  PROVE  Shown(o)' /\ (saved' = saved /\ ~Persist => StillTold(o))
<1> DEFINE m == Top(o).msg
           write == m # 0 /\ ~Draining /\ ~IsRemoved(o) /\ ~StoppedSince(o)
           proc == [NoProcess EXCEPT !.st = "up", !.eof = Draining]
<1>1. proc.st = "up" /\ proc.in = <<>> /\ proc.work = {}
  BY DEF NoProcess
<1>2. cli'[o] = IF write THEN Hand(proc, m) ELSE proc
  BY DEF ForkSucceeds, TypeOK
<1>3. Hand(proc, m).st = "up"
  BY DEF Hand, NoProcess
<1>4. cli'[o].st = "up"
  BY <1>1, <1>2, <1>3
<1>5. agent'[o].life \in Shows
  BY DEF ForkSucceeds, WriteTo, TypeOK, Agents, Shows
<1>6. ASSUME Draining PROVE Unfinished(o)' = {}
  BY <1>1, <1>2, <1>6 DEF Unfinished
<1>7. saved' = saved /\ ~Persist => Draining
  BY DEF ForkSucceeds, SaveStart
<1>8. QED BY <1>4, <1>5, <1>6, <1>7 DEF Shown, StillTold

LEMMA GoShown ==
  ASSUME TypeOK, StartsAlone, NEW o \in Objects, Go(o), Shown(o)
  PROVE  Shown(o)' /\ (Persist \/ (Known(o)' /\ cli'[o].st # "none" => StillTold(o)) \/ saved' # saved)
<1>0. Known(o)' => Known(o)
  BY GoKnown
<1>1. CASE RunSpawn(o) \/ Waited(o)
  BY <1>0, <1>1, StartShown, LifeShown DEF RunSpawn, Waited
<1>2. CASE RunSend(o)
  <2>1. CASE cli' = cli /\ (agent' = agent \/ StartProcess(o))
    BY <1>0, <2>1, StartShown, LifeShown
  <2>2. CASE /\ Running(o) /\ ~Draining
             /\ agent' = [agent EXCEPT ![o] = WriteTo(@)]
             /\ cli' = [cli EXCEPT ![o] = Hand(@, Top(o).msg)]
    <3>1. cli[o] \in Processes /\ agent[o] \in Agents
      BY DEF TypeOK
    <3>2. cli'[o].st = "up"
      BY <2>2, <3>1 DEF Hand, Running, TypeOK, Processes
    <3>3. agent'[o].life = agent[o].life
      BY <2>2, <3>1 DEF WriteTo, TypeOK, Agents
    <3>4. QED BY <1>0, <2>2, <3>2, <3>3 DEF Shown, StillTold, Running
  <2>3. QED BY <1>2, <2>1, <2>2 DEF RunSend
<1>3. CASE RoomAnswered(o) \/ ForkFails(o)
  <2>1. cli[o].st = "none" /\ cli' = cli
    BY <1>3 DEF RoomAnswered, ForkFails, At, StartsAlone
  <2>2. agent' = agent \/ \E l : agent' = [agent EXCEPT ![o].life = l]
    BY <1>3 DEF RoomAnswered, ForkFails
  <2>3. QED BY <1>0, <2>1, <2>2, LifeShown
<1>4. CASE ForkSucceeds(o)
  BY <1>4, ForkShown
<1>5. CASE RunStop(o) \/ RunRemove(o) \/ RunDrain(o) \/ RunLogError(o)
  BY <1>0, <1>5, EndShown, LifeShown DEF RunStop, RunRemove, RunDrain, RunLogError,
     Stopped, Removed, Dropped, Shows
<1>6. CASE RunHibernate(o) \/ Detached(o)
  BY <1>0, <1>6, EndShown, LifeShown DEF RunHibernate, Detached
<1>7. CASE EndDone(o)
  BY <1>0, <1>7, LifeShown DEF EndDone, Stopped, Removed, Dropped, Shows
<1>8. QED BY <1>1, <1>2, <1>3, <1>4, <1>5, <1>6, <1>7 DEF Go

LEMMA GoTold ==
  ASSUME TypeOK, StartsAlone, Born, ProcessTold, NEW o \in Objects, Go(o)
  PROVE  ProcessTold'
<1>1. saved' = saved \/ Persist
  BY GoBears, GoGoes DEF Bears
<1>2. ASSUME NEW p \in Objects, p # o
      PROVE  Shown(p)' /\ (Known(p)' /\ cli'[p].st # "none" => StillTold(p))
  <2>1. cli'[p] = cli[p] /\ agent'[p] = agent[p]
    BY <1>2, GoProcessed DEF Processed
  <2>2. QED BY <2>1, GoKnown, SameShown DEF ProcessTold
<1>3. Shown(o)' /\ (Persist \/ (Known(o)' /\ cli'[o].st # "none" => StillTold(o)) \/ saved' # saved)
  BY GoShown DEF ProcessTold
<1>4. Draining' = Draining
  BY GoKnown DEF Draining
<1>5. QED BY <1>1, <1>2, <1>3, <1>4, ToldKept

LEMMA RequestTold ==
  ASSUME TypeOK, Born, ProcessTold, NEW o \in Objects, Request(o)
  PROVE  ProcessTold'
<1>1. UNCHANGED <<cli, saved, phase>>
  BY DEF Request, ReqSpawn, ReqSend, ReqStop, ReqRemove, ReqHibernate
<1>2. \A p \in Objects : cli[p].st # "none" => agent'[p].life = agent[p].life /\ (Known(p)' => Known(p))
  <2>1. ASSUME NEW m \in Messages \cup {0}, ReqSpawn(o, m), NEW p \in Objects, cli[p].st # "none"
        PROVE  agent'[p].life = agent[p].life /\ (Known(p)' => Known(p))
    <3>1. p # o
      BY <2>1 DEF ReqSpawn, Born
    <3>2. QED BY <2>1, <3>1, ObjectsAreNamed DEF ReqSpawn, Known, TypeOK
  <2>2. CASE (\E m \in Messages : ReqSend(o, m)) \/ ReqHibernate(o)
    BY <2>2 DEF ReqSend, ReqHibernate, Known
  <2>3. CASE ReqStop(o) \/ ReqRemove(o)
    <3>1. agent[o] \in Agents /\ current' = current
      BY <2>3 DEF ReqStop, ReqRemove, TypeOK
    <3>2. agent'[o].life = agent[o].life /\ \A p \in Objects : p # o => agent'[p] = agent[p]
      BY <2>3, <3>1 DEF ReqStop, ReqRemove, TypeOK, Agents
    <3>3. QED BY <3>1, <3>2 DEF Known
  <2>4. QED BY <2>1, <2>2, <2>3 DEF Request
<1>3. \A p \in Objects : Unfinished(p)' = Unfinished(p)
  BY <1>1, SameUnfinished
<1>4. \A p \in Objects : Shown(p)' /\ (Known(p)' /\ cli'[p].st # "none" => StillTold(p))
  BY <1>1, <1>2, <1>3 DEF ProcessTold, Shown, StillTold
<1>5. QED BY <1>1, <1>4, ToldKept DEF Draining

LEMMA EventTold ==
  ASSUME TypeOK, Born, Waiting, ProcessTold, NEW o \in Objects, Event(o) \/ Cli(o)
  PROVE  ProcessTold'
<1>1. UNCHANGED <<current, phase>> /\ (saved' = saved \/ Persist)
  BY EventBears, CliChanges DEF Bears, Event, OnExit, SweepEnds, OnLine, Settle, LogFails
<1>2. \A p \in Objects : Unfinished(p)' \subseteq Unfinished(p)
  BY EventWaits, CliWaits DEF Rests
<1>3. \A p \in Objects \ {o} : cli'[p] = cli[p] /\ agent'[p] = agent[p]
  BY DEF Event, OnExit, SweepEnds, OnLine, Settle, LogFails, TypeOK,
     Cli, TakeTurn, FoldIn, EndTurn, Background, Exit, Crash, Emit
<1>4. cli'[o].st # "none" => cli[o].st # "none" /\ agent'[o].life \in {agent[o].life} \cup Shows
  <2>1. cli'[o].st # "none" => cli[o].st # "none"
    <3>1. CASE OnLine(o)
      BY <3>1 DEF OnLine
    <3>2. CASE OnExit(o) \/ SweepEnds(o) \/ Settle(o) \/ LogFails(o)
      BY <3>2 DEF OnExit, SweepEnds, Settle, LogFails
    <3>3. CASE Cli(o)
      BY <3>3 DEF Cli, TakeTurn, FoldIn, EndTurn, Background, Exit, Crash, Running
    <3>4. QED BY <3>1, <3>2, <3>3 DEF Event
  <2>2. OnExit(o) => cli'[o].st = "none"
    BY DEF OnExit, NoProcess, TypeOK
  <2>3. LogFails(o) => agent'[o].life = "failed"
    BY DEF LogFails, TypeOK, Agents
  <2>4. OnLine(o) => agent'[o].life = agent[o].life
    <3> SUFFICES ASSUME OnLine(o) PROVE agent'[o].life = agent[o].life
      OBVIOUS
    <3>1. agent[o] \in Agents /\ Head(cli[o].out) \in Lines
      BY ProcessUpdates DEF OnLine, TypeOK
    <3>2. Followed(agent[o], Head(cli[o].out)).life = agent[o].life
      BY <3>1 DEF Followed, Announced, Lines, Agents
    <3>3. QED BY <3>2 DEF OnLine, TypeOK
  <2>5. SweepEnds(o) \/ Cli(o) => agent' = agent
    BY CliChanges DEF SweepEnds
  <2>6. QED BY <2>1, <2>2, <2>3, <2>4, <2>5, SettleLife DEF Event, Shows
<1>5. cli'[o].st = "none" => Unfinished(o)' = {}
  <2>1. CASE OnExit(o)
    BY <2>1 DEF OnExit, NoProcess, Unfinished, TypeOK
  <2>2. CASE cli[o].st = "none"
    BY <1>2, <2>2 DEF ProcessTold, Shown
  <2>3. CASE cli[o].st # "none" /\ ~OnExit(o)
    <3>1. cli'[o].st \in {cli[o].st, "gone"}
      BY <2>3, EventStates
    <3>2. QED BY <2>3, <3>1
  <2>4. QED BY <2>1, <2>2, <2>3
<1>6. \A p \in Objects : Shown(p)' /\ (Known(p)' /\ cli'[p].st # "none" => StillTold(p))
  <2> TAKE p \in Objects
  <2>1. Known(p)' = Known(p)
    BY <1>1 DEF Known
  <2>2. CASE p = o
    BY <1>2, <1>4, <1>5, <2>1, <2>2 DEF ProcessTold, Shown, StillTold
  <2>3. CASE p # o
    BY <1>2, <1>3, <2>1, <2>3 DEF ProcessTold, Shown, StillTold
  <2>4. QED BY <2>2, <2>3
<1>7. QED BY <1>1, <1>6, ToldKept DEF Draining

LEMMA HostTold ==
  ASSUME ProcessTold, Host, ~HostRestart
  PROVE  ProcessTold'
<1>1. UNCHANGED <<current, agent, cli>> /\ (saved' = saved \/ Persist)
  BY DEF Host, Drain, DrainCuts, DrainEnds, Closed, LogDeleted
<1>2. Draining => Draining'
  BY DEF Host, Drain, DrainCuts, DrainEnds, Closed, LogDeleted, Draining
<1>3. \A p \in Objects : Shown(p)' /\ (Known(p)' /\ cli'[p].st # "none" => StillTold(p))
  BY <1>1, SameUnfinished DEF ProcessTold, Shown, StillTold, Known
<1>4. QED BY <1>1, <1>2, <1>3, ToldKept

LEMMA ToldInvariant == Spec => []ProcessTold
<1>1. Init => ProcessTold
  <2> SUFFICES ASSUME Init PROVE ProcessTold
    OBVIOUS
  <2>1. \A p \in Objects : cli[p].st = "none" /\ Unfinished(p) = {}
    BY DEF Init, NoProcess, Unfinished
  <2>2. QED BY <2>1 DEF ProcessTold, Shown, Told
<1>2. HostRestart => ProcessTold'
  <2> SUFFICES ASSUME HostRestart PROVE ProcessTold'
    OBVIOUS
  <2>1. \A p \in Objects : cli'[p].st = "none" /\ Unfinished(p)' = {}
    BY DEF HostRestart, NoProcess, Unfinished
  <2>2. QED BY <2>1 DEF ProcessTold, Shown, Told
<1>3. ProcessTold /\ UNCHANGED vars => ProcessTold'
  <2> SUFFICES ASSUME ProcessTold, UNCHANGED vars PROVE ProcessTold'
    OBVIOUS
  <2>1. UNCHANGED <<current, agent, cli, saved, phase>>
    BY DEF vars
  <2>2. QED BY <2>1, SameUnfinished DEF ProcessTold, Shown, Told, Known, Draining
<1>4. TypeOK /\ StartsAlone /\ Born /\ Waiting /\ ProcessTold /\ [Next]_vars => ProcessTold'
  BY <1>2, <1>3, GoTold, RequestTold, EventTold, HostTold DEF Next
<1>5. QED BY <1>1, <1>4, TypeCorrect, StartsAloneInvariant, WaitingInvariant, PTL DEF Spec

(* SavedTellsOfWork: whenever the host dies, an agent whose process holds a  *)
(* message is saved as one that ran or failed, so the restart tells of it.   *)
THEOREM WorkIsTold == Spec => []SavedTellsOfWork
<1>1. ProcessTold => SavedTellsOfWork
  BY DEF ProcessTold, Shown, Told, SavedTellsOfWork, Shows
<1>2. QED BY <1>1, ToldInvariant, PTL

-----------------------------------------------------------------------------
(* Starts that wait for room: a start asks one of its victims at a time, and *)
(* a victim, alive when it is picked, is not itself waiting for room.        *)

(* The i-th task of v's queue is the hibernation that o's start asked for.   *)
AskedAt(v, i, o) == i \in Tasked(v) /\ queue[v][i].for = o

Asking ==
  /\ \A o \in Objects : room[o].todo \subseteq room[o].victims
  /\ \A o \in Objects : pc[o] = "room" => agent[o].life # "alive"
  /\ \A o, v \in Objects : \A i \in Tasked(v) : AskedAt(v, i, o) =>
       pc[o] = "room" /\ room[o].answer = "none" /\ v \in room[o].victims
  /\ \A o, v, w \in Objects : \A i \in Tasked(v), j \in Tasked(w) :
       AskedAt(v, i, o) /\ AskedAt(w, j, o) => v = w /\ i = j

(* Whom o's start will wait for, asked or not yet. *)
Holds(o, v) == pc[o] = "room" /\ v \in room[o].victims
NoHoldCycle == \A S \in (SUBSET Objects) \ {{}} : \E o \in S : \A v \in S : ~Holds(o, v)

WaitsInLine == Asking /\ NoHoldCycle

LEMMA FewerHolds ==
  ASSUME NoHoldCycle, \A p, v \in Objects : Holds(p, v)' => Holds(p, v)
  PROVE  NoHoldCycle'
BY DEF NoHoldCycle

(* p's hibernations are k places further on than before, and none is new. *)
NoneAsked(p, k) ==
  \A i \in 1 .. Len(queue'[p]) : queue'[p][i].for \in Objects =>
    i + k \in Tasked(p) /\ queue'[p][i] = queue[p][i + k]

LEMMA SameNoneAsked ==
  ASSUME TypeOK, NEW p \in Objects, queue'[p] = queue[p]
  PROVE  NoneAsked(p, 0)
BY DEF TypeOK, NoneAsked, Tasked

LEMMA AppendNoneAsked ==
  ASSUME TypeOK, NEW p \in Objects, NEW t \in Tasks, t.for = NoObj,
         queue'[p] = Append(queue[p], t)
  PROVE  NoneAsked(p, 0)
<1>1. queue[p] \in Seq(Tasks) /\ NoObj \notin Objects
  BY HostAssumption DEF TypeOK
<1>2. /\ Len(queue'[p]) = Len(queue[p]) + 1 /\ Len(queue[p]) \in Nat
      /\ \A i \in 1 .. Len(queue[p]) : queue'[p][i] = queue[p][i]
      /\ queue'[p][Len(queue[p]) + 1] = t
  BY <1>1
<1>3. QED BY <1>1, <1>2 DEF NoneAsked, Tasked

LEMMA TailNoneAsked ==
  ASSUME TypeOK, NEW p \in Objects, Busy(p), queue'[p] = Tail(queue[p])
  PROVE  NoneAsked(p, 1)
<1>1. queue[p] \in Seq(Tasks) /\ queue[p] # <<>>
  BY DEF TypeOK, Busy
<1>2. /\ Len(queue'[p]) = Len(queue[p]) - 1 /\ Len(queue[p]) \in Nat \ {0}
      /\ \A i \in 1 .. Len(queue[p]) - 1 : queue'[p][i] = queue[p][i + 1]
  BY <1>1
<1>3. QED BY <1>2 DEF NoneAsked, Tasked

LEMMA TailAppendNoneAsked ==
  ASSUME TypeOK, NEW p \in Objects, Busy(p), NEW t \in Tasks, t.for = NoObj,
         queue'[p] = Append(Tail(queue[p]), t)
  PROVE  NoneAsked(p, 1)
<1>1. queue[p] \in Seq(Tasks) /\ queue[p] # <<>> /\ NoObj \notin Objects
  BY HostAssumption DEF TypeOK, Busy
<1> DEFINE q == Tail(queue[p])
<1>2. /\ q \in Seq(Tasks) /\ Len(q) = Len(queue[p]) - 1 /\ Len(queue[p]) \in Nat \ {0}
      /\ \A i \in 1 .. Len(queue[p]) - 1 : q[i] = queue[p][i + 1]
  BY <1>1
<1>3. queue'[p] = Append(q, t)
  OBVIOUS
<1> HIDE DEF q
<1>4. /\ Len(queue'[p]) = Len(queue[p]) /\ queue'[p][Len(queue[p])] = t
      /\ \A i \in 1 .. Len(queue[p]) - 1 : queue'[p][i] = queue[p][i + 1]
  BY <1>2, <1>3
<1>5. QED BY <1>1, <1>2, <1>4 DEF NoneAsked, Tasked

(* A step of o's queue that asks nobody. *)
AsksNone(o) ==
  /\ NoneAsked(o, 0) \/ NoneAsked(o, 1)
  /\ \A p \in Objects : p # o => NoneAsked(p, 0) /\ pc'[p] = pc[p]

LEMMA DequeueAsksNone ==
  ASSUME TypeOK, NEW o \in Objects, Busy(o), Dequeue(o)
  PROVE  AsksNone(o) /\ NoneAsked(o, 1) /\ pc'[o] = "idle"
<1>1. \A p \in Objects : p # o => queue'[p] = queue[p] /\ pc'[p] = pc[p]
  BY DEF Dequeue, TypeOK
<1>2. queue'[o] = Tail(queue[o]) /\ pc'[o] = "idle"
  BY DEF Dequeue, TypeOK
<1>3. QED BY <1>1, <1>2, SameNoneAsked, TailNoneAsked DEF AsksNone

LEMMA StepAsksNone ==
  ASSUME TypeOK, NEW o \in Objects, NEW s \in Stages, Step(o, s), queue' = queue
  PROVE  AsksNone(o) /\ pc'[o] = s
BY SameNoneAsked DEF Step, AsksNone, TypeOK

(* Then who was asked for a start still is, and nobody else.                 *)
LEMMA AskedBefore ==
  ASSUME NEW o \in Objects, AsksNone(o), NEW q \in Objects, NEW v \in Objects,
         NEW i \in Tasked(v)', AskedAt(v, i, q)'
  PROVE  \E k \in {0, 1} : (k = 1 => v = o /\ ~NoneAsked(o, 0)) /\ AskedAt(v, i + k, q)
<1>1. i \in 1 .. Len(queue'[v]) /\ queue'[v][i].for = q
  BY DEF AskedAt, Tasked
<1>2. CASE v = o /\ ~NoneAsked(o, 0)
  BY <1>1, <1>2 DEF AsksNone, NoneAsked, AskedAt
<1>3. CASE ~(v = o /\ ~NoneAsked(o, 0))
  <2>1. NoneAsked(v, 0)
    BY <1>3 DEF AsksNone
  <2>2. i + 0 \in Tasked(v) /\ queue'[v][i] = queue[v][i + 0]
    BY <1>1, <2>1 DEF NoneAsked
  <2>3. AskedAt(v, i + 0, q)
    BY <1>1, <2>2 DEF AskedAt
  <2>4. QED BY <2>3
<1>4. QED BY <1>2, <1>3

LEMMA AsksNoneKeeps ==
  ASSUME WaitsInLine, NEW o \in Objects, AsksNone(o),
         \A q \in Objects : room'[q].todo \subseteq room'[q].victims,
         \A q \in Objects : pc'[q] = "room" =>
           /\ pc[q] = "room" /\ room'[q].victims = room[q].victims
           /\ agent'[q].life = "alive" => agent[q].life = "alive",
         \A q, v \in Objects : \A i \in Tasked(v)' : AskedAt(v, i, q)' =>
           pc'[q] = "room" /\ room'[q].answer = "none"
  PROVE  WaitsInLine'
<1>1. \A q \in Objects : pc'[q] = "room" => agent'[q].life # "alive"
  BY DEF WaitsInLine, Asking
<1>2. ASSUME NEW q \in Objects, NEW v \in Objects, NEW i \in Tasked(v)', AskedAt(v, i, q)'
      PROVE  pc'[q] = "room" /\ room'[q].answer = "none" /\ v \in room'[q].victims
  <2>1. PICK k \in {0, 1} : AskedAt(v, i + k, q)
    BY <1>2, AskedBefore
  <2>2. v \in room[q].victims
    BY <2>1 DEF WaitsInLine, Asking, AskedAt
  <2>3. QED BY <1>2, <2>2
<1>3. ASSUME NEW q \in Objects, NEW v \in Objects, NEW w \in Objects,
             NEW i \in Tasked(v)', NEW j \in Tasked(w)', AskedAt(v, i, q)', AskedAt(w, j, q)'
      PROVE  v = w /\ i = j
  <2>1. PICK k \in {0, 1} : (k = 1 => v = o /\ ~NoneAsked(o, 0)) /\ AskedAt(v, i + k, q)
    BY <1>3, AskedBefore
  <2>2. PICK l \in {0, 1} : (l = 1 => w = o /\ ~NoneAsked(o, 0)) /\ AskedAt(w, j + l, q)
    BY <1>3, AskedBefore
  <2>3. v = w /\ i + k = j + l
    BY <2>1, <2>2 DEF WaitsInLine, Asking, AskedAt
  <2>4. i \in Nat /\ j \in Nat
    BY DEF Tasked
  <2>5. CASE k = l
    BY <2>3, <2>4, <2>5
  <2>6. CASE k # l
    <3>1. v = o /\ w = o /\ ~NoneAsked(o, 0) /\ NoneAsked(o, 1)
      BY <2>1, <2>2, <2>3, <2>6 DEF AsksNone
    <3>2. queue'[o][i].for \in Objects /\ queue'[o][j].for \in Objects
      BY <1>3, <3>1 DEF AskedAt
    <3>3. AskedAt(o, i + 1, q) /\ AskedAt(o, j + 1, q)
      BY <1>3, <3>1, <3>2 DEF NoneAsked, AskedAt, Tasked
    <3>4. i + 1 = j + 1
      BY <3>3 DEF WaitsInLine, Asking, AskedAt
    <3>5. QED BY <2>3, <2>4, <3>4
  <2>7. QED BY <2>5, <2>6
<1>4. NoHoldCycle'
  <2>1. \A p, v \in Objects : Holds(p, v)' => Holds(p, v)
    BY DEF Holds
  <2>2. QED BY <2>1, FewerHolds DEF WaitsInLine
<1>5. QED BY <1>1, <1>2, <1>3, <1>4 DEF WaitsInLine, Asking

(* A start that has asked nobody yet, or has its answer, asks v.             *)
LEMMA AsksOneKeeps ==
  ASSUME TypeOK, Asking, NEW o \in Objects, NEW v \in Objects,
         Enqueue(v, Task("hibernate", 0, 0, o)), pc[o] # "room" \/ room[o].answer # "none",
         pc'[o] = "room" /\ room'[o].answer = "none" /\ v \in room'[o].victims,
         room'[o].todo \subseteq room'[o].victims, agent'[o].life # "alive",
         \A p \in Objects : p # o => pc'[p] = pc[p] /\ room'[p] = room[p] /\ agent'[p] = agent[p]
  PROVE  Asking'
<1> DEFINE t == Task("hibernate", 0, 0, o)
<1>0. PICK n \in Nat : n = Len(queue[v])
  BY DEF TypeOK
<1>1. t \in Tasks /\ t.for = o /\ queue[v] \in Seq(Tasks)
  BY TaskRecords DEF Task, TypeOK
<1> HIDE DEF t
<1>2. queue'[v] = Append(queue[v], t) /\ \A w \in Objects : w # v => queue'[w] = queue[w]
  BY DEF Enqueue, TypeOK, t
<1>3. /\ Len(queue'[v]) = n + 1 /\ queue'[v][n + 1] = t
      /\ \A i \in 1 .. n : queue'[v][i] = queue[v][i]
  BY <1>0, <1>1, <1>2
<1>4. \A w \in Objects : \A i \in Tasked(w) : ~AskedAt(w, i, o)
  BY DEF Asking
<1>5. ASSUME NEW q \in Objects, NEW w \in Objects, NEW i \in Tasked(w)', AskedAt(w, i, q)'
      PROVE  \/ q # o /\ i \in Tasked(w) /\ AskedAt(w, i, q)
             \/ q = o /\ w = v /\ i = n + 1
  <2>1. CASE w # v
    <3>1. i \in Tasked(w) /\ AskedAt(w, i, q)
      BY <1>2, <1>5, <2>1 DEF AskedAt, Tasked
    <3>2. QED BY <1>4, <3>1
  <2>2. CASE w = v /\ i = n + 1
    BY <1>1, <1>3, <1>5, <2>2 DEF AskedAt
  <2>3. CASE w = v /\ i # n + 1
    <3>1. i \in 1 .. n
      BY <1>3, <2>3 DEF Tasked
    <3>2. i \in Tasked(v) /\ queue'[v][i] = queue[v][i]
      BY <1>0, <1>3, <3>1 DEF Tasked
    <3>3. AskedAt(v, i, q)
      BY <1>5, <2>3, <3>2 DEF AskedAt
    <3>4. QED BY <1>4, <2>3, <3>2, <3>3
  <2>4. QED BY <2>1, <2>2, <2>3
<1>6. ASSUME NEW q \in Objects, NEW w \in Objects, NEW i \in Tasked(w)', AskedAt(w, i, q)'
      PROVE  pc'[q] = "room" /\ room'[q].answer = "none" /\ w \in room'[q].victims
  BY <1>5, <1>6 DEF Asking
<1>7. ASSUME NEW q \in Objects, NEW w \in Objects, NEW x \in Objects,
             NEW i \in Tasked(w)', NEW j \in Tasked(x)', AskedAt(w, i, q)', AskedAt(x, j, q)'
      PROVE  w = x /\ i = j
  BY <1>5, <1>7 DEF Asking
<1>8. \A q \in Objects : room'[q].todo \subseteq room'[q].victims
  BY DEF Asking
<1>9. \A q \in Objects : pc'[q] = "room" => agent'[q].life # "alive"
  BY DEF Asking
<1>10. QED BY <1>6, <1>7, <1>8, <1>9 DEF Asking

(* makeRoomFor picks agents that are alive, so none that waits for room:     *)
(* whoever it waits for waits for nobody.                                    *)
LEMMA PickKeeps ==
  ASSUME TypeOK, WaitsInLine, NEW o \in Objects, pc[o] # "room",
         NEW vs \in SUBSET Objects, \A v \in vs : v # o /\ agent[v].life = "alive",
         NEW v \in vs, Enqueue(v, Task("hibernate", 0, 0, o)),
         room' = [room EXCEPT ![o] = [prev |-> agent[o].life, victims |-> vs,
                                      todo |-> vs \ {v}, answer |-> "none"]],
         agent' = [agent EXCEPT ![o].life = "starting"], Step(o, "room")
  PROVE  WaitsInLine'
<1>1. /\ room'[o].victims = vs /\ room'[o].todo = vs \ {v} /\ room'[o].answer = "none"
      /\ \A p \in Objects : p # o => room'[p] = room[p]
  BY DEF TypeOK
<1>2. pc'[o] = "room" /\ \A p \in Objects : p # o => pc'[p] = pc[p]
  BY DEF Step, TypeOK
<1>3. agent'[o].life = "starting" /\ \A p \in Objects : p # o => agent'[p] = agent[p]
  BY DEF TypeOK, Agents
<1>4. Asking'
  BY <1>1, <1>2, <1>3, AsksOneKeeps DEF WaitsInLine
<1>5. \A u \in vs : \A w \in Objects : ~Holds(u, w)'
  BY <1>2 DEF WaitsInLine, Asking, Holds
<1>6. \A p, w \in Objects : p # o /\ Holds(p, w)' => Holds(p, w)
  BY <1>1, <1>2 DEF Holds
<1>7. ASSUME NEW S \in (SUBSET Objects) \ {{}}
      PROVE  \E p \in S : \A w \in S : ~Holds(p, w)'
  <2>1. CASE o \notin S
    <3>1. PICK p \in S : \A w \in S : ~Holds(p, w)
      BY DEF WaitsInLine, NoHoldCycle
    <3>2. QED BY <1>6, <2>1, <3>1
  <2>2. CASE S \cap vs # {}
    BY <1>5, <2>2
  <2>3. CASE o \in S /\ S \cap vs = {}
    <3>1. \A w \in S : ~Holds(o, w)'
      BY <1>1, <2>3 DEF Holds
    <3>2. QED BY <2>3, <3>1
  <2>4. QED BY <2>1, <2>2, <2>3
<1>8. NoHoldCycle'
  BY <1>7 DEF NoHoldCycle
<1>9. QED BY <1>4, <1>8 DEF WaitsInLine

(* A step of the queue of o, which is not and will not be waiting for room.  *)
LEMMA AwayKeeps ==
  ASSUME WaitsInLine, NEW o \in Objects, AsksNone(o), room' = room, Processed(o),
         pc[o] # "room", pc'[o] # "room"
  PROVE  WaitsInLine'
<1>1. \A q \in Objects : pc'[q] = "room" => pc[q] = "room" /\ agent'[q] = agent[q]
  BY DEF AsksNone, Processed
<1>2. ASSUME NEW q \in Objects, NEW v \in Objects, NEW i \in Tasked(v)', AskedAt(v, i, q)'
      PROVE  pc'[q] = "room" /\ room'[q].answer = "none"
  <2>1. PICK k \in {0, 1} : AskedAt(v, i + k, q)
    BY <1>2, AskedBefore
  <2>2. pc[q] = "room" /\ room[q].answer = "none"
    BY <2>1 DEF WaitsInLine, Asking, AskedAt
  <2>3. QED BY <2>2 DEF AsksNone
<1>3. \A q \in Objects : room'[q].todo \subseteq room'[q].victims
  BY DEF WaitsInLine, Asking
<1>4. QED BY <1>1, <1>2, <1>3, AsksNoneKeeps

LEMMA MakeRoomKeeps ==
  ASSUME TypeOK, WaitsInLine, NEW o \in Objects, Busy(o), MakeRoom(o), cli' = cli, pc[o] # "room"
  PROVE  WaitsInLine'
<1>1. Processed(o)
  BY MakeRoomAgents, SameProcessed
<1>2. CASE FailStart(o) /\ room' = room
  BY <1>1, <1>2, DequeueAsksNone, AwayKeeps DEF FailStart
<1>3. CASE Step(o, "fork") /\ UNCHANGED <<queue, room>>
  BY <1>1, <1>3, StepAsksNone, AwayKeeps DEF Stages
<1>4. ASSUME NEW vs \in SUBSET {v \in LiveBeside(o) : Hibernatable(v)}, NEW v \in vs,
             Enqueue(v, Task("hibernate", 0, 0, o)),
             room' = [room EXCEPT ![o] = [prev |-> agent[o].life, victims |-> vs,
                                          todo |-> vs \ {v}, answer |-> "none"]],
             agent' = [agent EXCEPT ![o].life = "starting"], Step(o, "room")
      PROVE  WaitsInLine'
  <2>1. vs \in SUBSET Objects /\ \A u \in vs : u # o /\ agent[u].life = "alive"
    BY DEF LiveBeside, Hibernatable
  <2>2. QED BY <1>4, <2>1, PickKeeps
<1>5. QED BY <1>2, <1>3, <1>4 DEF MakeRoom

LEMMA StartProcessKeeps ==
  ASSUME TypeOK, WaitsInLine, NEW o \in Objects, Busy(o), StartProcess(o), cli' = cli, pc[o] # "room"
  PROVE  WaitsInLine'
<1>1. Processed(o)
  BY StartProcessAgents, SameProcessed
<1>2. CASE FailStart(o) /\ room' = room
  BY <1>1, <1>2, DequeueAsksNone, AwayKeeps DEF FailStart
<1>3. CASE Step(o, "start") /\ UNCHANGED <<queue, room>>
  BY <1>1, <1>3, StepAsksNone, AwayKeeps DEF Stages
<1>4. QED BY <1>2, <1>3, MakeRoomKeeps DEF StartProcess

(* A victim's hibernation ends: the start that asked for it has its answer.  *)
LEMMA HibernateKeeps ==
  ASSUME TypeOK, WaitsInLine, NEW o \in Objects, Busy(o), NEW ok \in BOOLEAN,
         HibernateEnds(o, ok), Processed(o), pc[o] # "room"
  PROVE  WaitsInLine'
<1>1. AsksNone(o) /\ NoneAsked(o, 1) /\ pc'[o] = "idle"
  BY DequeueAsksNone DEF HibernateEnds
<1> DEFINE s == Top(o).for
<1>2. s \in Objects \cup {NoObj} /\ 1 \in Tasked(o) /\ (s \in Objects => AskedAt(o, 1, s))
  BY TopType, TopTasked DEF Tasks, AskedAt
<1>3. CASE s = NoObj
  BY <1>1, <1>3, AwayKeeps DEF HibernateEnds
<1>4. CASE s \in Objects
  <2>1. /\ \A q \in Objects : room'[q].victims = room[q].victims /\ room'[q].todo = room[q].todo
        /\ \A q \in Objects : q # s => room'[q] = room[q]
    BY <1>4, HostAssumption DEF HibernateEnds, TypeOK, Rooms
  <2>2. ASSUME NEW q \in Objects, NEW v \in Objects, NEW i \in Tasked(v)', AskedAt(v, i, q)'
        PROVE  pc'[q] = "room" /\ room'[q].answer = "none"
    <3>1. PICK k \in {0, 1} : (v = o => k = 1) /\ AskedAt(v, i + k, q)
      <4>1. CASE v = o
        <5>1. i + 1 \in Tasked(o) /\ queue'[o][i] = queue[o][i + 1]
          BY <1>1, <2>2, <4>1 DEF NoneAsked, AskedAt, Tasked
        <5>2. AskedAt(o, i + 1, q)
          BY <2>2, <4>1, <5>1 DEF AskedAt
        <5>3. QED BY <4>1, <5>2
      <4>2. CASE v # o
        BY <1>1, <2>2, <4>2, AskedBefore
      <4>3. QED BY <4>1, <4>2
    <3>2. pc[q] = "room" /\ room[q].answer = "none"
      BY <3>1 DEF WaitsInLine, Asking, AskedAt
    <3>3. q # s
      <4>1. SUFFICES ASSUME q = s PROVE FALSE
        OBVIOUS
      <4>2. v = o /\ i + k = 1
        BY <1>2, <1>4, <3>1, <4>1 DEF WaitsInLine, Asking, AskedAt
      <4>3. i \in Nat /\ i >= 1
        BY DEF Tasked
      <4>4. QED BY <3>1, <4>2, <4>3
    <3>4. QED BY <1>1, <2>1, <3>2, <3>3 DEF AsksNone
  <2>3. \A q \in Objects : pc'[q] = "room" => pc[q] = "room" /\ agent'[q] = agent[q]
    BY <1>1 DEF AsksNone, Processed
  <2>4. \A q \in Objects : room'[q].todo \subseteq room'[q].victims
    BY <2>1 DEF WaitsInLine, Asking
  <2>5. QED BY <1>1, <2>1, <2>2, <2>3, <2>4, AsksNoneKeeps
<1>5. QED BY <1>2, <1>3, <1>4

(* The start that waited goes on to its fork, or fails: it waits no more.    *)
LEMMA LeaveKeeps ==
  ASSUME TypeOK, WaitsInLine, NEW o \in Objects, AsksNone(o), room[o].answer # "none",
         room' = [room EXCEPT ![o] = NoRoom], Processed(o), pc'[o] # "room"
  PROVE  WaitsInLine'
<1>1. room'[o].todo = {} /\ \A q \in Objects : q # o => room'[q] = room[q]
  BY DEF NoRoom, TypeOK
<1>2. ASSUME NEW q \in Objects, NEW v \in Objects, NEW i \in Tasked(v)', AskedAt(v, i, q)'
      PROVE  pc'[q] = "room" /\ room'[q].answer = "none"
  <2>1. PICK k \in {0, 1} : AskedAt(v, i + k, q)
    BY <1>2, AskedBefore
  <2>2. pc[q] = "room" /\ room[q].answer = "none"
    BY <2>1 DEF WaitsInLine, Asking, AskedAt
  <2>3. QED BY <1>1, <2>2 DEF AsksNone
<1>3. \A q \in Objects : pc'[q] = "room" => pc[q] = "room" /\ room'[q] = room[q] /\ agent'[q] = agent[q]
  BY <1>1 DEF AsksNone, Processed
<1>4. \A q \in Objects : room'[q].todo \subseteq room'[q].victims
  BY <1>1 DEF WaitsInLine, Asking
<1>5. QED BY <1>2, <1>3, <1>4, AsksNoneKeeps

LEMMA RoomAnsweredKeeps ==
  ASSUME TypeOK, WaitsInLine, NEW o \in Objects, RoomAnswered(o)
  PROVE  WaitsInLine'
<1>1. Busy(o) /\ pc[o] = "room" /\ room[o].answer # "none" /\ Processed(o)
  BY GoProcessed DEF RoomAnswered, At, Go
<1>2. ASSUME NEW v \in room[o].todo, Enqueue(v, Task("hibernate", 0, 0, o)),
             room' = [room EXCEPT ![o].todo = @ \ {v}, ![o].answer = "none"],
             UNCHANGED <<agent, pc>>
      PROVE  WaitsInLine'
  <2>1. v \in Objects /\ room[o] \in Rooms
    BY DEF TypeOK, Rooms
  <2>2. /\ room'[o].todo = room[o].todo \ {v} /\ room'[o].victims = room[o].victims
        /\ room'[o].answer = "none"
        /\ \A p \in Objects : p # o => room'[p] = room[p]
    BY <1>2, <2>1 DEF TypeOK, Rooms
  <2>3. room[o].todo \subseteq room[o].victims /\ agent[o].life # "alive"
    BY <1>1 DEF WaitsInLine, Asking
  <2>4. Asking'
    BY <1>1, <1>2, <2>1, <2>2, <2>3, AsksOneKeeps DEF WaitsInLine
  <2>5. \A p, w \in Objects : Holds(p, w)' => Holds(p, w)
    BY <1>2, <2>2 DEF Holds
  <2>6. QED BY <2>4, <2>5, FewerHolds DEF WaitsInLine
<1>3. ASSUME room' = [room EXCEPT ![o] = NoRoom], FailStart(o) PROVE WaitsInLine'
  BY <1>1, <1>3, DequeueAsksNone, LeaveKeeps DEF FailStart
<1>4. ASSUME room' = [room EXCEPT ![o] = NoRoom], Step(o, "fork"), queue' = queue PROVE WaitsInLine'
  BY <1>1, <1>4, StepAsksNone, LeaveKeeps DEF Stages
<1>5. QED BY <1>2, <1>3, <1>4 DEF RoomAnswered

LEMMA ForkAsksNone ==
  ASSUME TypeOK, NEW o \in Objects, ForkSucceeds(o)
  PROVE  AsksNone(o) /\ pc'[o] # "room"
<1>1. Busy(o) /\ Simple("log_error") \in Tasks /\ Simple("log_error").for = NoObj
  BY TaskRecords DEF ForkSucceeds, At, Simple, Task, Kinds
<1>2. \A p \in Objects : p # o => queue'[p] = queue[p] /\ pc'[p] = pc[p]
  BY DEF ForkSucceeds, Step, TypeOK
<1>3. queue'[o] \in {queue[o], Append(queue[o], Simple("log_error")),
                     Tail(queue[o]), Append(Tail(queue[o]), Simple("log_error"))}
  BY DEF ForkSucceeds, TypeOK
<1>4. pc'[o] # "room"
  BY DEF ForkSucceeds, Step, TypeOK
<1>5. QED BY <1>1, <1>2, <1>3, <1>4, SameNoneAsked, AppendNoneAsked, TailNoneAsked,
             TailAppendNoneAsked DEF AsksNone

LEMMA EndsAskNone ==
  ASSUME TypeOK, WaitsInLine, NEW o \in Objects, Busy(o), Processed(o), pc[o] # "room"
  PROVE  /\ \A why \in Endings : End(o, why) => WaitsInLine'
         /\ Stopped(o) \/ Removed(o) \/ Dropped(o) => WaitsInLine'
BY StepAsksNone, DequeueAsksNone, AwayKeeps DEF End, Stopped, Removed, Dropped, Stages

LEMMA GoWaitsInLine ==
  ASSUME TypeOK, WaitsInLine, NEW o \in Objects, Go(o)
  PROVE  WaitsInLine'
<1>1. Busy(o) /\ Processed(o)
  BY GoGoes, GoProcessed
<1>2. CASE RunSpawn(o) \/ Waited(o)
  <2>1. pc[o] # "room" /\ cli' = cli
    BY <1>2 DEF RunSpawn, Waited, At
  <2>2. FailStart(o) /\ room' = room => WaitsInLine'
    BY <1>1, <2>1, DequeueAsksNone, AwayKeeps DEF FailStart
  <2>3. QED BY <1>1, <1>2, <2>1, <2>2, StartProcessKeeps, MakeRoomKeeps DEF RunSpawn, Waited
<1>3. CASE RunSend(o)
  <2>1. pc[o] # "room"
    BY <1>3 DEF RunSend, At
  <2>2. Dequeue(o) /\ room' = room => WaitsInLine'
    BY <1>1, <2>1, DequeueAsksNone, AwayKeeps
  <2>3. QED BY <1>1, <1>3, <2>1, <2>2, StartProcessKeeps DEF RunSend, FailStart
<1>4. CASE ForkFails(o) \/ ForkSucceeds(o)
  <2>1. pc[o] # "room" /\ room' = room
    BY <1>4 DEF ForkFails, ForkSucceeds, At
  <2>2. AsksNone(o) /\ pc'[o] # "room"
    BY <1>1, <1>4, ForkAsksNone, DequeueAsksNone DEF ForkFails
  <2>3. QED BY <1>1, <2>1, <2>2, AwayKeeps
<1>5. CASE RunStop(o) \/ RunRemove(o) \/ RunDrain(o) \/ RunLogError(o)
  <2>1. pc[o] # "room"
    BY <1>5 DEF RunStop, RunRemove, RunDrain, RunLogError, At
  <2>2. QED BY <1>1, <1>5, <2>1, EndsAskNone DEF RunStop, RunRemove, RunDrain, RunLogError, Endings
<1>6. CASE RunHibernate(o) \/ Detached(o)
  <2>1. pc[o] # "room" /\ (agent[o].life = "hibernated") \in BOOLEAN
    BY <1>6 DEF RunHibernate, Detached, At
  <2>2. Step(o, "detach") /\ UNCHANGED <<queue, room>> => WaitsInLine'
    BY <1>1, <2>1, StepAsksNone, AwayKeeps DEF Stages
  <2>3. QED BY <1>1, <1>6, <2>1, <2>2, EndsAskNone, HibernateKeeps DEF RunHibernate, Detached, Endings
<1>7. CASE EndDone(o)
  <2>1. pc[o] # "room"
    BY <1>7 DEF EndDone
  <2>2. FailStart(o) /\ room' = room => WaitsInLine'
    BY <1>1, <2>1, DequeueAsksNone, AwayKeeps DEF FailStart
  <2>3. HibernateEnds(o, TRUE) => WaitsInLine'
    BY <1>1, <2>1, HibernateKeeps
  <2>4. QED BY <1>1, <1>7, <2>1, <2>2, <2>3, EndsAskNone DEF EndDone
<1>8. QED BY <1>2, <1>3, <1>4, <1>5, <1>6, <1>7, RoomAnsweredKeeps DEF Go

LEMMA ElsewhereInLine ==
  ASSUME TypeOK, WaitsInLine, Elsewhere
  PROVE  WaitsInLine'
<1>1. UNCHANGED <<pc, room>>
  BY DEF Elsewhere
<1>2. ASSUME NEW q \in Objects, NEW v \in Objects, NEW i \in Tasked(v)', AskedAt(v, i, q)'
      PROVE  i \in Tasked(v) /\ AskedAt(v, i, q)
  <2>1. q # NoObj /\ i \in 1 .. Len(queue'[v]) /\ queue'[v][i].for = q
    BY <1>2, ObjectsAreNamed DEF AskedAt, Tasked
  <2>2. QED BY <2>1, JoinedTasks DEF Elsewhere, Joins, AskedAt
<1>3. \A q \in Objects : pc'[q] = "room" => agent'[q].life # "alive"
  BY <1>1 DEF WaitsInLine, Asking, Elsewhere
<1>4. Asking'
  BY <1>1, <1>2, <1>3 DEF WaitsInLine, Asking
<1>5. \A p, w \in Objects : Holds(p, w)' => Holds(p, w)
  BY <1>1 DEF Holds
<1>6. QED BY <1>4, <1>5, FewerHolds DEF WaitsInLine

LEMMA NobodyWaits ==
  ASSUME \A o \in Objects : pc[o] = "idle" /\ queue[o] = <<>> /\ room[o] = NoRoom
  PROVE  WaitsInLine
<1>1. Asking
  <2>1. \A o \in Objects : Tasked(o) = {} /\ pc[o] # "room" /\ room[o].todo = {}
    BY DEF Tasked, NoRoom
  <2>2. QED BY <2>1 DEF Asking
<1>2. \A o, v \in Objects : ~Holds(o, v)
  BY DEF Holds
<1>3. NoHoldCycle
  <2> SUFFICES ASSUME NEW S \in (SUBSET Objects) \ {{}}
               PROVE  \E o \in S : \A v \in S : ~Holds(o, v)
    BY DEF NoHoldCycle
  <2>1. S # {} /\ S \subseteq Objects
    OBVIOUS
  <2>2. PICK o : o \in S
    BY <2>1
  <2>3. QED BY <1>2, <2>1, <2>2
<1>4. QED BY <1>1, <1>3 DEF WaitsInLine

LEMMA InLineInvariant == Spec => []WaitsInLine
<1>1. Init => WaitsInLine
  BY NobodyWaits DEF Init
<1>2. HostRestart => WaitsInLine'
  <2> SUFFICES ASSUME HostRestart PROVE WaitsInLine'
    OBVIOUS
  <2>1. \A o \in Objects : pc'[o] = "idle" /\ queue'[o] = <<>> /\ room'[o] = NoRoom
    BY DEF HostRestart
  <2>2. Asking'
    <3>1. \A o \in Objects : Tasked(o)' = {} /\ pc'[o] # "room" /\ room'[o].todo = {}
      BY <2>1 DEF Tasked, NoRoom
    <3>2. QED BY <3>1 DEF Asking
  <2>3. NoHoldCycle'
    <3>1. \A o, v \in Objects : ~Holds(o, v)'
      BY <2>1 DEF Holds
    <3> SUFFICES ASSUME NEW S \in (SUBSET Objects) \ {{}}
                 PROVE  \E o \in S : \A v \in S : ~Holds(o, v)'
      BY DEF NoHoldCycle
    <3>2. S # {} /\ S \subseteq Objects
      OBVIOUS
    <3>3. PICK o : o \in S
      BY <3>2
    <3>4. QED BY <3>1, <3>2, <3>3
  <2>4. QED BY <2>2, <2>3 DEF WaitsInLine
<1>3. TypeOK /\ Born /\ WaitsInLine /\ [Next]_vars => WaitsInLine'
  BY <1>2, NextElsewhere, ElsewhereInLine, GoWaitsInLine
<1>4. QED BY <1>1, <1>3, TypeCorrect, WaitingInvariant, PTL DEF Spec

(* NoWaitCycle: the starts that wait for room never wait on each other in a  *)
(* circle, so the rooms' promise queues cannot deadlock.                     *)
THEOREM StartsWaitInLine == Spec => []NoWaitCycle
<1>1. WaitsInLine => NoWaitCycle
  <2> SUFFICES ASSUME WaitsInLine, NEW S \in (SUBSET Objects) \ {{}}
               PROVE  \E o \in S : \A v \in S : ~Awaits(o, v)
    BY DEF NoWaitCycle
  <2>1. PICK o \in S : \A v \in S : ~Holds(o, v)
    BY DEF WaitsInLine, NoHoldCycle
  <2>2. \A v \in S : ~Awaits(o, v)
    BY <2>1 DEF WaitsInLine, Asking, AskedAt, Tasked, Awaits, Holds
  <2>3. QED BY <2>2
<1>2. QED BY <1>1, InLineInvariant, PTL

-----------------------------------------------------------------------------
(* A message handed to a process and not finished is written or crowded, and *)
(* it is in one place of one process.                                        *)

InLine(p) ==
  \A i \in 1 .. Len(cli[p].in) :
    /\ cli[p].in[i] \notin cli[p].work
    /\ \A j \in 1 .. Len(cli[p].in) : cli[p].in[i] = cli[p].in[j] => i = j

Held ==
  /\ \A p \in Objects : InLine(p)
  /\ \A p \in Objects : \A m \in Unfinished(p) : msg[m] \in {"written", "crowded"}
  /\ \A p, q \in Objects : p # q => Unfinished(p) \cap Unfinished(q) = {}

(* A message is written to the process that runs. *)
Sends(o) ==
  /\ At(o, {"send"}, "idle") /\ Running(o) /\ ~Draining
  /\ Dequeue(o)
  /\ Fate(o, IF Crowded(cli[o]) THEN "crowded" ELSE "written")
  /\ agent' = [agent EXCEPT ![o] = WriteTo(@)]
  /\ cli' = [cli EXCEPT ![o] = Hand(@, Top(o).msg)]

(* What p's process holds and what is counted of its turns do not change. *)
Calm(p) ==
  LET c == cli[p]
      d == cli'[p]
      a == agent[p]
      b == agent'[p]
  IN
  /\ d.st = c.st /\ d.in = c.in /\ d.out = c.out /\ d.work = c.work /\ d.busy = c.busy /\ d.bg = c.bg
  /\ b.turn = a.turn /\ b.since = a.since /\ b.settle = a.settle /\ b.logError = a.logError
  /\ c.st = "up" => b.life = a.life

LEMMA CalmIf ==
  ASSUME TypeOK, NEW p \in Objects,
         \/ cli' = cli /\ agent' = agent
         \/ cli' = cli /\ ~Running(p) /\ \E l : agent' = [agent EXCEPT ![p].life = l]
         \/ \E why : End(p, why)
         \/ cli'[p] = cli[p] /\ agent'[p] = agent[p]
  PROVE  Calm(p)
<1>0. agent[p] \in Agents /\ cli[p] \in Processes
  BY DEF TypeOK
<1>1. CASE cli'[p] = cli[p] /\ agent'[p] = agent[p]
  BY <1>1 DEF Calm
<1>2. ASSUME cli' = cli, ~Running(p), NEW l, agent' = [agent EXCEPT ![p].life = l] PROVE Calm(p)
  <2>1. agent'[p] = [agent[p] EXCEPT !.life = l]
    BY <1>2 DEF TypeOK
  <2>2. QED BY <1>0, <1>2, <2>1 DEF Calm, Running, Agents
<1>3. ASSUME NEW why, End(p, why) PROVE Calm(p)
  <2>1. agent'[p] = [agent[p] EXCEPT !.ending = why] /\ cli'[p] = [cli[p] EXCEPT !.eof = TRUE]
    BY <1>3 DEF End, TypeOK
  <2>2. QED BY <1>0, <2>1 DEF Calm, Agents, Processes
<1>4. QED BY <1>1, <1>2, <1>3

LEMMA MakeRoomCalm ==
  ASSUME TypeOK, NEW o \in Objects, MakeRoom(o), cli' = cli, ~Running(o)
  PROVE  Calm(o)
BY CalmIf, MakeRoomAgents

LEMMA StartProcessCalm ==
  ASSUME TypeOK, NEW o \in Objects, StartProcess(o), cli' = cli
  PROVE  Calm(o)
<1>1. CASE agent' = agent
  BY <1>1, CalmIf
<1>2. CASE CanReplace(o) /\ MakeRoom(o)
  BY <1>2, MakeRoomCalm DEF CanReplace, Running
<1>3. QED BY <1>1, <1>2 DEF StartProcess

LEMMA GoCalm ==
  ASSUME TypeOK, StartsAlone, NEW o \in Objects, Go(o)
  PROVE  Sends(o) \/ ForkSucceeds(o) \/ Calm(o)
<1>1. CASE RunSpawn(o)
  BY <1>1, StartProcessCalm DEF RunSpawn
<1>2. CASE RunSend(o)
  BY <1>2, StartProcessCalm, CalmIf DEF RunSend, Sends
<1>3. CASE Waited(o)
  <2>1. CASE agent' = agent
    BY <1>3, <2>1, CalmIf DEF Waited
  <2>2. CASE MakeRoom(o)
    <3>1. CanReplace(o)
      BY <1>3 DEF Waited, At, Ready
    <3>2. QED BY <1>3, <2>2, <3>1, MakeRoomCalm DEF Waited, CanReplace, Running
  <2>3. QED BY <1>3, <2>1, <2>2 DEF Waited
<1>4. CASE RoomAnswered(o) \/ ForkFails(o)
  <2>1. cli' = cli /\ ~Running(o)
    BY <1>4 DEF RoomAnswered, ForkFails, At, StartsAlone, Running
  <2>2. agent' = agent \/ \E l : agent' = [agent EXCEPT ![o].life = l]
    BY <1>4 DEF RoomAnswered, ForkFails
  <2>3. QED BY <2>1, <2>2, CalmIf
<1>5. CASE RunStop(o) \/ RunRemove(o) \/ RunDrain(o) \/ RunLogError(o)
  BY <1>5, CalmIf DEF RunStop, RunRemove, RunDrain, RunLogError, Stopped, Removed, Dropped
<1>6. CASE RunHibernate(o) \/ Detached(o)
  BY <1>6, CalmIf DEF RunHibernate, Detached
<1>7. CASE EndDone(o)
  <2>1. ~Running(o)
    BY <1>7 DEF EndDone, Running
  <2>2. cli' = cli /\ (agent' = agent \/ \E l : agent' = [agent EXCEPT ![o].life = l])
    BY <1>7 DEF EndDone, Stopped, Removed, Dropped
  <2>3. QED BY <2>1, <2>2, CalmIf
<1>8. QED BY <1>1, <1>2, <1>3, <1>4, <1>5, <1>6, <1>7 DEF Go

(* A queue's step changes the fate of the message its head carries at most,  *)
(* and drops none.                                                           *)
Fated(o) == msg' = msg \/ \E f \in {"refused", "written", "crowded"} : Fate(o, f)

LEMMA GoFates ==
  ASSUME NEW o \in Objects, Go(o)
  PROVE  Fated(o)
<1>1. FailStart(o) => Fated(o)
  BY DEF FailStart, Fated
<1>2. MakeRoom(o) => Fated(o)
  BY <1>1 DEF MakeRoom, Fated
<1>3. StartProcess(o) => Fated(o)
  BY <1>1, <1>2 DEF StartProcess, Fated
<1>4. CASE RunSpawn(o) \/ Waited(o)
  BY <1>1, <1>2, <1>3, <1>4 DEF RunSpawn, Waited
<1>5. CASE RunSend(o)
  BY <1>1, <1>3, <1>5 DEF RunSend, Fated
<1>6. CASE RoomAnswered(o) \/ ForkFails(o) \/ ForkSucceeds(o)
  BY <1>1, <1>6 DEF RoomAnswered, ForkFails, ForkSucceeds, Fated
<1>7. CASE RunStop(o) \/ RunRemove(o) \/ RunDrain(o) \/ RunLogError(o)
  BY <1>7 DEF RunStop, RunRemove, RunDrain, RunLogError, End, Stopped, Removed, Dropped, Fated
<1>8. CASE RunHibernate(o) \/ Detached(o)
  BY <1>8 DEF RunHibernate, Detached, End, Fated
<1>9. CASE EndDone(o)
  BY <1>1, <1>9 DEF EndDone, Stopped, Removed, Dropped, Fated
<1>10. QED BY <1>4, <1>5, <1>6, <1>7, <1>8, <1>9 DEF Go

LEMMA GoMessages ==
  ASSUME NEW o \in Objects, Go(o), NEW m \in Messages, m # Top(o).msg
  PROVE  msg'[m] = msg[m]
BY GoFates DEF Fated, Fate

(* The message a task carries is held by no process. *)
LEMMA TopUnheld ==
  ASSUME TypeOK, Waiting, NEW o \in Objects, Busy(o), NEW p \in Objects
  PROVE  Top(o).msg \notin Unfinished(p)
<1>1. 1 \in Tasked(o) /\ Top(o) = queue[o][1]
  BY TopTasked
<1>2. Top(o).msg # 0 => msg[Top(o).msg] \in {"queued", "overtaken"}
  BY <1>1 DEF Waiting, Carries, Tasked
<1>3. Unfinished(p) \subseteq Messages /\ \A m \in Unfinished(p) : msg[m] \notin {"new", "queued", "overtaken"}
  BY UnfinishedTyped DEF Waiting
<1>4. 0 \notin Messages
  BY DEF Messages
<1>5. QED BY <1>2, <1>3, <1>4

(* What a step does to what p's process holds: nothing, or it works on the   *)
(* first message of its stdin, or is done with those it worked on, or is     *)
(* another process.                                                          *)
Handles(p) ==
  \/ cli'[p].in = cli[p].in /\ cli'[p].work \in {cli[p].work, {}}
  \/ /\ cli[p].in # <<>> /\ cli'[p].in = Tail(cli[p].in)
     /\ cli'[p].work \subseteq cli[p].work \cup {Head(cli[p].in)}
  \/ cli'[p].in = <<>> /\ cli'[p].work = {}

LEMMA HandlesInLine ==
  ASSUME TypeOK, NEW p \in Objects, Handles(p), InLine(p)
  PROVE  InLine(p)' /\ Unfinished(p)' \subseteq Unfinished(p)
<1> DEFINE s == cli[p].in
<1>0. s \in Seq(Messages)
  BY DEF TypeOK, Processes
<1>1. CASE cli'[p].in = s /\ cli'[p].work \in {cli[p].work, {}}
  BY <1>1 DEF InLine, Unfinished
<1>2. CASE s # <<>> /\ cli'[p].in = Tail(s) /\ cli'[p].work \subseteq cli[p].work \cup {Head(s)}
  <2>1. 1 \in 1 .. Len(s) /\ Head(s) = s[1]
    BY <1>0, <1>2
  <2>2. \A i \in 1 .. Len(Tail(s)) : i + 1 \in 1 .. Len(s) /\ Tail(s)[i] = s[i + 1]
    BY <1>0, <1>2
  <2>3. \A i \in 1 .. Len(Tail(s)) : Tail(s)[i] # Head(s) /\ Tail(s)[i] \notin cli[p].work
    BY <2>1, <2>2 DEF InLine
  <2>4. \A i, j \in 1 .. Len(Tail(s)) : Tail(s)[i] = Tail(s)[j] => i = j
    BY <2>2 DEF InLine
  <2>5. InLine(p)'
    BY <1>2, <2>3, <2>4 DEF InLine
  <2>6. Head(s) \in Unfinished(p) /\ \A i \in 1 .. Len(Tail(s)) : Tail(s)[i] \in Unfinished(p)
    BY <2>1, <2>2 DEF Unfinished
  <2>7. Unfinished(p)' \subseteq Unfinished(p)
    BY <1>2, <2>6 DEF Unfinished
  <2>8. QED BY <2>5, <2>7
<1>3. CASE cli'[p].in = <<>> /\ cli'[p].work = {}
  BY <1>3 DEF InLine, Unfinished
<1>4. QED BY <1>1, <1>2, <1>3 DEF Handles

(* No message is handed over, and those a process keeps keep their fate. *)
LEMMA HandlesHeld ==
  ASSUME TypeOK, Held, \A p \in Objects : Handles(p),
         \A p \in Objects : \A m \in Unfinished(p)' : msg'[m] = msg[m]
  PROVE  Held'
<1>1. \A p \in Objects : InLine(p)' /\ Unfinished(p)' \subseteq Unfinished(p)
  BY HandlesInLine DEF Held
<1>2. QED BY <1>1 DEF Held

(* Message m, held by no process, is handed to o's: the one that is there, or *)
(* another that holds nothing else.                                           *)
LEMMA HandsHeld ==
  ASSUME TypeOK, Held, NEW o \in Objects, NEW m \in Messages, \A p \in Objects : m \notin Unfinished(p),
         \/ cli'[o].in = Append(cli[o].in, m) /\ cli'[o].work = cli[o].work
         \/ cli'[o].in = <<m>> /\ cli'[o].work = {},
         \A p \in Objects : p # o => cli'[p] = cli[p],
         msg'[m] \in {"written", "crowded"},
         \A p \in Objects : \A k \in Unfinished(p) : msg'[k] = msg[k]
  PROVE  Held'
<1> DEFINE s == cli[o].in
<1>0. s \in Seq(Messages)
  BY DEF TypeOK, Processes
<1>1. \A p \in Objects : p # o => InLine(p)' /\ Unfinished(p)' = Unfinished(p)
  BY DEF InLine, Unfinished, Held
<1>2. InLine(o)' /\ Unfinished(o)' \subseteq Unfinished(o) \cup {m}
  <2>1. CASE cli'[o].in = Append(s, m) /\ cli'[o].work = cli[o].work
    <3>1. \A i \in 1 .. Len(Append(s, m)) : \/ i \in 1 .. Len(s) /\ Append(s, m)[i] = s[i]
                                            \/ i = Len(s) + 1 /\ Append(s, m)[i] = m
      BY <1>0
    <3>2. m \notin cli[o].work /\ \A i \in 1 .. Len(s) : s[i] # m
      BY DEF Unfinished
    <3>3. \A i \in 1 .. Len(Append(s, m)) : Append(s, m)[i] \notin cli[o].work
      BY <3>1, <3>2 DEF InLine, Held
    <3>4. \A i, j \in 1 .. Len(Append(s, m)) : Append(s, m)[i] = Append(s, m)[j] => i = j
      BY <3>1, <3>2 DEF InLine, Held
    <3>5. InLine(o)'
      BY <2>1, <3>3, <3>4 DEF InLine
    <3>6. \A i \in 1 .. Len(Append(s, m)) : Append(s, m)[i] \in Unfinished(o) \cup {m}
      BY <3>1 DEF Unfinished
    <3>7. Unfinished(o)' \subseteq Unfinished(o) \cup {m}
      BY <2>1, <3>6 DEF Unfinished
    <3>8. QED BY <3>5, <3>7
  <2>2. CASE cli'[o].in = <<m>> /\ cli'[o].work = {}
    BY <2>2 DEF InLine, Unfinished
  <2>3. QED BY <2>1, <2>2
<1>3. \A p \in Objects : InLine(p)' /\ Unfinished(p)' \subseteq Unfinished(p) \cup (IF p = o THEN {m} ELSE {})
  BY <1>1, <1>2
<1>4. \A p \in Objects : \A k \in Unfinished(p)' : msg'[k] \in {"written", "crowded"}
  BY <1>3 DEF Held
<1>5. \A p, q \in Objects : p # q => Unfinished(p)' \cap Unfinished(q)' = {}
  BY <1>3 DEF Held
<1>6. QED BY <1>3, <1>4, <1>5 DEF Held

(* What a start hands to its process, and how it begins. *)
LEMMA ForkHands ==
  ASSUME TypeOK, NEW o \in Objects, ForkSucceeds(o)
  PROVE  LET m == Top(o).msg
             write == m # 0 /\ ~Draining /\ ~IsRemoved(o) /\ ~StoppedSince(o)
         IN
         /\ cli'[o].in = IF write THEN <<m>> ELSE <<>>
         /\ cli'[o].work = {} /\ cli'[o].out = <<>> /\ ~cli'[o].busy /\ ~cli'[o].bg
         /\ cli'[o].st = "up"
         /\ write => m \in Messages /\ msg'[m] = "written"
<1> DEFINE m == Top(o).msg
           write == m # 0 /\ ~Draining /\ ~IsRemoved(o) /\ ~StoppedSince(o)
           proc == [NoProcess EXCEPT !.st = "up", !.eof = Draining]
<1>1. PICK c : c = proc
  OBVIOUS
<1>2. c.in = <<>> /\ c.work = {} /\ c.out = <<>> /\ ~c.busy /\ ~c.bg /\ c.st = "up" /\ c \in Processes
  <2>1. NoProcess \in Processes
    BY FreshRecords
  <2>2. c.in = <<>> /\ c.work = {} /\ c.out = <<>> /\ ~c.busy /\ ~c.bg /\ c.st = "up"
    BY <1>1 DEF NoProcess
  <2>3. c \in Processes
    BY <1>1, <2>1 DEF Processes, Draining
  <2>4. QED BY <2>2, <2>3
<1>3. cli'[o] = IF write THEN Hand(c, m) ELSE c
  BY <1>1 DEF ForkSucceeds, TypeOK
<1>4. /\ Hand(c, m).in = <<m>> /\ Hand(c, m).work = {} /\ Hand(c, m).out = <<>>
      /\ ~Hand(c, m).busy /\ ~Hand(c, m).bg /\ Hand(c, m).st = "up"
  BY <1>2 DEF Hand, Processes
<1>5. write => m \in Messages /\ msg'[m] = "written"
  <2>1. Busy(o)
    BY DEF ForkSucceeds, At
  <2>2. m \in Messages \cup {0}
    BY <2>1, TopType DEF Tasks
  <2>3. QED BY <2>2 DEF ForkSucceeds, Fate
<1>6. QED BY <1>2, <1>3, <1>4, <1>5

LEMMA SendsHands ==
  ASSUME TypeOK, NEW o \in Objects, Sends(o)
  PROVE  LET m == Top(o).msg
             c == cli[o]
             d == cli'[o]
             a == agent[o]
             b == agent'[o]
         IN
         /\ d.in = Append(c.in, m) /\ d.work = c.work /\ d.out = c.out /\ d.busy = c.busy
         /\ d.bg = c.bg /\ d.st = c.st
         /\ b.since = a.since + 1 /\ b.turn /\ b.settle = a.settle /\ b.logError = a.logError
         /\ b.life = a.life /\ b.ending = a.ending
         /\ m \in Messages /\ msg'[m] = IF Crowded(c) THEN "crowded" ELSE "written"
<1>1. Busy(o) /\ cli[o] \in Processes /\ agent[o] \in Agents
  BY DEF Sends, At, TypeOK
<1>2. Top(o).msg \in Messages
  BY <1>1, TopType DEF Sends, At, Tasks
<1>3. cli'[o] = Hand(cli[o], Top(o).msg) /\ agent'[o] = WriteTo(agent[o])
  BY DEF Sends, TypeOK
<1>4. msg'[Top(o).msg] = IF Crowded(cli[o]) THEN "crowded" ELSE "written"
  BY <1>2 DEF Sends, Fate
<1>5. QED BY <1>1, <1>2, <1>3, <1>4 DEF Hand, WriteTo, Processes, Agents

LEMMA GoHeld ==
  ASSUME TypeOK, StartsAlone, Waiting, Held, NEW o \in Objects, Go(o)
  PROVE  Held'
<1>1. Busy(o) /\ \A p \in Objects : p # o => cli'[p] = cli[p]
  BY GoGoes, GoProcessed DEF Processed
<1>2. \A p \in Objects : Top(o).msg \notin Unfinished(p)
  BY <1>1, TopUnheld
<1>3. \A p \in Objects : \A k \in Unfinished(p) : msg'[k] = msg[k]
  BY <1>2, GoMessages, UnfinishedTyped
<1>4. ASSUME Handles(o) PROVE Held'
  <2>1. \A p \in Objects : Handles(p)
    BY <1>1, <1>4 DEF Handles
  <2>2. \A p \in Objects : Unfinished(p)' \subseteq Unfinished(p)
    BY <2>1, HandlesInLine DEF Held
  <2>3. QED BY <1>3, <2>1, <2>2, HandlesHeld
<1>5. CASE Calm(o)
  BY <1>4, <1>5 DEF Calm, Handles
<1>6. CASE Sends(o)
  BY <1>1, <1>2, <1>3, <1>6, SendsHands, HandsHeld
<1>7. CASE ForkSucceeds(o)
  <2>1. CASE cli'[o].in = <<>>
    BY <1>4, <1>7, <2>1, ForkHands DEF Handles
  <2>2. CASE cli'[o].in # <<>>
    <3>1. /\ Top(o).msg \in Messages /\ msg'[Top(o).msg] = "written"
          /\ cli'[o].in = <<Top(o).msg>> /\ cli'[o].work = {}
      BY <1>7, <2>2, ForkHands
    <3>2. QED BY <1>1, <1>2, <1>3, <3>1, HandsHeld
  <2>3. QED BY <2>1, <2>2
<1>8. QED BY <1>5, <1>6, <1>7, GoCalm

(* What the steps of o's process do to it. *)
LEMMA CliSteps ==
  ASSUME TypeOK, NEW o \in Objects, Cli(o)
  PROVE  LET c == cli[o]
             d == cli'[o]
         IN
         /\ \A p \in Objects : p # o => cli'[p] = cli[p]
         /\ Running(o) /\ (\A m \in Messages : msg'[m] = msg[m] \/ (EndTurn(o) /\ m \in c.work /\ msg'[m] = "done"))
         /\ \/ /\ TakeTurn(o) /\ ~c.busy /\ c.in # <<>>
               /\ d.in = Tail(c.in) /\ d.work = {Head(c.in)} /\ d.busy
               /\ d.out = Append(c.out, "init") /\ d.bg = c.bg /\ d.st = c.st
            \/ /\ FoldIn(o) /\ c.busy /\ c.in # <<>>
               /\ d.in = Tail(c.in) /\ d.work = c.work \cup {Head(c.in)} /\ d.busy
               /\ d.out = c.out /\ d.bg = c.bg /\ d.st = c.st
            \/ /\ EndTurn(o) /\ c.busy
               /\ d.in = c.in /\ d.work = {} /\ ~d.busy
               /\ d.out = Append(c.out, "result") /\ d.bg = c.bg /\ d.st = c.st
            \/ Background(o) /\ d.in = c.in /\ d.work = c.work
            \/ /\ Exit(o) \/ Crash(o)
               /\ d.in = c.in /\ d.work = c.work /\ d.busy = c.busy
               /\ d.out = c.out /\ d.bg = c.bg /\ d.st = "gone"
<1>0. cli[o] \in Processes
  BY DEF TypeOK
<1>1. \A p \in Objects : p # o => cli'[p] = cli[p]
  BY DEF Cli, TakeTurn, FoldIn, EndTurn, Background, Exit, Crash, Emit, TypeOK
<1>2. Running(o)
  BY DEF Cli, TakeTurn, FoldIn, EndTurn, Background, Exit, Crash
<1>3. \A m \in Messages : msg'[m] = msg[m] \/ (EndTurn(o) /\ m \in cli[o].work /\ msg'[m] = "done")
  <2>1. EndTurn(o) => \A m \in Messages : msg'[m] = msg[m] \/ (m \in cli[o].work /\ msg'[m] = "done")
    BY DEF EndTurn
  <2>2. ~EndTurn(o) => msg' = msg
    BY DEF Cli, TakeTurn, FoldIn, Background, Exit, Crash
  <2>3. QED BY <2>1, <2>2
<1>4. CASE TakeTurn(o)
  <2>1. cli'[o] = [[cli[o] EXCEPT !.busy = TRUE, !.work = {Head(cli[o].in)}, !.in = Tail(@)]
                     EXCEPT !.out = Append(@, "init")]
    BY <1>4 DEF TakeTurn, Emit, TypeOK
  <2>2. ~cli[o].busy /\ cli[o].in # <<>>
    BY <1>4 DEF TakeTurn
  <2>3. QED BY <1>0, <1>1, <1>2, <1>3, <1>4, <2>1, <2>2 DEF Processes
<1>5. CASE FoldIn(o)
  <2>1. cli'[o] = [cli[o] EXCEPT !.work = @ \cup {Head(cli[o].in)}, !.in = Tail(@)]
    BY <1>5 DEF FoldIn, TypeOK
  <2>2. cli[o].busy /\ cli[o].in # <<>>
    BY <1>5 DEF FoldIn
  <2>3. QED BY <1>0, <1>1, <1>2, <1>3, <1>5, <2>1, <2>2 DEF Processes
<1>6. CASE EndTurn(o)
  <2>1. cli'[o] = [[cli[o] EXCEPT !.busy = FALSE, !.work = {}] EXCEPT !.out = Append(@, "result")]
    BY <1>6 DEF EndTurn, Emit, TypeOK
  <2>2. cli[o].busy
    BY <1>6 DEF EndTurn
  <2>3. QED BY <1>0, <1>1, <1>2, <1>3, <1>6, <2>1, <2>2 DEF Processes
<1>7. CASE Background(o)
  <2>1. cli'[o].in = cli[o].in /\ cli'[o].work = cli[o].work
    <3>1. ASSUME NEW b, NEW l, Emit(o, [cli[o] EXCEPT !.bg = b], l)
          PROVE  cli'[o].in = cli[o].in /\ cli'[o].work = cli[o].work
      BY <1>0, <3>1 DEF Emit, TypeOK, Processes
    <3>2. CASE cli' = [cli EXCEPT ![o] = [cli[o] EXCEPT !.bg = FALSE, !.busy = TRUE,
                                                        !.out = @ \o <<"bg_off", "assistant">>]]
      BY <1>0, <3>2 DEF TypeOK, Processes
    <3>3. QED BY <1>7, <3>1, <3>2 DEF Background
  <2>2. QED BY <1>1, <1>2, <1>3, <1>7, <2>1
<1>8. CASE Exit(o) \/ Crash(o)
  <2>1. cli'[o] = [cli[o] EXCEPT !.st = "gone"]
    BY <1>8 DEF Exit, Crash, TypeOK
  <2>2. QED BY <1>0, <1>1, <1>2, <1>3, <1>8, <2>1 DEF Processes
<1>9. QED BY <1>4, <1>5, <1>6, <1>7, <1>8 DEF Cli

LEMMA CliHeld ==
  ASSUME TypeOK, Held, NEW o \in Objects, Cli(o)
  PROVE  Held'
<1>1. \A p \in Objects : p # o => Handles(p)
  BY CliSteps DEF Handles
<1>2. Handles(o)
  <2>1. cli[o].in \in Seq(Messages)
    BY DEF TypeOK, Processes
  <2>2. QED BY <2>1, CliSteps DEF Handles
<1>3. ASSUME NEW p \in Objects, NEW m \in Unfinished(p)' PROVE msg'[m] = msg[m]
  <2>1. m \in Unfinished(p) /\ m \in Messages
    BY <1>1, <1>2, HandlesInLine, UnfinishedTyped DEF Held
  <2>2. ~(EndTurn(o) /\ m \in cli[o].work)
    <3> SUFFICES ASSUME EndTurn(o), m \in cli[o].work PROVE FALSE
      OBVIOUS
    <3>1. p = o
      BY <2>1 DEF Held, Unfinished
    <3>2. cli'[o].work = {} /\ cli'[o].in = cli[o].in
      BY DEF EndTurn, Emit, TypeOK, Processes
    <3>3. PICK i \in 1 .. Len(cli[o].in) : m = cli[o].in[i]
      BY <1>3, <3>1, <3>2 DEF Unfinished
    <3>4. QED BY <3>3 DEF Held, InLine
  <2>3. QED BY <2>1, <2>2, CliSteps
<1>4. QED BY <1>1, <1>2, <1>3, HandlesHeld

(* The process whose exit is handled is gone with all it held.               *)
LEMMA OnExitCli ==
  ASSUME TypeOK, NEW o \in Objects, OnExit(o)
  PROVE  /\ cli'[o] = NoProcess /\ \A p \in Objects : p # o => cli'[p] = cli[p] /\ agent'[p] = agent[p]
         /\ Unfinished(o)' = {}
BY DEF OnExit, NoProcess, Unfinished, TypeOK

LEMMA EventHeld ==
  ASSUME TypeOK, Held, NEW o \in Objects, Event(o)
  PROVE  Held'
<1>1. CASE OnExit(o)
  <2>1. \A p \in Objects : Handles(p)
    BY <1>1, OnExitCli DEF Handles, NoProcess
  <2>2. ASSUME NEW p \in Objects, NEW m \in Unfinished(p)' PROVE msg'[m] = msg[m]
    <3>1. p # o /\ m \in Unfinished(p) /\ m \in Messages
      BY <1>1, <2>1, <2>2, HandlesInLine, OnExitCli, UnfinishedTyped DEF Held
    <3>2. m \notin Unfinished(o)
      BY <3>1 DEF Held
    <3>3. QED BY <1>1, <3>1, <3>2 DEF OnExit
  <2>3. QED BY <2>1, <2>2, HandlesHeld
<1>2. CASE ~OnExit(o)
  <2>1. msg' = msg
    BY <1>2 DEF Event, SweepEnds, OnLine, Settle, LogFails
  <2>2. \A p \in Objects : cli'[p].in = cli[p].in /\ cli'[p].work = cli[p].work
    <3>1. CASE cli' = cli
      BY <3>1
    <3>2. CASE cli' = [cli EXCEPT ![o].out = Tail(@)]
      BY <3>2 DEF TypeOK, Processes
    <3>3. QED BY <1>2, <3>1, <3>2 DEF Event, SweepEnds, OnLine, Settle, LogFails
  <2>3. \A p \in Objects : Handles(p)
    BY <2>2 DEF Handles
  <2>4. QED BY <2>1, <2>3, HandlesHeld
<1>3. QED BY <1>1, <1>2

LEMMA RequestHeld ==
  ASSUME TypeOK, Waiting, Held, NEW o \in Objects, Request(o)
  PROVE  Held' /\ cli' = cli /\ \A p \in Objects : \A m \in Unfinished(p) : msg'[m] = msg[m]
<1>1. cli' = cli
  BY DEF Request, ReqSpawn, ReqSend, ReqStop, ReqRemove, ReqHibernate
<1>2. \A m \in Messages : msg[m] \in {"written", "crowded"} => msg'[m] = msg[m]
  <2>1. ASSUME NEW k \in Messages \cup {0}, ReqSpawn(o, k), NEW m \in Messages, msg[m] \in {"written", "crowded"}
        PROVE  msg'[m] = msg[m]
    <3>1. k = m => NextNew(m)
      BY <2>1 DEF ReqSpawn, Messages
    <3>2. k # m
      BY <2>1, <3>1 DEF NextNew
    <3>3. QED BY <2>1, <3>2 DEF ReqSpawn
  <2>2. ASSUME NEW k \in Messages, ReqSend(o, k), NEW m \in Messages, msg[m] \in {"written", "crowded"}
        PROVE  msg'[m] = msg[m]
    <3>1. k # m
      BY <2>2 DEF ReqSend, NextNew
    <3>2. QED BY <2>2, <3>1 DEF ReqSend, TypeOK
  <2>3. ASSUME ReqStop(o), NEW m \in Messages, msg[m] \in {"written", "crowded"}
        PROVE  msg'[m] = msg[m]
    <3>1. m \notin {queue[o][i].msg : i \in 1..Len(queue[o])}
      BY <2>3 DEF Waiting, Carries, Messages
    <3>2. QED BY <2>3, <3>1 DEF ReqStop
  <2>4. CASE ReqRemove(o) \/ ReqHibernate(o)
    BY <2>4 DEF ReqRemove, ReqHibernate
  <2>5. QED BY <2>1, <2>2, <2>3, <2>4 DEF Request
<1>3. \A p \in Objects : \A m \in Unfinished(p) : msg'[m] = msg[m]
  BY <1>2, UnfinishedTyped DEF Held
<1>4. Held'
  <2>1. \A p \in Objects : Handles(p) /\ Unfinished(p)' = Unfinished(p)
    BY <1>1, SameUnfinished DEF Handles
  <2>2. QED BY <1>3, <2>1, HandlesHeld
<1>5. QED BY <1>1, <1>3, <1>4

LEMMA HostHeld ==
  ASSUME TypeOK, Held, Host \/ UNCHANGED vars
  PROVE  Held'
<1>1. CASE HostRestart
  <2>1. \A p \in Objects : cli'[p] = NoProcess
    BY <1>1 DEF HostRestart
  <2>2. \A p \in Objects : Unfinished(p)' = {} /\ InLine(p)'
    BY <2>1 DEF NoProcess, Unfinished, InLine
  <2>3. QED BY <2>2 DEF Held
<1>2. CASE ~HostRestart
  <2>1. cli' = cli /\ msg' = msg
    BY <1>2 DEF Host, Drain, DrainCuts, DrainEnds, Closed, LogDeleted, vars
  <2>2. \A p \in Objects : Handles(p)
    BY <2>1 DEF Handles
  <2>3. QED BY <2>1, <2>2, HandlesHeld
<1>3. QED BY <1>1, <1>2

LEMMA HeldInvariant == Spec => []Held
<1>1. Init => Held
  <2> SUFFICES ASSUME Init PROVE Held
    OBVIOUS
  <2>1. \A p \in Objects : cli[p].in = <<>> /\ cli[p].work = {}
    BY DEF Init, NoProcess
  <2>2. \A p \in Objects : Unfinished(p) = {} /\ InLine(p)
    BY <2>1 DEF Unfinished, InLine
  <2>3. QED BY <2>2 DEF Held
<1>2. TypeOK /\ StartsAlone /\ Waiting /\ Held /\ [Next]_vars => Held'
  BY GoHeld, CliHeld, EventHeld, RequestHeld, HostHeld DEF Next
<1>3. QED BY <1>1, <1>2, TypeCorrect, StartsAloneInvariant, WaitingInvariant, PTL DEF Spec

-----------------------------------------------------------------------------
(* The turns: what the CLI has said, and what the host counts of it.         *)

(* The settle timer outlasts the CLI, which begins no turn of its own.       *)
Steady == Faults \cap {"slow", "background"} = {}

Alone(p) == {m \in Unfinished(p) : msg[m] = "written"}
Sound(p) == Running(p) /\ agent[p].life # "failed"

(* The CLI says `init` and `result` in turn, and works on messages in a turn *)
(* it announced.                                                             *)
Turns(p) ==
  LET c == cli[p] IN
  /\ ~c.bg
  /\ \A i \in 1 .. Len(c.out) : c.out[i] \in {"init", "result"}
  /\ \A i \in 1 .. Len(c.out) - 1 : c.out[i] # c.out[i + 1]
  /\ c.out # <<>> => (c.out[Len(c.out)] = "init" <=> c.busy)
  /\ c.work # {} => c.busy

(* The host knows of a turn while a message written alone is not finished:   *)
(* it counts the message until it reads the `init` of the turn that takes    *)
(* it, and no settle timer runs over a turn the host has read of.            *)
Counted(p) ==
  LET c == cli[p]
      a == agent[p]
  IN
  /\ Alone(p) # {} => a.turn
  /\ \A i \in 1 .. Len(c.in) : msg[c.in[i]] = "written" =>
       i = 1 /\ a.since > 0 /\ \A j \in 1 .. Len(c.out) : c.out[j] # "init"
  /\ \A m \in c.work : msg[m] = "written" =>
       \A j \in 1 .. Len(c.out) : c.out[j] = "init" => j = Len(c.out) /\ a.since > 0
  /\ (c.busy /\ c.out = <<>>) \/ a.logError => ~a.settle

(* Of a failed agent nothing is counted, and none without a process settles. *)
Streams(p) == Turns(p) /\ (Sound(p) => Counted(p)) /\ (cli[p].st = "none" => ~agent[p].settle)

(* No message p's process holds becomes one that was written alone.          *)
KeepsFates(p) == \A m \in Unfinished(p) : msg'[m] = "written" => msg[m] = "written"

LEMMA HeldSets ==
  ASSUME NEW p \in Objects
  PROVE  /\ \A m \in cli[p].work : m \in Unfinished(p)
         /\ \A i \in 1 .. Len(cli[p].in) : cli[p].in[i] \in Unfinished(p)
         /\ \A m \in Unfinished(p) : m \in cli[p].work \/ \E i \in 1 .. Len(cli[p].in) : m = cli[p].in[i]
BY DEF Unfinished

LEMMA FewerAlone ==
  ASSUME NEW p \in Objects, KeepsFates(p), Unfinished(p)' \subseteq Unfinished(p)
  PROVE  Alone(p)' \subseteq Alone(p)
BY DEF KeepsFates, Alone

LEMMA CalmStreams ==
  ASSUME NEW p \in Objects, Calm(p), KeepsFates(p)
  PROVE  /\ Alone(p)' \subseteq Alone(p)
         /\ Running(p)' = Running(p) /\ (Sound(p)' => Sound(p))
         /\ Streams(p) => Streams(p)'
<1>1. Unfinished(p)' = Unfinished(p)
  BY DEF Calm, Unfinished
<1>2. Alone(p)' \subseteq Alone(p)
  BY <1>1, FewerAlone
<1>3. Running(p)' = Running(p) /\ (Sound(p)' => Sound(p))
  BY DEF Calm, Running, Sound
<1>4. Turns(p) => Turns(p)'
  BY DEF Calm, Turns
<1>5. Counted(p) => Counted(p)'
  <2> SUFFICES ASSUME Counted(p) PROVE Counted(p)'
    OBVIOUS
  <2>1. \A i \in 1 .. Len(cli[p].in) : msg'[cli[p].in[i]] = "written" => msg[cli[p].in[i]] = "written"
    BY HeldSets DEF KeepsFates
  <2>2. \A m \in cli[p].work : msg'[m] = "written" => msg[m] = "written"
    BY HeldSets DEF KeepsFates
  <2>3. QED BY <1>2, <2>1, <2>2 DEF Calm, Counted
<1>6. QED BY <1>2, <1>3, <1>4, <1>5 DEF Streams, Calm

LEMMA SendsStreams ==
  ASSUME TypeOK, NEW o \in Objects, Sends(o), KeepsFates(o), Streams(o), Top(o).msg \notin Unfinished(o)
  PROVE  Streams(o)'
<1> DEFINE c == cli[o]
           d == cli'[o]
           m == Top(o).msg
<1>0. c.in \in Seq(Messages) /\ agent[o].since \in Nat /\ c.st = "up"
  BY DEF TypeOK, Processes, Agents, Sends, Running
<1>1. /\ d.in = Append(c.in, m) /\ d.work = c.work /\ d.out = c.out /\ d.busy = c.busy
      /\ d.bg = c.bg /\ d.st = c.st
  BY SendsHands
<1>2. /\ agent'[o].since = agent[o].since + 1 /\ agent'[o].turn /\ agent'[o].settle = agent[o].settle
      /\ agent'[o].logError = agent[o].logError /\ agent'[o].life = agent[o].life
  BY SendsHands
<1>3. msg'[m] = IF Crowded(c) THEN "crowded" ELSE "written"
  BY SendsHands
<1>4. Turns(o)'
  BY <1>1 DEF Streams, Turns
<1>5. ASSUME Counted(o) PROVE Counted(o)'
  <2>1. ASSUME NEW i \in 1 .. Len(d.in), msg'[d.in[i]] = "written"
        PROVE  i = 1 /\ agent'[o].since > 0 /\ \A j \in 1 .. Len(d.out) : d.out[j] # "init"
    <3>1. CASE i \in 1 .. Len(c.in) /\ d.in[i] = c.in[i]
      <4>1. msg[c.in[i]] = "written"
        BY <2>1, <3>1, HeldSets DEF KeepsFates
      <4>2. QED BY <1>0, <1>1, <1>2, <1>5, <3>1, <4>1 DEF Counted
    <3>2. CASE i = Len(c.in) + 1 /\ d.in[i] = m
      <4>1. ~Crowded(c)
        BY <1>3, <2>1, <3>2
      <4>2. c.in = <<>> /\ \A j \in 1 .. Len(c.out) : c.out[j] # "init"
        BY <4>1 DEF Crowded
      <4>3. QED BY <1>0, <1>1, <1>2, <3>2, <4>2
    <3>3. QED BY <1>0, <1>1, <3>1, <3>2
  <2>2. \A k \in d.work : msg'[k] = "written" => msg[k] = "written"
    BY <1>1, HeldSets DEF KeepsFates
  <2>3. \A k \in d.work : msg'[k] = "written" =>
          \A j \in 1 .. Len(d.out) : d.out[j] = "init" => j = Len(d.out) /\ agent'[o].since > 0
    BY <1>0, <1>1, <1>2, <1>5, <2>2 DEF Counted
  <2>4. (d.busy /\ d.out = <<>>) \/ agent'[o].logError => ~agent'[o].settle
    BY <1>1, <1>2, <1>5 DEF Counted
  <2>5. QED BY <1>2, <2>1, <2>3, <2>4 DEF Counted
<1>6. Sound(o)' => Sound(o)
  BY <1>1, <1>2 DEF Sound, Running
<1>7. cli'[o].st = "up"
  BY <1>0, <1>1
<1>8. QED BY <1>4, <1>5, <1>6, <1>7 DEF Streams

(* How the agent whose process is up begins. *)
LEMMA ForkBegins ==
  ASSUME TypeOK, NEW o \in Objects, ForkSucceeds(o)
  PROVE  LET m == Top(o).msg
             write == m # 0 /\ ~Draining /\ ~IsRemoved(o) /\ ~StoppedSince(o)
             a == agent[o]
             b == agent'[o]
         IN
         /\ b.settle = a.settle /\ b.ending \in {"none", "shutdown"}
         /\ write => b.turn /\ b.since = a.since + 1
         /\ b.life = "failed" => \E k \in {0, 1} : queue'[o] = Append(Rest(o, k), Simple("log_error"))
<1>0. agent[o] \in Agents /\ queue \in [Objects -> Seq(Tasks)]
  BY DEF TypeOK
<1>1. agent'[o].settle = agent[o].settle /\ agent'[o].ending \in {"none", "shutdown"}
  BY <1>0 DEF ForkSucceeds, WriteTo, TypeOK, Agents
<1>2. (Top(o).msg # 0 /\ ~Draining /\ ~IsRemoved(o) /\ ~StoppedSince(o)) =>
        agent'[o].turn /\ agent'[o].since = agent[o].since + 1
  BY <1>0 DEF ForkSucceeds, WriteTo, TypeOK, Agents
<1>3. agent'[o].life = "failed" => ~Known(o) /\ ~agent[o].logError
  BY <1>0 DEF ForkSucceeds, WriteTo, TypeOK, Agents
<1>4. ~Known(o) /\ ~agent[o].logError =>
        queue'[o] = Append(IF Draining THEN queue[o] ELSE Tail(queue[o]), Simple("log_error"))
  BY <1>0 DEF ForkSucceeds
<1>5. (IF Draining THEN queue[o] ELSE Tail(queue[o])) = Rest(o, IF Draining THEN 0 ELSE 1)
  BY DEF Rest
<1>6. QED BY <1>1, <1>2, <1>3, <1>4, <1>5

LEMMA ForkStreams ==
  ASSUME TypeOK, StartsAlone, NEW o \in Objects, ForkSucceeds(o), Streams(o)
  PROVE  Streams(o)' /\ (Draining => Alone(o)' = {})
<1> DEFINE m == Top(o).msg
           write == m # 0 /\ ~Draining /\ ~IsRemoved(o) /\ ~StoppedSince(o)
           d == cli'[o]
<1>1. /\ d.in = IF write THEN <<m>> ELSE <<>>
      /\ d.work = {} /\ d.out = <<>> /\ ~d.busy /\ ~d.bg /\ d.st = "up"
  BY ForkHands
<1>2. ~agent'[o].settle
  <2>1. cli[o].st = "none"
    BY DEF ForkSucceeds, At, StartsAlone
  <2>2. QED BY <2>1, ForkBegins DEF Streams
<1>3. write => agent'[o].turn /\ agent'[o].since = agent[o].since + 1 /\ agent[o].since \in Nat
  BY ForkBegins DEF TypeOK, Agents
<1>4. Turns(o)'
  BY <1>1 DEF Turns
<1>5. Alone(o)' # {} => write
  BY <1>1 DEF Alone, Unfinished
<1>6. Counted(o)'
  <2>1. ASSUME NEW i \in 1 .. Len(d.in), msg'[d.in[i]] = "written"
        PROVE  i = 1 /\ agent'[o].since > 0 /\ \A j \in 1 .. Len(d.out) : d.out[j] # "init"
    <3>1. write
      BY <1>1
    <3>2. QED BY <1>1, <1>3, <3>1
  <2>2. QED BY <1>1, <1>2, <1>3, <1>5, <2>1 DEF Counted
<1>7. QED BY <1>1, <1>4, <1>5, <1>6 DEF Streams

(* A line more at the end of the output, that differs from the one before. *)
LEMMA SaysTurns ==
  ASSUME NEW s \in Seq(Lines), NEW l \in {"init", "result"}, NEW t, t = Append(s, l),
         \A i \in 1 .. Len(s) : s[i] \in {"init", "result"},
         \A i \in 1 .. Len(s) - 1 : s[i] # s[i + 1],
         s # <<>> => s[Len(s)] # l
  PROVE  /\ Len(t) = Len(s) + 1 /\ t # <<>> /\ t[Len(t)] = l
         /\ \A i \in 1 .. Len(s) : t[i] = s[i]
         /\ \A i \in 1 .. Len(t) : t[i] \in {"init", "result"}
         /\ \A i \in 1 .. Len(t) - 1 : t[i] # t[i + 1]
<1>1. /\ Len(t) = Len(s) + 1 /\ t # <<>> /\ t[Len(s) + 1] = l
      /\ \A i \in 1 .. Len(s) : t[i] = s[i]
  OBVIOUS
<1>2. \A i \in 1 .. Len(t) : t[i] \in {"init", "result"}
  BY <1>1
<1>3. ASSUME NEW i \in 1 .. Len(t) - 1 PROVE t[i] # t[i + 1]
  <2>1. CASE i = Len(s)
    <3>1. s # <<>> /\ t[i] = s[Len(s)] /\ t[i + 1] = l
      BY <1>1, <2>1
    <3>2. QED BY <3>1
  <2>2. CASE i # Len(s)
    <3>1. i \in 1 .. Len(s) - 1 /\ i + 1 \in 1 .. Len(s)
      BY <1>1, <2>2
    <3>2. QED BY <1>1, <3>1
  <2>3. QED BY <2>1, <2>2
<1>4. QED BY <1>1, <1>2, <1>3

LEMMA NothingLeft ==
  ASSUME NEW s \in Seq(Lines)
  PROVE  s = <<>> <=> Len(s) = 0
OBVIOUS

LEMMA CliStreams ==
  ASSUME TypeOK, Steady, NEW o \in Objects, Cli(o), KeepsFates(o), Streams(o), Held
  PROVE  Streams(o)' /\ Alone(o)' \subseteq Alone(o)
<1> DEFINE c == cli[o]
           d == cli'[o]
<1>0. c.in \in Seq(Messages) /\ c.out \in Seq(Lines) /\ agent' = agent /\ Running(o)
  BY CliChanges, CliSteps DEF TypeOK, Processes
<1>1. Unfinished(o)' \subseteq Unfinished(o)
  <2>1. Handles(o)
    BY <1>0, CliSteps DEF Handles
  <2>2. QED BY <2>1, HandlesInLine DEF Held
<1>2. Alone(o)' \subseteq Alone(o)
  BY <1>1, FewerAlone
<1>3. /\ \A i \in 1 .. Len(c.in) : msg'[c.in[i]] = "written" => msg[c.in[i]] = "written"
      /\ \A m \in c.work : msg'[m] = "written" => msg[m] = "written"
  BY HeldSets DEF KeepsFates
<1>4. c.in # <<>> => /\ 1 \in 1 .. Len(c.in) /\ Head(c.in) = c.in[1]
                     /\ \A i \in 1 .. Len(Tail(c.in)) : i + 1 \in 1 .. Len(c.in) /\ Tail(c.in)[i] = c.in[i + 1]
  BY <1>0
<1>5. ASSUME Counted(o), c.in # <<>>, d.in = Tail(c.in)
      PROVE  /\ \A i \in 1 .. Len(d.in) : msg'[d.in[i]] # "written"
             /\ msg'[Head(c.in)] = "written" =>
                  agent[o].since > 0 /\ \A j \in 1 .. Len(c.out) : c.out[j] # "init"
  <2>1. ASSUME NEW i \in 1 .. Len(d.in) PROVE msg'[d.in[i]] # "written"
    <3>1. i + 1 \in 1 .. Len(c.in) /\ d.in[i] = c.in[i + 1] /\ i + 1 # 1
      BY <1>4, <1>5, <2>1
    <3>2. QED BY <1>3, <1>5, <3>1 DEF Counted
  <2>2. QED BY <1>3, <1>4, <1>5, <2>1 DEF Counted
<1>6. CASE TakeTurn(o) /\ ~c.busy /\ c.in # <<>> /\ d.in = Tail(c.in) /\ d.work = {Head(c.in)} /\ d.busy
           /\ d.out = Append(c.out, "init") /\ d.bg = c.bg /\ d.st = c.st
  <2>1. c.out # <<>> => c.out[Len(c.out)] # "init"
    BY <1>6 DEF Streams, Turns
  <2>2. /\ Len(d.out) = Len(c.out) + 1 /\ d.out # <<>> /\ d.out[Len(d.out)] = "init"
        /\ \A i \in 1 .. Len(c.out) : d.out[i] = c.out[i]
        /\ \A i \in 1 .. Len(d.out) : d.out[i] \in {"init", "result"}
        /\ \A i \in 1 .. Len(d.out) - 1 : d.out[i] # d.out[i + 1]
    <3>1. /\ \A i \in 1 .. Len(c.out) : c.out[i] \in {"init", "result"}
          /\ \A i \in 1 .. Len(c.out) - 1 : c.out[i] # c.out[i + 1]
      BY DEF Streams, Turns
    <3>2. PICK l \in {"init", "result"} : l = "init"
      OBVIOUS
    <3>3. d.out = Append(c.out, l) /\ (c.out # <<>> => c.out[Len(c.out)] # l)
      BY <1>6, <2>1, <3>2
    <3>4. QED BY <1>0, <3>1, <3>2, <3>3, SaysTurns
  <2>3. Turns(o)'
    BY <1>6, <2>2 DEF Streams, Turns
  <2>4. ASSUME Counted(o) PROVE Counted(o)'
    <3>1. \A i \in 1 .. Len(d.in) : msg'[d.in[i]] # "written"
      BY <1>5, <1>6, <2>4
    <3>2. \A m \in d.work : msg'[m] = "written" =>
            \A j \in 1 .. Len(d.out) : d.out[j] = "init" => j = Len(d.out) /\ agent'[o].since > 0
      <4>1. ASSUME msg'[Head(c.in)] = "written", NEW j \in 1 .. Len(d.out), d.out[j] = "init"
            PROVE  j = Len(d.out) /\ agent'[o].since > 0
        <5>1. agent[o].since > 0 /\ \A k \in 1 .. Len(c.out) : c.out[k] # "init"
          BY <1>5, <1>6, <2>4, <4>1
        <5>2. j \notin 1 .. Len(c.out)
          BY <2>2, <4>1, <5>1
        <5>3. QED BY <1>0, <2>2, <5>1, <5>2
      <4>2. QED BY <1>6, <4>1
    <3>3. QED BY <1>0, <1>2, <2>2, <2>4, <3>1, <3>2 DEF Counted
  <2>5. QED BY <1>0, <1>2, <1>6, <2>3, <2>4 DEF Streams, Sound, Running
<1>7. CASE FoldIn(o) /\ c.busy /\ c.in # <<>> /\ d.in = Tail(c.in) /\ d.work = c.work \cup {Head(c.in)} /\ d.busy
           /\ d.out = c.out /\ d.bg = c.bg /\ d.st = c.st
  <2>1. Turns(o)'
    BY <1>7 DEF Streams, Turns
  <2>2. ASSUME Counted(o) PROVE Counted(o)'
    <3>1. \A i \in 1 .. Len(d.in) : msg'[d.in[i]] # "written"
      BY <1>5, <1>7, <2>2
    <3>2. \A m \in d.work : msg'[m] = "written" =>
            \A j \in 1 .. Len(d.out) : d.out[j] = "init" => j = Len(d.out) /\ agent'[o].since > 0
      BY <1>0, <1>3, <1>5, <1>7, <2>2 DEF Counted
    <3>3. QED BY <1>0, <1>2, <1>7, <2>2, <3>1, <3>2 DEF Counted
  <2>3. QED BY <1>0, <1>2, <1>7, <2>1, <2>2 DEF Streams, Sound, Running
<1>8. CASE EndTurn(o) /\ c.busy /\ d.in = c.in /\ d.work = {} /\ ~d.busy
           /\ d.out = Append(c.out, "result") /\ d.bg = c.bg /\ d.st = c.st
  <2>1. c.out # <<>> => c.out[Len(c.out)] # "result"
    BY <1>8 DEF Streams, Turns
  <2>2. /\ Len(d.out) = Len(c.out) + 1 /\ d.out # <<>> /\ d.out[Len(d.out)] = "result"
        /\ \A i \in 1 .. Len(c.out) : d.out[i] = c.out[i]
        /\ \A i \in 1 .. Len(d.out) : d.out[i] \in {"init", "result"}
        /\ \A i \in 1 .. Len(d.out) - 1 : d.out[i] # d.out[i + 1]
    BY <1>0, <1>8, <2>1, SaysTurns DEF Streams, Turns
  <2>3. Turns(o)'
    BY <1>8, <2>2 DEF Streams, Turns
  <2>4. ASSUME Counted(o) PROVE Counted(o)'
    <3>1. ASSUME NEW i \in 1 .. Len(d.in), msg'[d.in[i]] = "written"
          PROVE  i = 1 /\ agent[o].since > 0 /\ \A j \in 1 .. Len(d.out) : d.out[j] # "init"
      <4>1. i = 1 /\ agent[o].since > 0 /\ \A j \in 1 .. Len(c.out) : c.out[j] # "init"
        BY <1>3, <1>8, <2>4, <3>1 DEF Counted
      <4>2. \A j \in 1 .. Len(d.out) : j \in 1 .. Len(c.out) \/ j = Len(d.out)
        BY <1>0, <2>2
      <4>3. QED BY <2>2, <4>1, <4>2
    <3>2. QED BY <1>0, <1>2, <1>8, <2>2, <2>4, <3>1 DEF Counted
  <2>5. QED BY <1>0, <1>2, <1>8, <2>3, <2>4 DEF Streams, Sound, Running
<1>9. CASE /\ Exit(o) \/ Crash(o)
           /\ d.in = c.in /\ d.work = c.work /\ d.busy = c.busy
           /\ d.out = c.out /\ d.bg = c.bg /\ d.st = "gone"
  BY <1>2, <1>9 DEF Streams, Turns, Sound, Running
<1>10. ~Background(o)
  BY DEF Background, Steady
<1>11. QED BY <1>6, <1>7, <1>8, <1>9, <1>10, CliSteps

(* What a line tells the host. *)
LEMMA FollowedFacts ==
  ASSUME NEW a \in Agents, NEW l \in {"init", "result"}
  PROVE  LET b == Followed(a, l) IN
         /\ b.life = a.life /\ b.ending = a.ending /\ b.logError = a.logError
         /\ l = "init" => b.since = 0 /\ ~b.settle /\ b.turn
         /\ l = "result" => b.since = a.since
         /\ l = "result" /\ a.since > 0 => b.settle /\ b.turn = a.turn
         /\ l = "result" /\ a.since = 0 => b.settle = a.settle
<1>1. CASE l = "init"
  <2>1. Followed(a, l) = [a EXCEPT !.since = 0, !.settle = FALSE, !.turn = TRUE]
    BY <1>1 DEF Followed, Announced
  <2>2. QED BY <1>1, <2>1 DEF Agents
<1>2. CASE l = "result" /\ a.since > 0
  <2>1. Followed(a, l) = [a EXCEPT !.settle = TRUE]
    BY <1>2 DEF Followed
  <2>2. QED BY <1>2, <2>1 DEF Agents
<1>3. CASE l = "result" /\ ~(a.since > 0)
  <2>1. Followed(a, l) = [a EXCEPT !.turn = FALSE]
    BY <1>3 DEF Followed
  <2>2. QED BY <1>3, <2>1 DEF Agents
<1>4. QED BY <1>1, <1>2, <1>3

LEMMA OnLineStreams ==
  ASSUME TypeOK, NEW o \in Objects, OnLine(o), Streams(o)
  PROVE  /\ Streams(o)' /\ Alone(o)' = Alone(o) /\ cli'[o].st = cli[o].st
         /\ agent'[o].life = agent[o].life /\ agent'[o].ending = agent[o].ending
<1> DEFINE c == cli[o]
           d == cli'[o]
           a == agent[o]
           b == agent'[o]
           s == c.out
<1>0. /\ c \in Processes /\ s \in Seq(Lines) /\ s # <<>> /\ a \in Agents /\ c.st # "none"
      /\ a.since \in Nat
  BY DEF TypeOK, Processes, OnLine, Agents
<1>1. /\ d.in = c.in /\ d.work = c.work /\ d.out = Tail(s) /\ d.busy = c.busy /\ d.bg = c.bg
      /\ d.st = c.st /\ msg' = msg
  BY <1>0 DEF OnLine, TypeOK, Processes
<1>2. 1 \in 1 .. Len(s) /\ Head(s) = s[1] /\ Len(Tail(s)) = Len(s) - 1 /\ (Tail(s) = <<>> <=> Len(s) = 1)
  <2>1. Len(s) \in Nat /\ Len(s) > 0 /\ Head(s) = s[1] /\ Len(Tail(s)) = Len(s) - 1
    BY <1>0
  <2>2. Tail(s) = <<>> <=> Len(Tail(s)) = 0
    <3>1. Tail(s) \in Seq(Lines)
      BY <1>0
    <3>2. QED BY <3>1, NothingLeft
  <2>3. QED BY <2>1, <2>2
<1>3. \A i \in 1 .. Len(Tail(s)) : i + 1 \in 1 .. Len(s) /\ Tail(s)[i] = s[i + 1]
  BY <1>0
<1>4. Alone(o)' = Alone(o)
  BY <1>1 DEF Alone, Unfinished
<1>5. Head(s) \in {"init", "result"}
  BY <1>2 DEF Streams, Turns
<1>6. b = IF a.logError THEN a ELSE Followed(a, Head(s))
  BY DEF OnLine, TypeOK
<1>7. b.life = a.life /\ b.ending = a.ending /\ b.logError = a.logError
  BY <1>0, <1>5, <1>6, FollowedFacts
<1>8. Turns(o)'
  <2>1. \A i \in 1 .. Len(Tail(s)) - 1 : Tail(s)[i] # Tail(s)[i + 1]
    <3> TAKE i \in 1 .. Len(Tail(s)) - 1
    <3>1. i \in 1 .. Len(Tail(s)) /\ i + 1 \in 1 .. Len(Tail(s)) /\ i + 1 \in 1 .. Len(s) - 1
      BY <1>0, <1>2
    <3>2. s[i + 1] # s[(i + 1) + 1]
      BY <3>1 DEF Streams, Turns
    <3>3. QED BY <1>3, <3>1, <3>2
  <2>2. \A i \in 1 .. Len(Tail(s)) : Tail(s)[i] \in {"init", "result"}
    BY <1>3 DEF Streams, Turns
  <2>3. Tail(s) # <<>> => Tail(s)[Len(Tail(s))] = s[Len(s)]
    BY <1>0, <1>2, <1>3
  <2>4. QED BY <1>0, <1>1, <2>1, <2>2, <2>3 DEF Streams, Turns
<1>9. ASSUME Counted(o) PROVE Counted(o)'
  <2>1. \A j \in 1 .. Len(d.out) : d.out[j] = "init" => s[j + 1] = "init" /\ j + 1 \in 1 .. Len(s)
    BY <1>1, <1>3
  <2>2. CASE a.logError
    <3>1. b = a
      BY <1>6, <2>2
    <3>2. \A i \in 1 .. Len(c.in) : msg[c.in[i]] = "written" =>
            i = 1 /\ b.since > 0 /\ \A j \in 1 .. Len(d.out) : d.out[j] # "init"
      BY <1>9, <2>1, <3>1 DEF Counted
    <3>3. \A m \in c.work : msg[m] = "written" =>
            \A j \in 1 .. Len(d.out) : d.out[j] = "init" => j = Len(d.out) /\ b.since > 0
      <4> TAKE m \in c.work
      <4>1. ASSUME msg[m] = "written", NEW j \in 1 .. Len(d.out), d.out[j] = "init"
            PROVE  j = Len(d.out) /\ b.since > 0
        <5>1. j + 1 = Len(s) /\ a.since > 0
          BY <1>9, <2>1, <4>1 DEF Counted
        <5>2. QED BY <1>0, <1>1, <1>2, <3>1, <5>1
      <4>2. QED BY <4>1
    <3>4. ~b.settle
      BY <1>9, <2>2, <3>1 DEF Counted
    <3>5. QED BY <1>1, <1>4, <1>9, <3>1, <3>2, <3>3, <3>4 DEF Counted
  <2>3. CASE ~a.logError /\ Head(s) = "init"
    <3>1. b.since = 0 /\ ~b.settle /\ b.turn
      BY <1>0, <1>5, <1>6, <2>3, FollowedFacts
    <3>2. \A i \in 1 .. Len(c.in) : msg[c.in[i]] # "written"
      BY <1>2, <1>9, <2>3 DEF Counted
    <3>3. \A m \in c.work : msg[m] = "written" => d.out = <<>>
      BY <1>1, <1>2, <1>9, <2>3 DEF Counted
    <3>4. \A m \in c.work : msg[m] = "written" => \A j \in 1 .. Len(d.out) : FALSE
      BY <3>3
    <3>5. QED BY <1>1, <3>1, <3>2, <3>4 DEF Counted
  <2>4. CASE ~a.logError /\ Head(s) = "result"
    <3>1. b.since = a.since /\ (c.busy => d.out # <<>>)
      <4>1. d.out = <<>> => ~c.busy
        <5>1. d.out = <<>> => s[Len(s)] = "result"
          BY <1>1, <1>2, <2>4
        <5>2. s[Len(s)] = "init" <=> c.busy
          BY <1>0 DEF Streams, Turns
        <5>3. QED BY <5>1, <5>2
      <4>2. QED BY <1>0, <1>5, <1>6, <2>4, <4>1, FollowedFacts
    <3>2. Alone(o) # {} => a.since > 0
      <4>1. ASSUME NEW m \in c.work, msg[m] = "written" PROVE a.since > 0
        <5>1. c.busy /\ Len(s) \in 1 .. Len(s) /\ s[Len(s)] = "init"
          BY <1>0, <1>2, <4>1 DEF Streams, Turns
        <5>2. QED BY <1>9, <4>1, <5>1 DEF Counted
      <4>2. ASSUME NEW i \in 1 .. Len(c.in), msg[c.in[i]] = "written" PROVE a.since > 0
        BY <1>9, <4>2 DEF Counted
      <4>3. QED BY <4>1, <4>2, HeldSets DEF Alone
    <3>3. Alone(o) # {} => b.turn
      <4>1. b = Followed(a, "result")
        BY <1>6, <2>4
      <4>2. a.since > 0 => b.turn = a.turn
        BY <1>0, <4>1, FollowedFacts
      <4>3. QED BY <1>9, <3>2, <4>2 DEF Counted
    <3>4. \A i \in 1 .. Len(c.in) : msg[c.in[i]] = "written" =>
            i = 1 /\ b.since > 0 /\ \A j \in 1 .. Len(d.out) : d.out[j] # "init"
      BY <1>9, <2>1, <3>1 DEF Counted
    <3>5. \A m \in c.work : msg[m] = "written" =>
            \A j \in 1 .. Len(d.out) : d.out[j] = "init" => j = Len(d.out) /\ b.since > 0
      <4> TAKE m \in c.work
      <4>1. ASSUME msg[m] = "written", NEW j \in 1 .. Len(d.out), d.out[j] = "init"
            PROVE  j = Len(d.out) /\ b.since > 0
        <5>1. j + 1 = Len(s) /\ a.since > 0
          BY <1>9, <2>1, <4>1 DEF Counted
        <5>2. QED BY <1>0, <1>1, <1>2, <3>1, <5>1
      <4>2. QED BY <4>1
    <3>6. QED BY <1>1, <1>4, <1>7, <2>4, <3>1, <3>3, <3>4, <3>5 DEF Counted
  <2>5. QED BY <1>5, <2>2, <2>3, <2>4
<1>10. QED BY <1>0, <1>1, <1>4, <1>7, <1>8, <1>9 DEF Streams, Sound, Running

LEMMA SettleStreams ==
  ASSUME TypeOK, Steady, NEW o \in Objects, Settle(o), Streams(o)
  PROVE  /\ Streams(o)' /\ Alone(o)' = Alone(o) /\ cli'[o].st = cli[o].st
         /\ agent'[o].life = agent[o].life /\ agent'[o].ending = agent[o].ending
<1> DEFINE c == cli[o]
           a == agent[o]
           b == agent'[o]
<1>0. a \in Agents /\ cli' = cli /\ msg' = msg /\ a.settle /\ c.out \in Seq(Lines)
  BY DEF TypeOK, Settle, Processes
<1>1. c.in = <<>> /\ \A j \in 1 .. Len(c.out) : c.out[j] # "init"
  BY DEF Settle, Steady, Crowded
<1>2. b = IF a.since = 0 THEN [a EXCEPT !.settle = FALSE]
          ELSE [a EXCEPT !.settle = FALSE, !.since = 0, !.turn = FALSE]
  BY DEF Settle, TypeOK
<1>3. /\ b.life = a.life /\ b.ending = a.ending /\ b.logError = a.logError /\ ~b.settle
      /\ b.turn = a.turn \/ a.since # 0
  BY <1>0, <1>2 DEF Agents
<1>4. Alone(o)' = Alone(o)
  BY <1>0 DEF Alone, Unfinished
<1>5. Turns(o)'
  BY <1>0 DEF Streams, Turns
<1>6. ASSUME Counted(o) PROVE Counted(o)'
  <2>1. c.work = {}
    <3>1. c.busy => c.out # <<>>
      BY <1>0, <1>6 DEF Counted
    <3>2. c.out # <<>> => c.out[Len(c.out)] # "init"
      BY <1>0, <1>1
    <3>3. QED BY <3>1, <3>2 DEF Streams, Turns
  <2>2. Alone(o) = {}
    BY <1>1, <2>1 DEF Alone, Unfinished
  <2>3. QED BY <1>0, <1>1, <1>3, <1>4, <2>1, <2>2 DEF Counted
<1>7. QED BY <1>0, <1>3, <1>4, <1>5, <1>6 DEF Streams, Sound, Running

-----------------------------------------------------------------------------
(* The ends: what the host's queues hold of a process that works.            *)

LogOf(p, i) == i \in Tasked(p) /\ queue[p][i].kind = "log_error"
FailsBefore(p, j) == agent[p].life = "failed" /\ \E i \in Tasked(p) : i < j /\ LogOf(p, i)

(* A process ended as hibernated works on nothing that was written alone.    *)
Hibernates(p) == agent[p].ending = "hibernate" /\ cli[p].st # "none" => pc[p] = "ending" /\ Alone(p) = {}

(* A process that runs for a failed agent is about to be ended as failed.    *)
Failing(p) == Running(p) /\ agent[p].life = "failed" => \E i \in Tasked(p) : LogOf(p, i)

(* A drain's task finds an agent that works on such a message interrupted,   *)
(* or ended as failed before.                                                *)
Interrupted(p) ==
  Running(p) /\ Alone(p) # {} =>
    /\ phase = "wait2" /\ Known(p) /\ agent[p].life # "failed" => p \in cut
    /\ \A j \in Tasked(p) : DrainOf(p, j) => p \in cut \/ FailsBefore(p, j)

Ends(p) == Hibernates(p) /\ Failing(p) /\ Interrupted(p)
Heeded == \A p \in Objects : Streams(p) /\ Ends(p)

(* p's tasks are k places further on, and what is added is no drain's.       *)
Advances(p, k) ==
  /\ \A i \in Tasked(p) : LogOf(p, i) /\ i > k => LogOf(p, i - k)'
  /\ \A j \in Tasked(p)' : DrainOf(p, j)' => DrainOf(p, j + k)

LEMMA KeptAdvances ==
  ASSUME NEW p \in Objects, NEW k \in {0, 1}, Kept(p, k)
  PROVE  Advances(p, k)
<1>1. \A i \in Tasked(p) : LogOf(p, i) /\ i > k => LogOf(p, i - k)'
  BY DEF Kept, LogOf, Tasked
<1>2. \A j \in Tasked(p)' : DrainOf(p, j)' => DrainOf(p, j + k)
  BY DEF Kept, DrainOf, Tasked
<1>3. QED BY <1>1, <1>2 DEF Advances

LEMMA JoinsAdvance ==
  ASSUME TypeOK, NEW p \in Objects, queue'[p] = queue[p] \/ \E t \in Tasks : Joins(p, t), ~DrainEnds
  PROVE  Advances(p, 0)
<1>1. \A i \in Tasked(p) : LogOf(p, i) => LogOf(p, i)'
  <2>1. queue'[p] = queue[p] \/ \E t \in Tasks : queue'[p] = Append(queue[p], t)
    BY DEF Joins
  <2>2. QED BY <2>1 DEF TypeOK, LogOf, Tasked
<1>2. \A j \in Tasked(p)' : DrainOf(p, j)' => DrainOf(p, j)
  BY JoinedTasks DEF DrainOf, Tasked, Joins
<1>3. \A i \in Tasked(p) \cup Tasked(p)' : i - 0 = i /\ i + 0 = i
  BY DEF Tasked
<1>4. QED BY <1>1, <1>2, <1>3 DEF Advances

LEMMA AdvancesEnds ==
  ASSUME NEW p \in Objects, NEW k \in {0, 1}, Advances(p, k),
         k = 1 /\ Running(p)' => ~LogOf(p, 1),
         UNCHANGED <<phase, cut>>, Known(p)' => Known(p), Alone(p)' \subseteq Alone(p),
         Running(p)' => Running(p) /\ agent'[p].life = agent[p].life
  PROVE  (Failing(p) => Failing(p)') /\ (Interrupted(p) => Interrupted(p)')
<1>1. ASSUME Running(p)', NEW i \in Tasked(p), LogOf(p, i)
      PROVE  i - k \in Tasked(p)' /\ LogOf(p, i - k)'
  <2>1. i \in Nat /\ i >= 1 /\ (k = 1 => i # 1)
    BY <1>1 DEF Tasked
  <2>2. i > k
    BY <2>1
  <2>3. QED BY <1>1, <2>2 DEF Advances, LogOf
<1>2. Failing(p) => Failing(p)'
  BY <1>1 DEF Failing
<1>3. ASSUME Interrupted(p), Running(p)', Alone(p)' # {}, NEW j \in Tasked(p)', DrainOf(p, j)'
      PROVE  p \in cut' \/ FailsBefore(p, j)'
  <2>1. j + k \in Tasked(p) /\ DrainOf(p, j + k)
    BY <1>3 DEF Advances, DrainOf
  <2>2. p \in cut \/ FailsBefore(p, j + k)
    BY <1>3, <2>1 DEF Interrupted
  <2>3. ASSUME NEW i \in Tasked(p), i < j + k, LogOf(p, i), agent[p].life = "failed"
        PROVE  FailsBefore(p, j)'
    <3>1. i - k \in Tasked(p)' /\ LogOf(p, i - k)'
      BY <1>1, <1>3, <2>3
    <3>2. i - k < j
      BY <2>3 DEF Tasked
    <3>3. QED BY <1>3, <2>3, <3>1, <3>2 DEF FailsBefore
  <2>4. QED BY <2>2, <2>3 DEF FailsBefore
<1>4. Interrupted(p) => Interrupted(p)'
  BY <1>3 DEF Interrupted
<1>5. QED BY <1>2, <1>4

(* Without a drain that ends its agents nothing is asked of p.               *)
LEMMA NotInterrupted ==
  ASSUME DrainedLast', phase' \notin {"wait2", "end"}, NEW p \in Objects
  PROVE  Interrupted(p)'
BY DEF DrainedLast, Interrupted

LEMMA HeadLogs ==
  ASSUME TypeOK, NEW o \in Objects, Go(o), Top(o).kind = "log_error", pc'[o] = "idle"
  PROVE  ~Running(o)
BY DEF Go, RunSpawn, RunSend, Waited, RoomAnswered, ForkFails, ForkSucceeds, RunStop, RunRemove,
   RunHibernate, Detached, RunDrain, RunLogError, EndDone, At, Starters, End, Step, TypeOK, Running

(* When a step of o's queue ends its process as hibernated. *)
HibernatesAt(o) ==
  /\ pc'[o] = "ending" /\ Running(o)
  /\ \/ agent[o].life = "alive" /\ ~agent[o].turn
     \/ Top(o).kind = "drain" /\ o \notin cut

LEMMA GoHibernates ==
  ASSUME TypeOK, NEW o \in Objects, Go(o), agent'[o].ending = "hibernate", agent[o].ending # "hibernate"
  PROVE  HibernatesAt(o)
<1>0. agent[o] \in Agents
  BY DEF TypeOK
<1>1. ASSUME agent' = agent \/ \E l : agent' = [agent EXCEPT ![o].life = l] PROVE FALSE
  <2>1. ASSUME NEW l, agent' = [agent EXCEPT ![o].life = l] PROVE FALSE
    <3>1. agent'[o] = [agent[o] EXCEPT !.life = l]
      BY <2>1 DEF TypeOK
    <3>2. QED BY <1>0, <3>1 DEF Agents
  <2>2. QED BY <1>1, <2>1
<1>2. ASSUME NEW why, End(o, why) PROVE why = "hibernate" /\ pc'[o] = "ending"
  <2>1. agent'[o] = [agent[o] EXCEPT !.ending = why]
    BY <1>2 DEF End, TypeOK
  <2>2. QED BY <1>0, <1>2, <2>1 DEF End, Step, TypeOK, Agents
<1>3. CASE RunSpawn(o) \/ Waited(o) \/ RoomAnswered(o) \/ ForkFails(o)
  BY <1>1, <1>3, StartProcessAgents, MakeRoomAgents DEF RunSpawn, Waited, RoomAnswered, ForkFails
<1>4. CASE RunSend(o)
  <2>1. CASE agent' = agent \/ StartProcess(o)
    BY <1>1, <2>1, StartProcessAgents
  <2>2. CASE agent' = [agent EXCEPT ![o] = WriteTo(@)]
    BY <1>0, <2>2 DEF WriteTo, TypeOK, Agents
  <2>3. QED BY <1>4, <2>1, <2>2 DEF RunSend
<1>5. CASE ForkSucceeds(o)
  BY <1>5, ForkBegins
<1>6. CASE RunStop(o) \/ RunRemove(o) \/ RunLogError(o)
  BY <1>1, <1>2, <1>6 DEF RunStop, RunRemove, RunLogError, Stopped, Removed, Dropped
<1>7. CASE RunHibernate(o) \/ EndDone(o)
  BY <1>1, <1>7 DEF RunHibernate, EndDone, Stopped, Removed, Dropped
<1>8. CASE Detached(o)
  BY <1>1, <1>2, <1>8 DEF Detached, Hibernatable, HibernatesAt
<1>9. CASE RunDrain(o)
  BY <1>1, <1>2, <1>9 DEF RunDrain, Dropped, HibernatesAt, At
<1>10. QED BY <1>3, <1>4, <1>5, <1>6, <1>7, <1>8, <1>9 DEF Go

LEMMA HibernatedIdle ==
  ASSUME TypeOK, NEW o \in Objects, Busy(o), HibernatesAt(o), Streams(o), Ends(o)
  PROVE  Alone(o) = {}
<1>1. CASE agent[o].life = "alive" /\ ~agent[o].turn
  BY <1>1 DEF HibernatesAt, Streams, Sound, Counted
<1>2. CASE Top(o).kind = "drain" /\ o \notin cut
  <2>1. 1 \in Tasked(o) /\ DrainOf(o, 1)
    BY <1>2, TopTasked DEF DrainOf
  <2>2. ~FailsBefore(o, 1)
    BY DEF FailsBefore, Tasked
  <2>3. QED BY <1>2, <2>1, <2>2 DEF HibernatesAt, Ends, Interrupted
<1>3. QED BY <1>1, <1>2 DEF HibernatesAt

LEMMA GoKeepsFates ==
  ASSUME TypeOK, Waiting, NEW o \in Objects, Go(o), NEW p \in Objects
  PROVE  KeepsFates(p) /\ Top(o).msg \notin Unfinished(p)
<1>1. Top(o).msg \notin Unfinished(p)
  BY GoGoes, TopUnheld
<1>2. \A m \in Unfinished(p) : msg'[m] = msg[m]
  BY <1>1, GoMessages, UnfinishedTyped
<1>3. QED BY <1>1, <1>2 DEF KeepsFates

LEMMA GoCut ==
  ASSUME NEW o \in Objects, Go(o)
  PROVE  cut' = cut
BY DEF Go, RunSpawn, RunSend, Waited, RoomAnswered, ForkFails, ForkSucceeds, RunStop, RunRemove,
   RunHibernate, Detached, RunDrain, RunLogError, EndDone, End, Stopped, Removed, Dropped

(* A step of o's queue, seen from o's own process when nothing is handed to it. *)
LEMMA GoCalmEnds ==
  ASSUME TypeOK, Waiting, NEW o \in Objects, Go(o), Calm(o), Streams(o), Ends(o)
  PROVE  Ends(o)'
<1>1. /\ Alone(o)' \subseteq Alone(o) /\ Running(o)' = Running(o)
      /\ UNCHANGED <<phase, cut>> /\ (Known(o)' => Known(o)) /\ Busy(o)
  BY GoKeepsFates, CalmStreams, GoKnown, GoCut, GoGoes
<1>2. PICK k \in {0, 1} : Kept(o, k) /\ (k = 1 => pc'[o] = "idle")
  BY GoGoes DEF GoesOn
<1>3. k = 1 /\ Running(o)' => ~LogOf(o, 1)
  BY <1>1, <1>2, HeadLogs, TopTasked DEF LogOf
<1>4. Running(o)' => Running(o) /\ agent'[o].life = agent[o].life
  BY <1>1 DEF Calm, Running
<1>5. Failing(o)' /\ Interrupted(o)'
  BY <1>1, <1>2, <1>3, <1>4, KeptAdvances, AdvancesEnds DEF Ends
<1>6. Hibernates(o)'
  <2> SUFFICES ASSUME agent'[o].ending = "hibernate", cli'[o].st # "none"
               PROVE  pc'[o] = "ending" /\ Alone(o)' = {}
    BY DEF Hibernates
  <2>1. cli[o].st # "none"
    BY DEF Calm
  <2>2. agent[o].ending # "hibernate"
    BY <2>1, EndAwaited DEF Ends, Hibernates
  <2>3. HibernatesAt(o)
    BY <2>2, GoHibernates
  <2>4. Alone(o) = {}
    BY <1>1, <2>3, HibernatedIdle
  <2>5. QED BY <1>1, <2>3, <2>4 DEF HibernatesAt
<1>7. QED BY <1>5, <1>6 DEF Ends

LEMMA SendsEnds ==
  ASSUME TypeOK, NEW o \in Objects, Go(o), Sends(o), Ends(o), DrainedLast'
  PROVE  Ends(o)'
<1>1. /\ agent'[o].life = agent[o].life /\ agent'[o].ending = agent[o].ending
      /\ cli'[o].st = cli[o].st /\ Running(o) /\ pc[o] = "idle" /\ Busy(o)
      /\ Top(o).kind = "send" /\ phase = "serving"
  BY SendsHands DEF Sends, At, Draining
<1>2. Hibernates(o)'
  BY <1>1 DEF Ends, Hibernates, Running
<1>3. pc'[o] = "idle"
  BY DEF Sends, Dequeue, TypeOK
<1>4. Advances(o, 1)
  BY <1>3, GoGoes, KeptAdvances DEF GoesOn
<1>5. \A i \in Tasked(o) : LogOf(o, i) => i > 1
  BY <1>1, TopTasked DEF LogOf, Tasked
<1>6. \A i \in Tasked(o) : LogOf(o, i) => i - 1 \in Tasked(o)' /\ LogOf(o, i - 1)'
  BY <1>4, <1>5 DEF Advances, LogOf
<1>7. Failing(o)'
  BY <1>1, <1>6 DEF Ends, Failing
<1>8. Interrupted(o)'
  BY <1>1, GoKnown, NotInterrupted
<1>9. QED BY <1>2, <1>7, <1>8 DEF Ends

LEMMA ForkEnds ==
  ASSUME TypeOK, StartsAlone, NEW o \in Objects, Go(o), ForkSucceeds(o), Streams(o), DrainedLast'
  PROVE  Ends(o)'
<1>1. agent'[o].ending # "hibernate"
  BY ForkBegins
<1>2. agent'[o].life = "failed" => \E i \in Tasked(o)' : LogOf(o, i)'
  <2> SUFFICES ASSUME agent'[o].life = "failed" PROVE \E i \in Tasked(o)' : LogOf(o, i)'
    OBVIOUS
  <2> DEFINE t == Simple("log_error")
  <2>1. PICK k \in {0, 1} : queue'[o] = Append(Rest(o, k), t)
    BY ForkBegins
  <2>2. Rest(o, k) \in Seq(Tasks) /\ t \in Tasks /\ t.kind = "log_error"
    <3>1. queue[o] \in Seq(Tasks) /\ queue[o] # <<>>
      BY DEF TypeOK, ForkSucceeds, At, Busy
    <3>2. QED BY <3>1, TaskRecords DEF Rest, Simple, Task, Kinds
  <2> HIDE DEF t
  <2>3. Len(queue'[o]) \in 1 .. Len(queue'[o]) /\ queue'[o][Len(queue'[o])] = t
    BY <2>1, <2>2
  <2>4. QED BY <2>2, <2>3 DEF LogOf, Tasked
<1>3. Interrupted(o)'
  <2>1. CASE Draining
    BY <2>1, ForkStreams DEF Interrupted
  <2>2. CASE ~Draining
    BY <2>2, GoKnown, NotInterrupted DEF Draining
  <2>3. QED BY <2>1, <2>2
<1>4. QED BY <1>1, <1>2, <1>3 DEF Ends, Hibernates, Failing

LEMMA GoHeeded ==
  ASSUME TypeOK, StartsAlone, Waiting, DrainedLast', Heeded, NEW o \in Objects, Go(o)
  PROVE  Heeded'
<1>1. ASSUME NEW p \in Objects, p # o PROVE Streams(p)' /\ Ends(p)'
  <2>1. /\ cli'[p] = cli[p] /\ agent'[p] = agent[p] /\ pc'[p] = pc[p] /\ Kept(p, 0)
        /\ UNCHANGED <<phase, cut>> /\ (Known(p)' => Known(p)) /\ KeepsFates(p)
    BY <1>1, GoProcessed, GoGoes, GoKnown, GoCut, GoKeepsFates DEF Processed, GoesOn
  <2>2. Calm(p)
    BY <2>1, CalmIf
  <2>3. Streams(p)' /\ Alone(p)' \subseteq Alone(p) /\ Running(p)' = Running(p)
    BY <2>1, <2>2, CalmStreams DEF Heeded
  <2>4. Failing(p)' /\ Interrupted(p)'
    BY <2>1, <2>3, KeptAdvances, AdvancesEnds DEF Heeded, Ends
  <2>5. Hibernates(p)'
    BY <2>1, <2>3 DEF Heeded, Ends, Hibernates
  <2>6. QED BY <2>3, <2>4, <2>5 DEF Ends
<1>2. Streams(o)' /\ Ends(o)'
  <2>1. Streams(o) /\ Ends(o) /\ KeepsFates(o) /\ Top(o).msg \notin Unfinished(o)
    BY GoKeepsFates DEF Heeded
  <2>2. CASE Calm(o)
    BY <2>1, <2>2, CalmStreams, GoCalmEnds
  <2>3. CASE Sends(o)
    BY <2>1, <2>3, SendsStreams, SendsEnds
  <2>4. CASE ForkSucceeds(o)
    BY <2>1, <2>4, ForkStreams, ForkEnds
  <2>5. QED BY <2>2, <2>3, <2>4, GoCalm
<1>3. QED BY <1>1, <1>2 DEF Heeded

-----------------------------------------------------------------------------
(* The other steps.                                                          *)

(* A step that is of no queue, seen from p's process, which goes on.         *)
LEMMA GoesOnEnds ==
  ASSUME TypeOK, NEW p \in Objects, Ends(p),
         queue'[p] = queue[p] \/ \E t \in Tasks : Joins(p, t), ~DrainEnds,
         UNCHANGED <<phase, cut>>, Known(p)' => Known(p), pc'[p] = pc[p],
         Alone(p)' \subseteq Alone(p), cli'[p].st # "none" => cli[p].st # "none",
         Running(p)' => Running(p) /\ agent'[p].life = agent[p].life,
         agent'[p].ending = agent[p].ending
  PROVE  Ends(p)'
<1>1. Failing(p)' /\ Interrupted(p)'
  BY JoinsAdvance, AdvancesEnds DEF Ends
<1>2. Hibernates(p)'
  BY DEF Ends, Hibernates
<1>3. QED BY <1>1, <1>2 DEF Ends

LEMMA CliHeeded ==
  ASSUME TypeOK, Steady, Held, Heeded, NEW o \in Objects, Cli(o)
  PROVE  Heeded'
<1> SUFFICES ASSUME NEW p \in Objects PROVE Streams(p)' /\ Ends(p)'
  BY DEF Heeded
<1>1. UNCHANGED <<current, agent, queue, pc, phase, cut>>
  BY CliChanges DEF Cli, TakeTurn, FoldIn, EndTurn, Background, Exit, Crash
<1>2. KeepsFates(p)
  <2>1. \A m \in Messages : msg'[m] = msg[m] \/ msg'[m] = "done"
    BY CliSteps
  <2>2. QED BY <2>1, UnfinishedTyped DEF KeepsFates
<1>3. Streams(p)' /\ Alone(p)' \subseteq Alone(p)
  <2>1. CASE p = o
    BY <1>2, <2>1, CliStreams DEF Heeded
  <2>2. CASE p # o
    <3>1. cli'[p] = cli[p] /\ agent'[p] = agent[p]
      BY <1>1, <2>2, CliSteps
    <3>2. Calm(p)
      BY <3>1, CalmIf
    <3>3. QED BY <1>2, <3>2, CalmStreams DEF Heeded
  <2>3. QED BY <2>1, <2>2
<1>4. cli'[p].st = cli[p].st \/ (Running(p) /\ cli'[p].st = "gone")
  BY EventStates, CliSteps DEF OnExit, Running
<1>5. (cli'[p].st # "none" => cli[p].st # "none") /\ (Running(p)' => Running(p))
  BY <1>4 DEF Running
<1>6. ~DrainEnds
  BY <1>1 DEF DrainEnds, DrainOver
<1>7. QED BY <1>1, <1>3, <1>5, <1>6, GoesOnEnds DEF Heeded, Known

(* What an event does to p, when it is not its exit or its log's failure. *)
LEMMA EventSteps ==
  ASSUME TypeOK, Steady, NEW o \in Objects, Event(o), ~OnExit(o), ~LogFails(o), NEW p \in Objects, Streams(p)
  PROVE  /\ Streams(p)' /\ Alone(p)' = Alone(p) /\ cli'[p].st = cli[p].st
         /\ agent'[p].life = agent[p].life /\ agent'[p].ending = agent[p].ending
<1>1. msg' = msg
  BY DEF Event, SweepEnds, OnLine, Settle, LogFails
<1>2. CASE cli'[p] = cli[p] /\ agent'[p] = agent[p]
  <2>1. Calm(p) /\ KeepsFates(p)
    BY <1>1, <1>2, CalmIf DEF KeepsFates
  <2>2. Alone(p)' = Alone(p)
    BY <1>1, <1>2 DEF Alone, Unfinished
  <2>3. QED BY <1>2, <2>1, <2>2, CalmStreams
<1>3. CASE SweepEnds(o)
  BY <1>2, <1>3 DEF SweepEnds
<1>4. CASE p = o /\ (OnLine(o) \/ Settle(o))
  BY <1>4, OnLineStreams, SettleStreams
<1>5. CASE p # o /\ (OnLine(o) \/ Settle(o))
  <2>1. cli'[p] = cli[p] /\ agent'[p] = agent[p]
    BY <1>5 DEF OnLine, Settle, TypeOK
  <2>2. QED BY <1>2, <2>1
<1>6. QED BY <1>3, <1>4, <1>5 DEF Event

(* The agent whose log fails is ended as failed. *)
LEMMA LogFailsEnds ==
  ASSUME TypeOK, NEW o \in Objects, LogFails(o), Streams(o), Ends(o)
  PROVE  Streams(o)' /\ Ends(o)'
<1> DEFINE t == Simple("log_error")
<1>0. agent[o] \in Agents
  BY DEF TypeOK
<1>1. UNCHANGED <<cli, msg, phase, cut, pc, current>> /\ cli[o].st # "none"
  BY DEF LogFails
<1>2. agent'[o].life = "failed" /\ agent'[o].ending = agent[o].ending
  BY <1>0 DEF LogFails, Agents, TypeOK
<1>3. Alone(o)' = Alone(o)
  BY <1>1 DEF Alone, Unfinished
<1>4. Streams(o)'
  BY <1>1, <1>2 DEF Streams, Turns, Sound
<1>5. t \in Tasks /\ t.kind = "log_error" /\ t.for = NoObj /\ queue[o] \in Seq(Tasks)
  BY TaskRecords DEF Simple, Task, Kinds, TypeOK
<1>6. queue'[o] = Append(queue[o], t)
  BY DEF LogFails, Enqueue, TypeOK
<1> HIDE DEF t
<1>7. Len(queue'[o]) \in Tasked(o)' /\ queue'[o][Len(queue'[o])] = t
  BY <1>5, <1>6 DEF Tasked
<1>8. Failing(o)'
  BY <1>5, <1>7 DEF Failing, LogOf
<1>9. Interrupted(o)'
  <2>1. Joins(o, t)
    BY <1>5, <1>6 DEF Joins, Starters
  <2>2. Advances(o, 0)
    <3>1. ~DrainEnds
      BY <1>1 DEF DrainEnds, DrainOver
    <3>2. QED BY <1>5, <2>1, <3>1, JoinsAdvance
  <2>3. ASSUME NEW j \in Tasked(o)', DrainOf(o, j)', Running(o), Alone(o) # {}
        PROVE  o \in cut' \/ FailsBefore(o, j)'
    <3>1. \A i \in Nat : i + 0 = i /\ i - 0 = i /\ (i >= 1 => i > 0)
      OBVIOUS
    <3>2. DrainOf(o, j) /\ j \in Tasked(o)
      BY <2>2, <2>3, <3>1 DEF Advances, DrainOf, Tasked
    <3>3. CASE o \in cut
      BY <1>1, <3>3
    <3>4. ASSUME NEW i \in Tasked(o), i < j, LogOf(o, i) PROVE FailsBefore(o, j)'
      <4>1. LogOf(o, i)' /\ i \in Tasked(o)'
        BY <2>2, <3>1, <3>4 DEF Advances, LogOf, Tasked
      <4>2. QED BY <1>2, <3>4, <4>1 DEF FailsBefore
    <3>5. QED BY <2>3, <3>2, <3>3, <3>4 DEF Ends, Interrupted, FailsBefore
  <2>4. QED BY <1>1, <1>2, <1>3, <2>3 DEF Interrupted, Running
<1>10. Hibernates(o)'
  BY <1>1, <1>2, <1>3 DEF Ends, Hibernates
<1>11. QED BY <1>4, <1>8, <1>9, <1>10 DEF Ends

LEMMA EventHeeded ==
  ASSUME TypeOK, Steady, Held, Heeded, NEW o \in Objects, Event(o)
  PROVE  Heeded'
<1> SUFFICES ASSUME NEW p \in Objects PROVE Streams(p)' /\ Ends(p)'
  BY DEF Heeded
<1>0. Streams(p) /\ Ends(p)
  BY DEF Heeded
<1>1. UNCHANGED <<current, pc, phase, cut>>
  BY DEF Event, OnExit, SweepEnds, OnLine, Settle, LogFails
<1>2. queue'[p] = queue[p] \/ \E t \in Tasks : Joins(p, t)
  BY EventElsewhere DEF Elsewhere
<1>3. ~DrainEnds
  BY <1>1 DEF DrainEnds, DrainOver
<1>4. CASE OnExit(o) /\ p = o
  <2>1. cli'[o] = NoProcess
    BY <1>4, OnExitCli
  <2>2. ~agent'[o].settle
    BY <1>4 DEF OnExit, TypeOK, Agents
  <2>3. cli'[o].st = "none" /\ cli'[o].in = <<>> /\ cli'[o].out = <<>> /\ cli'[o].work = {} /\ ~cli'[o].bg
    BY <2>1 DEF NoProcess
  <2>4. Turns(o)'
    BY <2>3 DEF Turns
  <2>5. Streams(o)' /\ Ends(o)'
    BY <2>2, <2>3, <2>4 DEF Streams, Sound, Running, Ends, Hibernates, Failing, Interrupted
  <2>6. QED BY <1>4, <2>5
<1>5. CASE LogFails(o) /\ p = o
  BY <1>0, <1>5, LogFailsEnds
<1>6. CASE ~OnExit(o) /\ ~LogFails(o)
  <2>1. /\ Streams(p)' /\ Alone(p)' = Alone(p) /\ cli'[p].st = cli[p].st
        /\ agent'[p].life = agent[p].life /\ agent'[p].ending = agent[p].ending
    BY <1>0, <1>6, EventSteps
  <2>2. QED BY <1>0, <1>1, <1>2, <1>3, <2>1, GoesOnEnds DEF Known, Running
<1>7. CASE p # o /\ (OnExit(o) \/ LogFails(o))
  <2>1. cli'[p] = cli[p] /\ agent'[p] = agent[p]
    BY <1>7 DEF OnExit, LogFails, TypeOK
  <2>2. KeepsFates(p)
    <3>1. CASE OnExit(o)
      <4>1. \A m \in Unfinished(p) : m \in Messages /\ m \notin Unfinished(o)
        BY <1>7, UnfinishedTyped DEF Held
      <4>2. QED BY <3>1, <4>1 DEF OnExit, KeepsFates
    <3>2. CASE LogFails(o)
      BY <3>2 DEF LogFails, KeepsFates
    <3>3. QED BY <1>7, <3>1, <3>2
  <2>3. Calm(p)
    BY <2>1, CalmIf
  <2>4. Streams(p)' /\ Alone(p)' \subseteq Alone(p)
    BY <1>0, <2>2, <2>3, CalmStreams
  <2>5. QED BY <1>0, <1>1, <1>2, <1>3, <2>1, <2>4, GoesOnEnds DEF Known, Running
<1>8. QED BY <1>4, <1>5, <1>6, <1>7

LEMMA RequestHeeded ==
  ASSUME TypeOK, Born, Waiting, Held, Heeded, NEW o \in Objects, Request(o)
  PROVE  Heeded'
<1> SUFFICES ASSUME NEW p \in Objects PROVE Streams(p)' /\ Ends(p)'
  BY DEF Heeded
<1>0. Streams(p) /\ Ends(p)
  BY DEF Heeded
<1>1. cli' = cli /\ KeepsFates(p) /\ UNCHANGED <<pc, phase, cut>>
  BY RequestHeld DEF KeepsFates, Request, ReqSpawn, ReqSend, ReqStop, ReqRemove, ReqHibernate
<1>2. queue'[p] = queue[p] \/ \E t \in Tasks : Joins(p, t)
  BY RequestElsewhere DEF Elsewhere
<1>3. ~DrainEnds
  BY <1>1 DEF DrainEnds, DrainOver
<1>4. CASE p = o /\ \E m \in Messages \cup {0} : ReqSpawn(o, m)
  <2>1. cli[o].st = "none" /\ agent'[o] = Fresh
    BY <1>4 DEF ReqSpawn, Born, TypeOK
  <2>2. ~agent'[o].settle
    BY <2>1 DEF Fresh
  <2>3. Turns(o)'
    BY <1>0, <1>1, <1>4 DEF Streams, Turns
  <2>4. Streams(o)' /\ Ends(o)'
    BY <1>1, <2>1, <2>2, <2>3 DEF Streams, Sound, Running, Ends, Hibernates, Failing, Interrupted
  <2>5. QED BY <1>4, <2>4
<1>5. CASE ~(p = o /\ \E m \in Messages \cup {0} : ReqSpawn(o, m))
  <2>1. Calm(p) /\ agent'[p].life = agent[p].life /\ agent'[p].ending = agent[p].ending
    <3>1. CASE agent'[p] = agent[p]
      BY <1>1, <3>1, CalmIf
    <3>2. CASE p = o /\ (ReqStop(o) \/ ReqRemove(o))
      <4>1. agent[o] \in Agents
        BY DEF TypeOK
      <4>2. \/ agent'[o] = [agent[o] EXCEPT !.stops = @ + 1]
            \/ agent'[o] = [agent[o] EXCEPT !.removed = TRUE]
        BY <3>2 DEF ReqStop, ReqRemove, TypeOK
      <4>3. QED BY <1>1, <3>2, <4>1, <4>2 DEF Calm, Agents
    <3>3. QED BY <1>5, <3>1, <3>2 DEF Request, ReqSpawn, ReqSend, ReqStop, ReqRemove, ReqHibernate, TypeOK
  <2>2. Streams(p)' /\ Alone(p)' \subseteq Alone(p)
    BY <1>0, <1>1, <2>1, CalmStreams
  <2>3. Known(p)' => Known(p)
    <3>1. ASSUME NEW m \in Messages \cup {0}, ReqSpawn(o, m), Known(p)' PROVE Known(p)
      <4>1. p # o
        BY <1>5, <3>1
      <4>2. IdOf(p) # IdOf(o)
        BY <3>1, <4>1, ObjectsAreNamed DEF ReqSpawn, Known, TypeOK
      <4>3. QED BY <3>1, <4>2 DEF ReqSpawn, Known, TypeOK
    <3>2. (\A m \in Messages \cup {0} : ~ReqSpawn(o, m)) => current' = current
      BY DEF Request, ReqSend, ReqStop, ReqRemove, ReqHibernate
    <3>3. QED BY <3>1, <3>2 DEF Known
  <2>4. QED BY <1>0, <1>1, <1>2, <1>3, <1>5, <2>1, <2>2, <2>3, GoesOnEnds DEF Running
<1>6. QED BY <1>4, <1>5

(* The drain cuts every agent that works on such a message, unless it failed. *)
LEMMA WorksInTurn ==
  ASSUME NEW p \in Objects, Streams(p), Running(p), Alone(p) # {}, agent[p].life # "failed", Known(p)
  PROVE  p \in TurnInFlight
BY DEF Streams, Sound, Counted, TurnInFlight

(* When every agent is to be ended.                                          *)
LEMMA DrainEndsInterrupted ==
  ASSUME TypeOK, DrainedLast, DrainEnds, NEW p \in Objects, Streams(p), Ends(p)
  PROVE  Failing(p)' /\ Interrupted(p)'
<1> DEFINE t == Simple("drain")
<1>1. t \in Tasks /\ t.kind = "drain" /\ queue[p] \in Seq(Tasks)
  BY TaskRecords DEF Simple, Task, Kinds, TypeOK
<1>2. /\ UNCHANGED <<agent, cli, msg, cut, current>> /\ phase' = "end" /\ phase # "end"
      /\ phase = "wait2" \/ TurnInFlight = {}
      /\ queue'[p] = IF Known(p) THEN Append(queue[p], t) ELSE queue[p]
  BY DEF DrainEnds, DrainOver, ToEnd
<1> HIDE DEF t
<1>3. Alone(p)' = Alone(p) /\ Running(p)' = Running(p)
  BY <1>2 DEF Alone, Unfinished, Running
<1>4. \A i \in Tasked(p) : i \in Tasked(p)' /\ queue'[p][i] = queue[p][i]
  BY <1>1, <1>2 DEF Tasked
<1>5. Failing(p)'
  BY <1>2, <1>3, <1>4 DEF Ends, Failing, LogOf
<1>6. ASSUME NEW j \in Tasked(p)', DrainOf(p, j)', Running(p), Alone(p) # {}
      PROVE  p \in cut' \/ FailsBefore(p, j)'
  <2>1. j \notin Tasked(p)
    BY <1>2, <1>4, <1>6 DEF DrainedLast, DrainOf
  <2>2. Known(p) /\ \A i \in Tasked(p) : i < j
    BY <1>1, <1>2, <1>6, <2>1 DEF Tasked
  <2>3. CASE agent[p].life = "failed"
    <3>1. PICK i \in Tasked(p) : LogOf(p, i)
      BY <1>6, <2>3 DEF Ends, Failing
    <3>2. LogOf(p, i)' /\ i \in Tasked(p)' /\ i < j
      BY <1>4, <2>2, <3>1 DEF LogOf
    <3>3. QED BY <1>2, <2>3, <3>2 DEF FailsBefore
  <2>4. CASE agent[p].life # "failed"
    <3>1. p \in TurnInFlight
      BY <1>6, <2>2, <2>4, WorksInTurn
    <3>2. QED BY <1>2, <1>6, <2>2, <2>4, <3>1 DEF Ends, Interrupted
  <2>5. QED BY <2>3, <2>4
<1>7. Interrupted(p)'
  BY <1>2, <1>3, <1>6 DEF Interrupted
<1>8. QED BY <1>5, <1>7

LEMMA HostHeeded ==
  ASSUME TypeOK, DrainedLast, DrainedLast', Heeded, Host \/ UNCHANGED vars
  PROVE  Heeded'
<1> SUFFICES ASSUME NEW p \in Objects PROVE Streams(p)' /\ Ends(p)'
  BY DEF Heeded
<1>0. Streams(p) /\ Ends(p)
  BY DEF Heeded
<1>1. CASE HostRestart
  <2>1. cli'[p] = NoProcess
    BY <1>1 DEF HostRestart
  <2>2. ~agent'[p].settle
    <3>1. agent[p] \in Agents
      BY DEF TypeOK
    <3>2. agent'[p] = [agent[p] EXCEPT !.settle = FALSE] \/ \E l : agent'[p] = [Fresh EXCEPT !.life = l]
      BY <1>1 DEF HostRestart
    <3>3. QED BY <3>1, <3>2 DEF Agents, Fresh
  <2>3. cli'[p].st = "none" /\ cli'[p].in = <<>> /\ cli'[p].out = <<>> /\ cli'[p].work = {} /\ ~cli'[p].bg
    BY <2>1 DEF NoProcess
  <2>4. Turns(p)'
    BY <2>3 DEF Turns
  <2>5. QED BY <2>2, <2>3, <2>4 DEF Streams, Sound, Running, Ends, Hibernates, Failing, Interrupted
<1>2. CASE ~HostRestart
  <2>1. UNCHANGED <<agent, cli, msg, pc, current>>
    BY <1>2 DEF Host, Drain, DrainCuts, DrainEnds, Closed, LogDeleted, vars
  <2>2. Alone(p)' = Alone(p) /\ Running(p)' = Running(p)
    BY <2>1 DEF Alone, Unfinished, Running
  <2>3. Streams(p)'
    <3>1. Calm(p) /\ KeepsFates(p)
      BY <2>1, CalmIf DEF KeepsFates
    <3>2. QED BY <1>0, <3>1, CalmStreams
  <2>4. Hibernates(p)'
    BY <1>0, <2>1, <2>2 DEF Ends, Hibernates
  <2>5. CASE DrainEnds
    BY <1>0, <2>3, <2>4, <2>5, DrainEndsInterrupted DEF Ends
  <2>6. CASE ~DrainEnds
    <3>1. queue' = queue
      BY <1>2, <2>6 DEF Host, Drain, DrainCuts, Closed, LogDeleted, vars
    <3>2. Failing(p)'
      BY <1>0, <2>1, <2>2, <3>1 DEF Ends, Failing, LogOf, Tasked
    <3>3. Interrupted(p)'
      <4>1. CASE Drain \/ Closed
        BY <4>1, NotInterrupted DEF Drain, Closed
      <4>2. CASE DrainCuts
        <5>1. \A j \in Tasked(p) : ~DrainOf(p, j)
          BY <4>2 DEF DrainCuts, DrainedLast
        <5>2. \A j \in Tasked(p)' : ~DrainOf(p, j)'
          BY <3>1, <5>1 DEF Tasked, DrainOf
        <5>3. Running(p) /\ Alone(p) # {} /\ Known(p) /\ agent[p].life # "failed" => p \in cut'
          BY <1>0, <4>2, WorksInTurn DEF DrainCuts
        <5>4. QED BY <2>1, <2>2, <5>2, <5>3 DEF Interrupted, Known
      <4>3. CASE UNCHANGED <<phase, cut>>
        BY <1>0, <2>1, <2>2, <3>1, <4>3 DEF Ends, Interrupted, Known, DrainOf, FailsBefore, LogOf, Tasked
      <4>4. QED BY <1>2, <2>6, <4>1, <4>2, <4>3 DEF Host, LogDeleted, vars
    <3>4. QED BY <2>3, <2>4, <3>2, <3>3 DEF Ends
  <2>7. QED BY <2>5, <2>6
<1>3. QED BY <1>1, <1>2

LEMMA HeededInvariant == ASSUME Steady PROVE Spec => []Heeded
<1>1. Init => Heeded
  <2> SUFFICES ASSUME Init, NEW p \in Objects PROVE Streams(p) /\ Ends(p)
    BY DEF Heeded
  <2>1. cli[p] = NoProcess /\ ~agent[p].settle
    BY DEF Init, Fresh
  <2>2. cli[p].st = "none" /\ cli[p].in = <<>> /\ cli[p].out = <<>> /\ cli[p].work = {} /\ ~cli[p].bg
    BY <2>1 DEF NoProcess
  <2>3. Turns(p)
    BY <2>2 DEF Turns
  <2>4. QED BY <2>1, <2>2, <2>3 DEF Streams, Sound, Running, Ends, Hibernates, Failing, Interrupted
<1>2. TypeOK /\ StartsAlone /\ Born /\ Waiting /\ DrainedLast /\ DrainedLast' /\ Held /\ Heeded /\ [Next]_vars
        => Heeded'
  BY GoHeeded, CliHeeded, EventHeeded, RequestHeeded, HostHeeded DEF Next
<1>3. QED BY <1>1, <1>2, TypeCorrect, StartsAloneInvariant, WaitingInvariant, DrainedInvariant, HeldInvariant,
          PTL DEF Spec

-----------------------------------------------------------------------------
(* What becomes of the messages.                                             *)

LEMMA OnExitDropsNone ==
  ASSUME TypeOK, ProcessTold, Held, Heeded, AloneNotDropped, NEW o \in Objects, OnExit(o)
  PROVE  AloneNotDropped'
<1> SUFFICES ASSUME NEW m \in Messages, msg'[m] = "dropped" PROVE FALSE
  BY DEF AloneNotDropped
<1> DEFINE life == CASE agent[o].ending = "hibernate" -> "hibernated"
                     [] agent[o].ending \in {"stop", "shutdown"} -> "stopped"
                     [] agent[o].ending = "remove" -> agent[o].life
                     [] OTHER -> "failed"
<1>1. msg'[m] = IF m \in Unfinished(o) THEN Lost(m, life) ELSE msg[m]
  BY DEF OnExit
<1>2. m \in Unfinished(o) /\ Lost(m, life) = "dropped"
  BY <1>1 DEF AloneNotDropped
<1>3. life = "hibernated" /\ msg[m] # "crowded"
  BY <1>2 DEF Lost
<1>4. m \in Alone(o)
  BY <1>2, <1>3 DEF Held, Alone
<1>5. cli[o].st # "none"
  BY DEF OnExit
<1>6. agent[o].life \in Shows
  BY <1>5 DEF ProcessTold, Shown
<1>7. agent[o].ending # "hibernate"
  BY <1>4, <1>5 DEF Heeded, Ends, Hibernates
<1>8. life # "hibernated"
  BY <1>6, <1>7 DEF Shows
<1>9. QED BY <1>3, <1>8

LEMMA RestartDropsNone ==
  ASSUME TypeOK, SavedTellsOfWork, AloneNotDropped, HostRestart
  PROVE  AloneNotDropped'
<1> SUFFICES ASSUME NEW m \in Messages, msg'[m] = "dropped" PROVE FALSE
  BY DEF AloneNotDropped
<1> DEFINE life(o) == IF saved[IdOf(o)] \in {"alive", "starting"} THEN "stopped" ELSE saved[IdOf(o)]
           lost == \E o \in Objects : m \in Unfinished(o) /\ Known(o) /\ life(o) = "hibernated"
<1>1. msg'[m] = CASE msg[m] \in {"queued", "overtaken"} -> "refused"
                  [] msg[m] \in {"written", "crowded"} -> Lost(m, IF lost THEN "hibernated" ELSE "stopped")
                  [] OTHER -> msg[m]
  BY DEF HostRestart
<1>2. ~lost
  BY DEF SavedTellsOfWork
<1>3. Lost(m, "stopped") = "cut"
  BY DEF Lost
<1>4. QED BY <1>1, <1>2, <1>3 DEF AloneNotDropped

LEMMA OthersDropNone ==
  ASSUME TypeOK, AloneNotDropped, [Next]_vars, ~HostRestart, \A o \in Objects : ~OnExit(o)
  PROVE  AloneNotDropped'
<1> SUFFICES ASSUME NEW m \in Messages PROVE msg'[m] # "dropped"
  BY DEF AloneNotDropped
<1>0. msg[m] # "dropped"
  BY DEF AloneNotDropped
<1>1. ASSUME NEW o \in Objects, Go(o) PROVE msg'[m] # "dropped"
  BY <1>0, <1>1, GoFates DEF Fated, Fate
<1>2. ASSUME NEW o \in Objects, Cli(o) PROVE msg'[m] # "dropped"
  BY <1>0, <1>2, CliSteps
<1>3. ASSUME NEW o \in Objects, Event(o) PROVE msg'[m] # "dropped"
  BY <1>0, <1>3 DEF Event, SweepEnds, OnLine, Settle, LogFails
<1>4. ASSUME NEW o \in Objects, Request(o) PROVE msg'[m] # "dropped"
  BY <1>0, <1>4 DEF Request, ReqSpawn, ReqSend, ReqStop, ReqRemove, ReqHibernate, TypeOK
<1>5. CASE Host \/ UNCHANGED vars
  BY <1>0, <1>5 DEF Host, Drain, DrainCuts, DrainEnds, Closed, LogDeleted, vars
<1>6. QED BY <1>1, <1>2, <1>3, <1>4, <1>5 DEF Next

(* AloneNotDropped: whatever hibernates, drains, crashes or restarts, and    *)
(* however its turns and its host's reading of them interleave, an agent     *)
(* that looks hibernated has finished every message written to it alone.     *)
(* The settle timer must outlast the CLI, and the CLI begin no turn of its   *)
(* own: with either the code does drop one.                                  *)
THEOREM WrittenNotDropped == ASSUME Steady PROVE Spec => []AloneNotDropped
<1>1. Init => AloneNotDropped
  BY DEF Init, AloneNotDropped
<1>2. TypeOK /\ ProcessTold /\ SavedTellsOfWork /\ Held /\ Heeded /\ AloneNotDropped /\ [Next]_vars
        => AloneNotDropped'
  BY OnExitDropsNone, RestartDropsNone, OthersDropNone
<1>3. QED BY <1>1, <1>2, TypeCorrect, ToldInvariant, WorkIsTold, HeldInvariant, HeededInvariant, PTL DEF Spec

=============================================================================
