--------------------------- MODULE AgentHostProofs ---------------------------
(* Theorems about AgentHost, for every value of its constants. *)
EXTENDS AgentHost, TLAPS

-----------------------------------------------------------------------------
(* Type correctness.                                                         *)

(* Objects are the pairs of an id and a generation. *)
LEMMA ObjectsAreNamed ==
  ASSUME NEW o \in Objects
  PROVE  IdOf(o) \in Ids /\ o # NoObj
BY HostAssumption DEF Objects, IdOf

(* What the constructors build. *)
LEMMA FreshRecords ==
  /\ Fresh \in Agents /\ [Fresh EXCEPT !.life = "unborn"] \in Agents
  /\ NoProcess \in Processes
  /\ NoRoom \in Rooms
<1>1. Fresh \in Agents /\ [Fresh EXCEPT !.life = "unborn"] \in Agents
  BY DEF Fresh, Agents, Lives, Endings
<1>2. NoProcess \in Processes
  BY DEF NoProcess, Processes
<1>3. NoRoom \in Rooms
  BY DEF NoRoom, Rooms, Lives
<1>4. QED BY <1>1, <1>2, <1>3

(* Records stay in their sets as their fields change. *)
LEMMA AgentUpdates ==
  ASSUME NEW a \in Agents
  PROVE  /\ \A l \in Lives : [a EXCEPT !.life = l] \in Agents
         /\ \A e \in Endings : [a EXCEPT !.ending = e] \in Agents
         /\ [a EXCEPT !.stops = @ + 1] \in Agents
         /\ [a EXCEPT !.removed = TRUE] \in Agents
         /\ WriteTo(a) \in Agents
<1>1. \A l \in Lives : [a EXCEPT !.life = l] \in Agents
  BY DEF Agents
<1>2. \A e \in Endings : [a EXCEPT !.ending = e] \in Agents
  BY DEF Agents
<1>3. [a EXCEPT !.stops = @ + 1] \in Agents
  BY DEF Agents
<1>4. [a EXCEPT !.removed = TRUE] \in Agents
  BY DEF Agents
<1>5. WriteTo(a) \in Agents
  <2>1. a.since + 1 \in Nat
    BY DEF Agents
  <2>2. \A n \in Nat : [a EXCEPT !.since = n, !.turn = TRUE] \in Agents
    BY DEF Agents
  <2>3. QED BY <2>1, <2>2 DEF WriteTo
<1>6. QED BY <1>1, <1>2, <1>3, <1>4, <1>5

LEMMA ProcessUpdates ==
  ASSUME NEW c \in Processes
  PROVE  /\ [c EXCEPT !.eof = TRUE] \in Processes
         /\ [c EXCEPT !.st = "gone"] \in Processes
         /\ \A m \in Messages : Hand(c, m) \in Processes
         /\ c.out # <<>> => [c EXCEPT !.out = Tail(@)] \in Processes /\ Head(c.out) \in Lines
<1>1. [c EXCEPT !.eof = TRUE] \in Processes
  BY DEF Processes
<1>2. [c EXCEPT !.st = "gone"] \in Processes
  BY DEF Processes
<1>3. ASSUME NEW m \in Messages PROVE Hand(c, m) \in Processes
  <2>1. Append(c.in, m) \in Seq(Messages)
    BY DEF Processes
  <2>2. \A q \in Seq(Messages) : [c EXCEPT !.in = q] \in Processes
    BY DEF Processes
  <2>3. QED BY <2>1, <2>2 DEF Hand
<1>4. ASSUME c.out # <<>>
      PROVE  [c EXCEPT !.out = Tail(@)] \in Processes /\ Head(c.out) \in Lines
  <2>1. c.out \in Seq(Lines)
    BY DEF Processes
  <2>2. Tail(c.out) \in Seq(Lines) /\ Head(c.out) \in Lines
    BY <1>4, <2>1
  <2>3. \A q \in Seq(Lines) : [c EXCEPT !.out = q] \in Processes
    BY DEF Processes
  <2>4. QED BY <2>2, <2>3
<1>5. QED BY <1>1, <1>2, <1>3, <1>4

LEMMA RoomUpdates ==
  ASSUME NEW r \in Rooms
  PROVE  /\ \A x \in {"none", "yes", "no"} : [r EXCEPT !.answer = x] \in Rooms
         /\ \A v \in Objects : [r EXCEPT !.todo = @ \ {v}, !.answer = "none"] \in Rooms
BY DEF Rooms

LEMMA TaskRecords ==
  /\ \A k \in Kinds \ {"send"} : Simple(k) \in Tasks
  /\ \A w \in Objects : Task("hibernate", 0, 0, w) \in Tasks
  /\ \A m \in Messages \cup {0} : Task("spawn", m, 0, NoObj) \in Tasks
  /\ \A m \in Messages, n \in Nat : Task("send", m, n, NoObj) \in Tasks
BY HostAssumption DEF Simple, Task, Tasks, Kinds, Messages

LEMMA InitType == Init => TypeOK
BY FreshRecords DEF Init, TypeOK, Lives, Fates, Stages

(* A task added to, or taken from, a queue of tasks. *)
LEMMA EnqueueType ==
  ASSUME TypeOK, NEW o \in Objects, NEW t \in Tasks, Enqueue(o, t)
  PROVE  queue' \in [Objects -> Seq(Tasks)]
BY DEF TypeOK, Enqueue

LEMMA TopType ==
  ASSUME TypeOK, NEW o \in Objects, Busy(o)
  PROVE  Top(o) \in Tasks /\ Tail(queue[o]) \in Seq(Tasks)
BY DEF TypeOK, Busy, Top

LEMMA DequeueType ==
  ASSUME TypeOK, NEW o \in Objects, Busy(o), Dequeue(o)
  PROVE  queue' \in [Objects -> Seq(Tasks)] /\ pc' \in [Objects -> Stages]
BY TopType DEF TypeOK, Dequeue, Stages

LEMMA StepType ==
  ASSUME TypeOK, NEW o \in Objects, NEW s \in Stages, Step(o, s)
  PROVE  pc' \in [Objects -> Stages]
BY DEF TypeOK, Step

LEMMA FateType ==
  ASSUME TypeOK, NEW o \in Objects, NEW f \in Fates, Fate(o, f)
  PROVE  msg' \in [Messages -> Fates]
BY DEF TypeOK, Fate

LEMMA PersistType ==
  ASSUME current' \in [Ids -> Objects \cup {NoObj}], agent' \in [Objects -> Agents], Persist
  PROVE  saved' \in [Ids -> Lives \cup {"absent"}]
BY DEF Persist, Persisted, Agents

LEMMA ForgetType ==
  ASSUME TypeOK, NEW o \in Objects, agent' \in [Objects -> Agents], Forget(o)
  PROVE  /\ current' \in [Ids -> Objects \cup {NoObj}]
         /\ removing' \subseteq Ids
         /\ saved' \in [Ids -> Lives \cup {"absent"}]
<1>1. CASE IdOf(o) \in removing
  BY <1>1 DEF Forget, TypeOK
<1>2. CASE IdOf(o) \notin removing
  <2>1. current' \in [Ids -> Objects \cup {NoObj}] /\ removing' \subseteq Ids
    BY <1>2, ObjectsAreNamed DEF Forget, TypeOK
  <2>2. QED BY <1>2, <2>1, PersistType DEF Forget
<1>3. QED BY <1>1, <1>2

LEMMA FailStartType ==
  ASSUME TypeOK, NEW o \in Objects, Busy(o), agent' \in [Objects -> Agents], FailStart(o)
  PROVE  /\ current' \in [Ids -> Objects \cup {NoObj}]
         /\ removing' \subseteq Ids
         /\ saved' \in [Ids -> Lives \cup {"absent"}]
         /\ queue' \in [Objects -> Seq(Tasks)] /\ pc' \in [Objects -> Stages]
         /\ msg' \in [Messages -> Fates]
<1>1. queue' \in [Objects -> Seq(Tasks)] /\ pc' \in [Objects -> Stages]
  BY DequeueType DEF FailStart
<1>2. msg' \in [Messages -> Fates]
  BY FateType DEF FailStart, Fates
<1>3. CASE Top(o).kind = "spawn"
  BY <1>1, <1>2, <1>3, ForgetType DEF FailStart
<1>4. CASE Top(o).kind # "spawn"
  BY <1>1, <1>2, <1>4 DEF FailStart, TypeOK
<1>5. QED BY <1>3, <1>4

LEMMA MakeRoomType ==
  ASSUME TypeOK, NEW o \in Objects, Busy(o), MakeRoom(o)
  PROVE  /\ current' \in [Ids -> Objects \cup {NoObj}]
         /\ removing' \subseteq Ids
         /\ agent' \in [Objects -> Agents]
         /\ saved' \in [Ids -> Lives \cup {"absent"}]
         /\ queue' \in [Objects -> Seq(Tasks)] /\ pc' \in [Objects -> Stages]
         /\ room' \in [Objects -> Rooms]
         /\ msg' \in [Messages -> Fates]
<1> DEFINE live == LiveBeside(o)
           idle == {v \in live : Hibernatable(v)}
           needed == Cardinality(live) + 1 - MaxAlive
<1>0. idle \subseteq Objects
  BY DEF LiveBeside
<1>1. CASE /\ agent' = [agent EXCEPT ![o].life = "starting"]
           /\ Step(o, "fork")
           /\ UNCHANGED <<current, removing, queue, room, saved, msg>>
  BY <1>1, AgentUpdates, StepType DEF TypeOK, Lives, Stages
<1>2. CASE agent' = agent /\ FailStart(o) /\ UNCHANGED room
  BY <1>2, FailStartType DEF TypeOK
<1>3. CASE /\ \E vs \in SUBSET idle : \E v \in vs :
                /\ Cardinality(vs) = needed
                /\ room' = [room EXCEPT ![o] = [prev |-> agent[o].life, victims |-> vs,
                                                todo |-> vs \ {v}, answer |-> "none"]]
                /\ Enqueue(v, Task("hibernate", 0, 0, o))
           /\ agent' = [agent EXCEPT ![o].life = "starting"]
           /\ Step(o, "room")
           /\ UNCHANGED <<current, removing, saved, msg>>
  <2>0. PICK vs \in SUBSET idle : \E v \in vs :
          /\ room' = [room EXCEPT ![o] = [prev |-> agent[o].life, victims |-> vs,
                                          todo |-> vs \ {v}, answer |-> "none"]]
          /\ Enqueue(v, Task("hibernate", 0, 0, o))
    BY <1>3
  <2>1. PICK v \in vs :
          /\ room' = [room EXCEPT ![o] = [prev |-> agent[o].life, victims |-> vs,
                                          todo |-> vs \ {v}, answer |-> "none"]]
          /\ Enqueue(v, Task("hibernate", 0, 0, o))
    BY <2>0
  <2>2. room' \in [Objects -> Rooms]
    <3>1. agent[o].life \in Lives
      BY DEF TypeOK, Agents
    <3>2. [prev |-> agent[o].life, victims |-> vs, todo |-> vs \ {v}, answer |-> "none"] \in Rooms
      BY <1>0, <3>1 DEF Rooms
    <3>3. QED BY <2>1, <3>2 DEF TypeOK
  <2>3. queue' \in [Objects -> Seq(Tasks)]
    BY <1>0, <2>1, EnqueueType, TaskRecords
  <2>4. agent' \in [Objects -> Agents] /\ pc' \in [Objects -> Stages]
    BY <1>3, AgentUpdates, StepType DEF TypeOK, Lives, Stages
  <2>5. QED BY <1>3, <2>2, <2>3, <2>4 DEF TypeOK
<1>4. QED BY <1>1, <1>2, <1>3 DEF MakeRoom

LEMMA StartProcessType ==
  ASSUME TypeOK, NEW o \in Objects, Busy(o), StartProcess(o)
  PROVE  /\ current' \in [Ids -> Objects \cup {NoObj}]
         /\ removing' \subseteq Ids
         /\ agent' \in [Objects -> Agents]
         /\ saved' \in [Ids -> Lives \cup {"absent"}]
         /\ queue' \in [Objects -> Seq(Tasks)] /\ pc' \in [Objects -> Stages]
         /\ room' \in [Objects -> Rooms]
         /\ msg' \in [Messages -> Fates]
<1>1. CASE IsRemoved(o) \/ Draining
  BY <1>1, FailStartType DEF StartProcess, TypeOK
<1>2. CASE ~(IsRemoved(o) \/ Draining) /\ CanReplace(o)
  BY <1>2, MakeRoomType DEF StartProcess
<1>3. CASE ~(IsRemoved(o) \/ Draining) /\ ~CanReplace(o)
  BY <1>3, StepType DEF StartProcess, TypeOK, Stages
<1>4. QED BY <1>1, <1>2, <1>3

LEMMA HibernateEndsType ==
  ASSUME TypeOK, NEW o \in Objects, Busy(o), NEW ok \in BOOLEAN, HibernateEnds(o, ok)
  PROVE  /\ queue' \in [Objects -> Seq(Tasks)] /\ pc' \in [Objects -> Stages]
         /\ room' \in [Objects -> Rooms]
<1>1. queue' \in [Objects -> Seq(Tasks)] /\ pc' \in [Objects -> Stages]
  BY DequeueType DEF HibernateEnds
<1>2. Top(o).for \in Objects \cup {NoObj}
  BY TopType DEF Tasks
<1>3. room' \in [Objects -> Rooms]
  BY <1>2, RoomUpdates DEF HibernateEnds, TypeOK
<1>4. QED BY <1>1, <1>3

LEMMA EndsType ==
  ASSUME TypeOK, NEW o \in Objects, Busy(o)
  PROVE  /\ \A why \in Endings : End(o, why) => TypeOK'
         /\ Stopped(o) => TypeOK'
         /\ Removed(o) => TypeOK'
         /\ Dropped(o) => TypeOK'
<1>1. ASSUME NEW why \in Endings, End(o, why) PROVE TypeOK'
  BY <1>1, AgentUpdates, ProcessUpdates, StepType DEF End, TypeOK, Stages
<1>2. ASSUME Stopped(o) PROVE TypeOK'
  <2>1. agent' \in [Objects -> Agents]
    BY <1>2, AgentUpdates DEF Stopped, TypeOK, Lives
  <2>2. QED BY <1>2, <2>1, DequeueType, PersistType DEF Stopped, TypeOK
<1>3. ASSUME Removed(o) PROVE TypeOK'
  <2>1. agent' \in [Objects -> Agents]
    BY <1>3 DEF Removed, TypeOK
  <2>2. QED BY <1>3, <2>1, DequeueType, ForgetType DEF Removed, TypeOK
<1>4. ASSUME Dropped(o) PROVE TypeOK'
  BY <1>4, DequeueType DEF Dropped, TypeOK
<1>5. QED BY <1>1, <1>2, <1>3, <1>4

LEMMA RequestType ==
  ASSUME TypeOK, NEW o \in Objects, Request(o)
  PROVE  TypeOK'
<1>1. ASSUME NEW m \in Messages \cup {0}, ReqSpawn(o, m) PROVE TypeOK'
  <2>1. queue' \in [Objects -> Seq(Tasks)]
    BY <1>1, EnqueueType, TaskRecords DEF ReqSpawn
  <2>2. current' \in [Ids -> Objects \cup {NoObj}] /\ agent' \in [Objects -> Agents]
    BY <1>1, ObjectsAreNamed, FreshRecords DEF ReqSpawn, TypeOK
  <2>3. msg' \in [Messages -> Fates]
    BY <1>1 DEF ReqSpawn, TypeOK, Fates
  <2>4. QED BY <1>1, <2>1, <2>2, <2>3 DEF ReqSpawn, TypeOK
<1>2. ASSUME NEW m \in Messages, ReqSend(o, m) PROVE TypeOK'
  <2>1. agent[o].stops \in Nat
    BY DEF TypeOK, Agents
  <2>2. queue' \in [Objects -> Seq(Tasks)]
    BY <1>2, <2>1, EnqueueType, TaskRecords DEF ReqSend
  <2>3. msg' \in [Messages -> Fates]
    BY <1>2 DEF ReqSend, TypeOK, Fates
  <2>4. QED BY <1>2, <2>2, <2>3 DEF ReqSend, TypeOK
<1>3. ASSUME ReqStop(o) PROVE TypeOK'
  <2>1. queue' \in [Objects -> Seq(Tasks)]
    BY <1>3, EnqueueType, TaskRecords DEF ReqStop, Kinds
  <2>2. agent' \in [Objects -> Agents]
    BY <1>3, AgentUpdates DEF ReqStop, TypeOK
  <2>3. msg' \in [Messages -> Fates]
    BY <1>3 DEF ReqStop, TypeOK, Fates
  <2>4. QED BY <1>3, <2>1, <2>2, <2>3 DEF ReqStop, TypeOK
<1>4. ASSUME ReqRemove(o) PROVE TypeOK'
  <2>1. queue' \in [Objects -> Seq(Tasks)]
    BY <1>4, EnqueueType, TaskRecords DEF ReqRemove, Kinds
  <2>2. agent' \in [Objects -> Agents]
    BY <1>4, AgentUpdates DEF ReqRemove, TypeOK
  <2>3. QED BY <1>4, <2>1, <2>2 DEF ReqRemove, TypeOK
<1>5. ASSUME ReqHibernate(o) PROVE TypeOK'
  <2>1. queue' \in [Objects -> Seq(Tasks)]
    BY <1>5, EnqueueType, TaskRecords DEF ReqHibernate, Kinds
  <2>2. QED BY <1>5, <2>1 DEF ReqHibernate, TypeOK
<1>6. QED BY <1>1, <1>2, <1>3, <1>4, <1>5 DEF Request

LEMMA RunSendType ==
  ASSUME TypeOK, NEW o \in Objects, RunSend(o)
  PROVE  TypeOK'
<1>0. Busy(o) /\ Top(o) \in Tasks /\ Top(o).kind = "send"
  BY TopType DEF RunSend, At
<1>1. CASE FailStart(o) /\ UNCHANGED <<agent, cli, room, sweep, phase, cut>>
  BY <1>0, <1>1, FailStartType DEF TypeOK
<1>2. CASE StartProcess(o) /\ UNCHANGED <<cli, sweep, phase, cut>>
  BY <1>0, <1>2, StartProcessType DEF TypeOK
<1>3. CASE /\ Dequeue(o)
           /\ Fate(o, IF Crowded(cli[o]) THEN "crowded" ELSE "written")
           /\ agent' = [agent EXCEPT ![o] = WriteTo(@)]
           /\ cli' = [cli EXCEPT ![o] = Hand(@, Top(o).msg)]
           /\ UNCHANGED <<current, removing, room, saved, sweep, phase, cut>>
  <2>1. Top(o).msg \in Messages
    BY <1>0 DEF Tasks
  <2>2. agent' \in [Objects -> Agents] /\ cli' \in [Objects -> Processes]
    BY <1>3, <2>1, AgentUpdates, ProcessUpdates DEF TypeOK
  <2>3. msg' \in [Messages -> Fates]
    BY <1>3, FateType DEF Fates
  <2>4. QED BY <1>0, <1>3, <2>2, <2>3, DequeueType DEF TypeOK
<1>4. QED BY <1>1, <1>2, <1>3 DEF RunSend

LEMMA RoomAnsweredType ==
  ASSUME TypeOK, NEW o \in Objects, RoomAnswered(o)
  PROVE  TypeOK'
<1>0. Busy(o) /\ room[o] \in Rooms /\ room[o].todo \subseteq Objects /\ room[o].prev \in Lives
  BY DEF RoomAnswered, At, TypeOK, Rooms
<1>1. CASE /\ \E v \in room[o].todo :
                /\ Enqueue(v, Task("hibernate", 0, 0, o))
                /\ room' = [room EXCEPT ![o].todo = @ \ {v}, ![o].answer = "none"]
           /\ UNCHANGED <<current, removing, agent, pc, saved, msg, cli, sweep, phase, cut>>
  <2>1. PICK v \in room[o].todo :
          /\ Enqueue(v, Task("hibernate", 0, 0, o))
          /\ room' = [room EXCEPT ![o].todo = @ \ {v}, ![o].answer = "none"]
    BY <1>1
  <2>2. queue' \in [Objects -> Seq(Tasks)]
    BY <1>0, <2>1, EnqueueType, TaskRecords
  <2>3. room' \in [Objects -> Rooms]
    <3>1. [room[o] EXCEPT !.todo = @ \ {v}, !.answer = "none"] \in Rooms
      BY <1>0, RoomUpdates
    <3>2. room' = [room EXCEPT ![o] = [room[o] EXCEPT !.todo = @ \ {v}, !.answer = "none"]]
      BY <2>1 DEF TypeOK, Rooms
    <3>3. QED BY <3>1, <3>2 DEF TypeOK
  <2>4. QED BY <1>1, <2>2, <2>3 DEF TypeOK
<1>2. CASE /\ room' = [room EXCEPT ![o] = NoRoom]
           /\ agent' = agent
           /\ \/ FailStart(o)
              \/ Step(o, "fork") /\ UNCHANGED <<current, removing, queue, saved, msg>>
           /\ UNCHANGED <<cli, sweep, phase, cut>>
  BY <1>0, <1>2, FreshRecords, FailStartType, StepType DEF TypeOK, Stages
<1>3. CASE /\ room' = [room EXCEPT ![o] = NoRoom]
           /\ agent' = [agent EXCEPT ![o].life = room[o].prev]
           /\ FailStart(o)
           /\ UNCHANGED <<cli, sweep, phase, cut>>
  <2>1. agent' \in [Objects -> Agents]
    BY <1>0, <1>3, AgentUpdates DEF TypeOK
  <2>2. QED BY <1>0, <1>3, <2>1, FreshRecords, FailStartType DEF TypeOK
<1>4. QED BY <1>1, <1>2, <1>3 DEF RoomAnswered

LEMMA ForkFailsType ==
  ASSUME TypeOK, NEW o \in Objects, ForkFails(o)
  PROVE  TypeOK'
<1>0. Busy(o) /\ Dequeue(o) /\ Fate(o, "refused") /\ UNCHANGED <<cli, sweep, room, phase, cut>>
  BY DEF ForkFails, At
<1>1. agent' \in [Objects -> Agents]
  BY AgentUpdates DEF ForkFails, TypeOK, Lives
<1>2. msg' \in [Messages -> Fates]
  BY <1>0, FateType DEF Fates
<1>3. /\ current' \in [Ids -> Objects \cup {NoObj}]
      /\ removing' \subseteq Ids
      /\ saved' \in [Ids -> Lives \cup {"absent"}]
  <2>1. CASE Top(o).kind = "spawn"
    BY <1>1, <2>1, ForgetType DEF ForkFails
  <2>2. CASE Top(o).kind # "spawn"
    BY <1>1, <2>2, PersistType DEF ForkFails, TypeOK
  <2>3. QED BY <2>1, <2>2
<1>4. QED BY <1>0, <1>1, <1>2, <1>3, DequeueType DEF TypeOK

LEMMA ForkSucceedsType ==
  ASSUME TypeOK, NEW o \in Objects, ForkSucceeds(o)
  PROVE  TypeOK'
<1> DEFINE m      == Top(o).msg
           write  == m # 0 /\ ~Draining /\ ~IsRemoved(o) /\ ~StoppedSince(o)
           breaks == ~Known(o) /\ ~agent[o].logError
           begun  == [agent[o] EXCEPT !.life = IF breaks THEN "failed" ELSE "alive",
                                      !.ending = IF Draining THEN "shutdown" ELSE "none",
                                      !.logError = @ \/ breaks]
           proc   == [NoProcess EXCEPT !.st = "up", !.eof = Draining]
           rest   == IF Draining THEN queue[o] ELSE Tail(queue[o])
<1>0. /\ Busy(o) /\ Top(o) \in Tasks /\ Tail(queue[o]) \in Seq(Tasks) /\ agent[o] \in Agents
      /\ queue[o] \in Seq(Tasks)
  BY TopType DEF ForkSucceeds, At, TypeOK
<1>1. begun \in Agents
  <2>1. \A l \in Lives, e \in Endings, b \in BOOLEAN :
          [agent[o] EXCEPT !.life = l, !.ending = e, !.logError = b] \in Agents
    BY <1>0 DEF Agents
  <2>2. agent[o].logError \in BOOLEAN
    BY <1>0 DEF Agents
  <2>3. QED BY <2>1, <2>2 DEF Lives, Endings
<1>2. proc \in Processes
  <2>1. \A b \in BOOLEAN : [NoProcess EXCEPT !.st = "up", !.eof = b] \in Processes
    BY FreshRecords DEF Processes
  <2>2. QED BY <2>1 DEF Draining
<1>3. agent' \in [Objects -> Agents]
  <2>1. WriteTo(begun) \in Agents
    BY <1>1, AgentUpdates
  <2>2. agent' = [agent EXCEPT ![o] = IF write THEN WriteTo(begun) ELSE begun]
    BY DEF ForkSucceeds
  <2>3. QED BY <1>1, <2>1, <2>2 DEF TypeOK
<1>4. cli' \in [Objects -> Processes]
  <2>1. write => Hand(proc, m) \in Processes
    BY <1>0, <1>2, ProcessUpdates DEF Tasks
  <2>2. cli' = [cli EXCEPT ![o] = IF write THEN Hand(proc, m) ELSE proc]
    BY DEF ForkSucceeds
  <2>3. QED BY <1>2, <2>1, <2>2 DEF TypeOK
<1>5. queue' \in [Objects -> Seq(Tasks)]
  <2>1. rest \in Seq(Tasks)
    BY <1>0
  <2>2. Append(rest, Simple("log_error")) \in Seq(Tasks)
    BY <2>1, TaskRecords DEF Kinds
  <2>3. queue' = [queue EXCEPT ![o] = IF breaks THEN Append(rest, Simple("log_error")) ELSE rest]
    BY DEF ForkSucceeds
  <2>4. QED BY <2>1, <2>2, <2>3 DEF TypeOK
<1>6. pc' \in [Objects -> Stages]
  BY StepType DEF ForkSucceeds, Stages
<1>7. msg' \in [Messages -> Fates]
  BY FateType DEF ForkSucceeds, Fates, TypeOK
<1>8. saved' \in [Ids -> Lives \cup {"absent"}]
  BY <1>3, PersistType DEF ForkSucceeds, SaveStart, TypeOK
<1>9. QED BY <1>3, <1>4, <1>5, <1>6, <1>7, <1>8 DEF ForkSucceeds, TypeOK

LEMMA GoType ==
  ASSUME TypeOK, NEW o \in Objects, Go(o)
  PROVE  TypeOK'
<1>1. CASE RunSpawn(o)
  BY <1>1, StartProcessType DEF RunSpawn, At, TypeOK
<1>2. CASE Waited(o)
  <2>1. Busy(o) /\ UNCHANGED <<cli, sweep, phase, cut>>
    BY <1>2 DEF Waited, At
  <2>2. CASE agent' = agent /\ FailStart(o) /\ UNCHANGED room
    BY <2>1, <2>2, FailStartType DEF TypeOK
  <2>3. CASE MakeRoom(o)
    BY <2>1, <2>3, MakeRoomType DEF TypeOK
  <2>4. QED BY <1>2, <2>2, <2>3 DEF Waited
<1>3. CASE RunStop(o)
  BY <1>3, EndsType DEF RunStop, At, Endings
<1>4. CASE RunRemove(o)
  BY <1>4, EndsType DEF RunRemove, At, Endings
<1>5. CASE RunHibernate(o)
  <2>1. Busy(o) /\ UNCHANGED <<current, removing, agent, cli, sweep, phase, cut, saved, msg>>
    BY <1>5 DEF RunHibernate, At
  <2>2. CASE Step(o, "detach") /\ UNCHANGED <<queue, room>>
    BY <2>1, <2>2, StepType DEF TypeOK, Stages
  <2>3. CASE HibernateEnds(o, agent[o].life = "hibernated")
    BY <2>1, <2>3, HibernateEndsType DEF TypeOK
  <2>4. QED BY <1>5, <2>2, <2>3 DEF RunHibernate
<1>6. CASE Detached(o)
  <2>1. Busy(o)
    BY <1>6 DEF Detached, At
  <2>2. CASE End(o, "hibernate")
    BY <2>1, <2>2, EndsType DEF Endings
  <2>3. CASE /\ HibernateEnds(o, FALSE)
             /\ UNCHANGED <<current, removing, agent, cli, sweep, phase, cut, saved, msg>>
    BY <2>1, <2>3, HibernateEndsType DEF TypeOK
  <2>4. QED BY <1>6, <2>2, <2>3 DEF Detached
<1>7. CASE RunDrain(o)
  BY <1>7, EndsType DEF RunDrain, At, Endings
<1>8. CASE RunLogError(o)
  BY <1>8, EndsType DEF RunLogError, At, Endings
<1>9. CASE EndDone(o)
  <2>1. Busy(o)
    BY <1>9 DEF EndDone
  <2>2. CASE Stopped(o) \/ Removed(o) \/ Dropped(o)
    BY <2>1, <2>2, EndsType
  <2>3. CASE /\ HibernateEnds(o, TRUE)
             /\ UNCHANGED <<current, removing, agent, cli, sweep, phase, cut, saved, msg>>
    BY <2>1, <2>3, HibernateEndsType DEF TypeOK
  <2>4. CASE agent' = agent /\ FailStart(o) /\ UNCHANGED <<cli, sweep, room, phase, cut>>
    BY <2>1, <2>4, FailStartType DEF TypeOK
  <2>5. QED BY <1>9, <2>2, <2>3, <2>4 DEF EndDone
<1>10. QED
  BY <1>1, <1>2, <1>3, <1>4, <1>5, <1>6, <1>7, <1>8, <1>9,
     RunSendType, RoomAnsweredType, ForkFailsType, ForkSucceedsType DEF Go

LEMMA EventType ==
  ASSUME TypeOK, NEW o \in Objects, Event(o)
  PROVE  TypeOK'
<1>0. agent[o] \in Agents /\ cli[o] \in Processes
  BY DEF TypeOK
<1>1. CASE OnExit(o)
  <2> DEFINE a == agent[o]
             life == CASE a.ending = "hibernate" -> "hibernated"
                       [] a.ending \in {"stop", "shutdown"} -> "stopped"
                       [] a.ending = "remove" -> a.life
                       [] OTHER -> "failed"
             after == [a EXCEPT !.life = life, !.ending = "none", !.turn = FALSE,
                                !.bg = FALSE, !.since = 0, !.settle = FALSE]
  <2>1. life \in Lives
    BY <1>0 DEF Agents, Lives
  <2>2. after \in Agents
    <3>1. \A l \in Lives : [a EXCEPT !.life = l, !.ending = "none", !.turn = FALSE,
                                     !.bg = FALSE, !.since = 0, !.settle = FALSE] \in Agents
      BY <1>0 DEF Agents, Endings
    <3>2. QED BY <2>1, <3>1
  <2>3. agent' \in [Objects -> Agents]
    <3>1. agent' = [agent EXCEPT ![o] = after]
      BY <1>1 DEF OnExit
    <3>2. QED BY <2>2, <3>1 DEF TypeOK
  <2>4. cli' \in [Objects -> Processes] /\ sweep' \subseteq Objects
    BY <1>1, FreshRecords DEF OnExit, TypeOK
  <2>5. msg' \in [Messages -> Fates]
    <3>1. \A k \in Messages : Lost(k, life) \in Fates
      BY DEF Lost, Fates
    <3>2. msg' = [k \in Messages |-> IF k \in Unfinished(o) THEN Lost(k, life) ELSE msg[k]]
      BY <1>1 DEF OnExit
    <3>3. QED BY <3>1, <3>2 DEF TypeOK
  <2>6. saved' \in [Ids -> Lives \cup {"absent"}]
    BY <1>1, <2>3, PersistType DEF OnExit, TypeOK
  <2>7. QED BY <1>1, <2>3, <2>4, <2>5, <2>6 DEF OnExit, TypeOK
<1>2. CASE SweepEnds(o)
  BY <1>2 DEF SweepEnds, TypeOK
<1>3. CASE OnLine(o)
  <2>1. Head(cli[o].out) \in Lines /\ cli' \in [Objects -> Processes]
    BY <1>0, <1>3, ProcessUpdates DEF OnLine, TypeOK
  <2>2. Followed(agent[o], Head(cli[o].out)) \in Agents
    BY <1>0, <2>1 DEF Followed, Announced, Agents, Lines
  <2>3. agent' \in [Objects -> Agents]
    BY <1>0, <1>3, <2>2 DEF OnLine, TypeOK
  <2>4. saved' \in [Ids -> Lives \cup {"absent"}]
    BY <1>3, <2>3, PersistType DEF OnLine, TypeOK
  <2>5. QED BY <1>3, <2>1, <2>3, <2>4 DEF OnLine, TypeOK
<1>4. CASE Settle(o)
  <2>1. /\ [agent[o] EXCEPT !.settle = FALSE] \in Agents
        /\ [agent[o] EXCEPT !.settle = FALSE, !.since = 0, !.turn = FALSE] \in Agents
    BY <1>0 DEF Agents
  <2>2. agent' \in [Objects -> Agents]
    BY <1>4, <2>1 DEF Settle, TypeOK
  <2>3. QED BY <1>4, <2>2 DEF Settle, TypeOK
<1>5. CASE LogFails(o)
  <2>0. PICK turn \in BOOLEAN :
          agent' = [agent EXCEPT ![o].logError = TRUE, ![o].life = "failed", ![o].turn = turn]
    BY <1>5 DEF LogFails
  <2>1. [agent[o] EXCEPT !.logError = TRUE, !.life = "failed", !.turn = turn] \in Agents
    BY <1>0 DEF Agents, Lives
  <2>2. agent' \in [Objects -> Agents]
    BY <2>0, <2>1 DEF TypeOK
  <2>3. queue' \in [Objects -> Seq(Tasks)]
    BY <1>5, EnqueueType, TaskRecords DEF LogFails, Kinds
  <2>4. saved' \in [Ids -> Lives \cup {"absent"}]
    BY <1>5, <2>2, PersistType DEF LogFails, TypeOK
  <2>5. QED BY <1>5, <2>2, <2>3, <2>4 DEF LogFails, TypeOK
<1>6. QED BY <1>1, <1>2, <1>3, <1>4, <1>5 DEF Event

(* The agent CLI's steps change its process and what became of messages only. *)
LEMMA CliChanges ==
  ASSUME NEW o \in Objects, Cli(o)
  PROVE  UNCHANGED <<current, removing, agent, sweep, queue, pc, room, phase, cut, saved>>
BY DEF Cli, TakeTurn, FoldIn, EndTurn, Background, Exit, Crash

LEMMA EmitType ==
  ASSUME TypeOK, NEW o \in Objects, NEW c \in Processes, NEW l \in Lines, Emit(o, c, l)
  PROVE  cli' \in [Objects -> Processes]
<1>1. Append(c.out, l) \in Seq(Lines)
  BY DEF Processes
<1>2. \A q \in Seq(Lines) : [c EXCEPT !.out = q] \in Processes
  BY DEF Processes
<1>3. [c EXCEPT !.out = Append(@, l)] \in Processes
  BY <1>1, <1>2
<1>4. QED BY <1>3 DEF Emit, TypeOK

LEMMA CliType ==
  ASSUME TypeOK, NEW o \in Objects, Cli(o)
  PROVE  TypeOK'
<1> DEFINE c == cli[o]
<1>0. c \in Processes /\ c.in \in Seq(Messages) /\ c.out \in Seq(Lines) /\ c.work \subseteq Messages
  BY DEF TypeOK, Processes
<1>1. c.in # <<>> => Head(c.in) \in Messages /\ Tail(c.in) \in Seq(Messages)
  BY <1>0
<1>2. /\ \A w \in SUBSET Messages, q \in Seq(Messages) :
             /\ [c EXCEPT !.busy = TRUE, !.work = w, !.in = q] \in Processes
             /\ [c EXCEPT !.work = w, !.in = q] \in Processes
      /\ [c EXCEPT !.busy = FALSE, !.work = {}] \in Processes
      /\ [c EXCEPT !.bg = TRUE] \in Processes
      /\ [c EXCEPT !.bg = FALSE] \in Processes
  BY <1>0 DEF Processes
<1>3. cli' \in [Objects -> Processes] /\ msg' \in [Messages -> Fates]
  <2>1. CASE TakeTurn(o)
    <3>1. [c EXCEPT !.busy = TRUE, !.work = {Head(c.in)}, !.in = Tail(@)] \in Processes
      BY <1>1, <1>2, <2>1 DEF TakeTurn
    <3>2. QED BY <2>1, <3>1, EmitType DEF TakeTurn, Lines, TypeOK
  <2>2. CASE FoldIn(o)
    <3>1. [c EXCEPT !.work = @ \cup {Head(c.in)}, !.in = Tail(@)] \in Processes
      BY <1>0, <1>1, <1>2, <2>2 DEF FoldIn
    <3>2. cli' = [cli EXCEPT ![o] = [c EXCEPT !.work = @ \cup {Head(c.in)}, !.in = Tail(@)]]
      BY <2>2 DEF FoldIn
    <3>3. QED BY <2>2, <3>1, <3>2 DEF FoldIn, TypeOK
  <2>3. CASE EndTurn(o)
    <3>1. Emit(o, [c EXCEPT !.busy = FALSE, !.work = {}], "result")
      BY <2>3 DEF EndTurn
    <3>2. msg' \in [Messages -> Fates]
      BY <2>3 DEF EndTurn, TypeOK, Fates
    <3>3. QED BY <1>2, <3>1, <3>2, EmitType DEF Lines
  <2>4. CASE Background(o)
    <3>1. CASE Emit(o, [c EXCEPT !.bg = TRUE], "bg_on") \/ Emit(o, [c EXCEPT !.bg = FALSE], "bg_off")
      BY <1>2, <2>4, <3>1, EmitType DEF Background, Lines, TypeOK
    <3>2. CASE cli' = [cli EXCEPT ![o] = [c EXCEPT !.bg = FALSE, !.busy = TRUE,
                                                   !.out = @ \o <<"bg_off", "assistant">>]]
      <4>1. c.out \o <<"bg_off", "assistant">> \in Seq(Lines)
        BY <1>0 DEF Lines
      <4>2. \A q \in Seq(Lines) : [c EXCEPT !.bg = FALSE, !.busy = TRUE, !.out = q] \in Processes
        BY <1>0 DEF Processes
      <4>3. [c EXCEPT !.bg = FALSE, !.busy = TRUE, !.out = @ \o <<"bg_off", "assistant">>] \in Processes
        BY <4>1, <4>2
      <4>4. QED BY <2>4, <3>2, <4>3 DEF Background, TypeOK
    <3>3. QED BY <2>4, <3>1, <3>2 DEF Background
  <2>5. CASE Exit(o) \/ Crash(o)
    <3>1. [c EXCEPT !.st = "gone"] \in Processes
      BY <1>0, ProcessUpdates
    <3>2. cli' = [cli EXCEPT ![o] = [c EXCEPT !.st = "gone"]]
      BY <2>5 DEF Exit, Crash
    <3>3. QED BY <2>5, <3>1, <3>2 DEF Exit, Crash, TypeOK
  <2>6. QED BY <2>1, <2>2, <2>3, <2>4, <2>5 DEF Cli
<1>4. QED BY <1>3, CliChanges DEF TypeOK

LEMMA HostType ==
  ASSUME TypeOK, Host
  PROVE  TypeOK'
<1>1. CASE Drain
  BY <1>1 DEF Drain, TypeOK
<1>2. CASE DrainCuts
  BY <1>2 DEF DrainCuts, TurnInFlight, TypeOK
<1>3. CASE DrainEnds
  <2>1. \A o \in Objects : Append(queue[o], Simple("drain")) \in Seq(Tasks)
    BY TaskRecords DEF Kinds, TypeOK
  <2>2. QED BY <1>3, <2>1 DEF DrainEnds, TypeOK
<1>4. CASE Closed
  BY <1>4, PersistType DEF Closed, TypeOK
<1>5. CASE HostRestart
  <2> DEFINE life(o) == IF saved[IdOf(o)] \in {"alive", "starting"} THEN "stopped" ELSE saved[IdOf(o)]
  <2>1. \A o \in Objects : saved[IdOf(o)] # "absent" => [Fresh EXCEPT !.life = life(o)] \in Agents
    <3>1. \A o \in Objects : saved[IdOf(o)] # "absent" => life(o) \in Lives
      BY ObjectsAreNamed DEF TypeOK, Lives
    <3>2. \A l \in Lives : [Fresh EXCEPT !.life = l] \in Agents
      BY FreshRecords, AgentUpdates
    <3>3. QED BY <3>1, <3>2
  <2>2. agent' \in [Objects -> Agents]
    <3>1. \A o \in Objects : [agent[o] EXCEPT !.settle = FALSE] \in Agents
      BY DEF TypeOK, Agents
    <3>2. QED BY <1>5, <2>1, <3>1 DEF HostRestart
  <2>3. current' \in [Ids -> Objects \cup {NoObj}]
    BY <1>5 DEF HostRestart, TypeOK
  <2>4. msg' \in [Messages -> Fates]
    BY <1>5 DEF HostRestart, TypeOK, Fates, Lost
  <2>5. saved' \in [Ids -> Lives \cup {"absent"}]
    BY <1>5, <2>2, <2>3, PersistType DEF HostRestart
  <2>6. /\ cli' \in [Objects -> Processes] /\ queue' \in [Objects -> Seq(Tasks)]
        /\ room' \in [Objects -> Rooms] /\ pc' \in [Objects -> Stages]
    BY <1>5, FreshRecords DEF HostRestart, Stages
  <2>7. QED BY <1>5, <2>2, <2>3, <2>4, <2>5, <2>6 DEF HostRestart, TypeOK
<1>6. CASE \E i \in Ids : LogDeleted(i)
  BY <1>6 DEF LogDeleted, TypeOK
<1>7. QED BY <1>1, <1>2, <1>3, <1>4, <1>5, <1>6 DEF Host

(* TypeOK holds in every reachable state of the host, whatever the number of *)
(* agents, generations, messages and stops.                                  *)
THEOREM TypeCorrect == Spec => []TypeOK
<1>1. TypeOK /\ [Next]_vars => TypeOK'
  <2>1. TypeOK /\ UNCHANGED vars => TypeOK'
    BY DEF vars, TypeOK
  <2>2. TypeOK /\ Next => TypeOK'
    BY RequestType, GoType, EventType, CliType, HostType DEF Next
  <2>3. QED BY <2>1, <2>2
<1>2. QED BY <1>1, InitType, PTL DEF Spec

-----------------------------------------------------------------------------
(* Ids: only a spawn gives an id an agent, and it looks at `removing` first. *)

(* A step leaves an id without an agent without one, or spawns into it; an   *)
(* id enters `removing` together with losing its agent.                      *)
LEMMA ForgetFacts ==
  ASSUME TypeOK, NEW o \in Objects, Forget(o), NoReuseWhileDeleting
  PROVE  NoReuseWhileDeleting'
BY ObjectsAreNamed DEF Forget, NoReuseWhileDeleting, TypeOK

LEMMA FailStartIds ==
  ASSUME TypeOK, NEW o \in Objects, FailStart(o), NoReuseWhileDeleting
  PROVE  NoReuseWhileDeleting'
BY ForgetFacts DEF FailStart, NoReuseWhileDeleting

LEMMA MakeRoomIds ==
  ASSUME TypeOK, NEW o \in Objects, MakeRoom(o), NoReuseWhileDeleting
  PROVE  NoReuseWhileDeleting'
BY FailStartIds DEF MakeRoom, NoReuseWhileDeleting

LEMMA StartProcessIds ==
  ASSUME TypeOK, NEW o \in Objects, StartProcess(o), NoReuseWhileDeleting
  PROVE  NoReuseWhileDeleting'
BY FailStartIds, MakeRoomIds DEF StartProcess, NoReuseWhileDeleting

LEMMA EndsIds ==
  ASSUME TypeOK, NEW o \in Objects, NoReuseWhileDeleting
  PROVE  /\ \A why \in Endings : End(o, why) => NoReuseWhileDeleting'
         /\ Stopped(o) => NoReuseWhileDeleting'
         /\ Removed(o) => NoReuseWhileDeleting'
         /\ Dropped(o) => NoReuseWhileDeleting'
BY ForgetFacts DEF End, Stopped, Removed, Dropped, NoReuseWhileDeleting

LEMMA GoIds ==
  ASSUME TypeOK, NEW o \in Objects, Go(o), NoReuseWhileDeleting
  PROVE  NoReuseWhileDeleting'
<1>1. CASE RunSpawn(o)
  BY <1>1, StartProcessIds DEF RunSpawn
<1>2. CASE RunSend(o)
  BY <1>2, FailStartIds, StartProcessIds DEF RunSend, NoReuseWhileDeleting
<1>3. CASE Waited(o)
  BY <1>3, FailStartIds, MakeRoomIds DEF Waited
<1>4. CASE RoomAnswered(o)
  BY <1>4, FailStartIds DEF RoomAnswered, NoReuseWhileDeleting
<1>5. CASE ForkFails(o)
  BY <1>5, ForgetFacts DEF ForkFails, NoReuseWhileDeleting
<1>6. CASE ForkSucceeds(o)
  BY <1>6 DEF ForkSucceeds, NoReuseWhileDeleting
<1>7. CASE RunStop(o) \/ RunRemove(o) \/ RunDrain(o) \/ RunLogError(o)
  BY <1>7, EndsIds DEF RunStop, RunRemove, RunDrain, RunLogError, Endings
<1>8. CASE RunHibernate(o) \/ Detached(o)
  BY <1>8, EndsIds DEF RunHibernate, Detached, Endings, NoReuseWhileDeleting
<1>9. CASE EndDone(o)
  <2>1. CASE Stopped(o) \/ Removed(o) \/ Dropped(o)
    BY <2>1, EndsIds
  <2>2. CASE UNCHANGED <<current, removing>>
    BY <2>2 DEF NoReuseWhileDeleting
  <2>3. CASE FailStart(o)
    BY <2>3, FailStartIds
  <2>4. QED BY <1>9, <2>1, <2>2, <2>3 DEF EndDone
<1>10. QED BY <1>1, <1>2, <1>3, <1>4, <1>5, <1>6, <1>7, <1>8, <1>9 DEF Go

(* NoReuseWhileDeleting: no agent is given an id whose log directory is still *)
(* being deleted.                                                             *)
THEOREM IdsNotReused == Spec => []NoReuseWhileDeleting
<1>1. Init => NoReuseWhileDeleting
  BY DEF Init, NoReuseWhileDeleting
<1>2. TypeOK /\ NoReuseWhileDeleting /\ [Next]_vars => NoReuseWhileDeleting'
  <2> SUFFICES ASSUME TypeOK, NoReuseWhileDeleting, [Next]_vars
               PROVE  NoReuseWhileDeleting'
    OBVIOUS
  <2>1. CASE UNCHANGED vars
    BY <2>1 DEF vars, NoReuseWhileDeleting
  <2>2. CASE Host
    BY <2>2 DEF Host, Drain, DrainCuts, DrainEnds, Closed, HostRestart, LogDeleted, NoReuseWhileDeleting
  <2>3. ASSUME NEW o \in Objects, Request(o) PROVE NoReuseWhileDeleting'
    <3>1. CASE \E m \in Messages \cup {0} : ReqSpawn(o, m)
      BY <3>1, ObjectsAreNamed DEF ReqSpawn, Free, NoReuseWhileDeleting, TypeOK
    <3>2. CASE UNCHANGED <<current, removing>>
      BY <3>2 DEF NoReuseWhileDeleting
    <3>3. QED BY <2>3, <3>1, <3>2 DEF Request, ReqSend, ReqStop, ReqRemove, ReqHibernate
  <2>4. ASSUME NEW o \in Objects, Event(o) PROVE NoReuseWhileDeleting'
    BY <2>4 DEF Event, OnExit, SweepEnds, OnLine, Settle, LogFails, NoReuseWhileDeleting
  <2>5. ASSUME NEW o \in Objects, Cli(o) PROVE NoReuseWhileDeleting'
    BY <2>5, CliChanges DEF NoReuseWhileDeleting
  <2>6. QED BY <2>1, <2>2, <2>3, <2>4, <2>5, GoIds DEF Next
<1>3. QED BY <1>1, <1>2, TypeCorrect, PTL DEF Spec

-----------------------------------------------------------------------------
(* Starts: an object past CanReplace has no process and nothing to sweep     *)
(* until its fork succeeds, and no other step can give it either.            *)

StartsAlone ==
  /\ \A o \in Objects : pc[o] \in {"room", "fork"} => cli[o].st = "none" /\ o \notin sweep
  /\ \A o \in sweep : cli[o].st = "none"

(* A step of o's queue moves no other object, and what it does to o.         *)
Moves(o) ==
  /\ sweep' = sweep
  /\ \A p \in Objects \ {o} : pc'[p] = pc[p] /\ cli'[p] = cli[p]
  /\ pc'[o] \in {"room", "fork"} => cli'[o] = cli[o] /\ (CanReplace(o) \/ pc[o] = "room")
  /\ cli'[o].st # cli[o].st => pc[o] = "fork"

LEMMA FailStartMoves ==
  ASSUME TypeOK, NEW o \in Objects, FailStart(o), UNCHANGED <<cli, sweep>>
  PROVE  Moves(o)
BY DEF FailStart, Dequeue, Moves, TypeOK

LEMMA MakeRoomMoves ==
  ASSUME TypeOK, NEW o \in Objects, MakeRoom(o), CanReplace(o), UNCHANGED <<cli, sweep>>
  PROVE  Moves(o)
BY FailStartMoves DEF MakeRoom, Step, Moves, TypeOK

LEMMA StartProcessMoves ==
  ASSUME TypeOK, NEW o \in Objects, StartProcess(o), UNCHANGED <<cli, sweep>>
  PROVE  Moves(o)
<1>1. CASE FailStart(o)
  BY <1>1, FailStartMoves
<1>2. CASE MakeRoom(o) /\ CanReplace(o)
  BY <1>2, MakeRoomMoves
<1>3. CASE Step(o, "start")
  BY <1>3 DEF Step, Moves, TypeOK
<1>4. QED BY <1>1, <1>2, <1>3 DEF StartProcess

LEMMA EndsMoves ==
  ASSUME TypeOK, NEW o \in Objects
  PROVE  /\ \A why \in Endings : End(o, why) => Moves(o)
         /\ Stopped(o) => Moves(o)
         /\ Removed(o) => Moves(o)
         /\ Dropped(o) => Moves(o)
<1>1. ASSUME NEW why \in Endings, End(o, why) PROVE Moves(o)
  BY <1>1 DEF End, Step, Moves, TypeOK, Processes
<1>2. (Stopped(o) \/ Removed(o) \/ Dropped(o)) => Moves(o)
  BY DEF Stopped, Removed, Dropped, Dequeue, Moves, TypeOK
<1>3. QED BY <1>1, <1>2

LEMMA HibernateEndsMoves ==
  ASSUME TypeOK, NEW o \in Objects, NEW ok \in BOOLEAN, HibernateEnds(o, ok),
         UNCHANGED <<cli, sweep>>
  PROVE  Moves(o)
BY DEF HibernateEnds, Dequeue, Moves, TypeOK

LEMMA GoMoves ==
  ASSUME TypeOK, NEW o \in Objects, Go(o)
  PROVE  Moves(o)
<1>1. CASE RunSpawn(o)
  BY <1>1, StartProcessMoves DEF RunSpawn
<1>2. CASE RunSend(o)
  <2>1. CASE FailStart(o) /\ UNCHANGED cli
    BY <1>2, <2>1, FailStartMoves DEF RunSend
  <2>2. CASE StartProcess(o) /\ UNCHANGED cli
    BY <1>2, <2>2, StartProcessMoves DEF RunSend
  <2>3. CASE Dequeue(o) /\ cli' = [cli EXCEPT ![o] = Hand(@, Top(o).msg)]
    BY <1>2, <2>3 DEF RunSend, Dequeue, Hand, Moves, TypeOK, Processes
  <2>4. QED BY <1>2, <2>1, <2>2, <2>3 DEF RunSend
<1>3. CASE Waited(o)
  <2>1. CanReplace(o) /\ UNCHANGED <<cli, sweep>>
    BY <1>3 DEF Waited, At, Ready
  <2>2. QED BY <1>3, <2>1, FailStartMoves, MakeRoomMoves DEF Waited
<1>4. CASE RoomAnswered(o)
  <2>1. pc[o] = "room" /\ UNCHANGED <<cli, sweep>>
    BY <1>4 DEF RoomAnswered, At
  <2>2. CASE UNCHANGED pc \/ Step(o, "fork")
    BY <2>1, <2>2 DEF Step, Moves, TypeOK
  <2>3. CASE FailStart(o)
    BY <2>1, <2>3, FailStartMoves
  <2>4. QED BY <1>4, <2>2, <2>3 DEF RoomAnswered
<1>5. CASE ForkFails(o)
  BY <1>5 DEF ForkFails, Dequeue, Moves, TypeOK
<1>6. CASE ForkSucceeds(o)
  <2>1. pc[o] = "fork" /\ sweep' = sweep /\ pc'[o] \in {"ending", "idle"}
    BY <1>6 DEF ForkSucceeds, At, Step, TypeOK
  <2>2. \A p \in Objects \ {o} : pc'[p] = pc[p] /\ cli'[p] = cli[p]
    BY <1>6 DEF ForkSucceeds, Step, TypeOK
  <2>3. QED BY <2>1, <2>2 DEF Moves
<1>7. CASE RunStop(o) \/ RunRemove(o) \/ RunDrain(o) \/ RunLogError(o)
  BY <1>7, EndsMoves DEF RunStop, RunRemove, RunDrain, RunLogError, Endings
<1>8. CASE RunHibernate(o)
  <2>1. CASE Step(o, "detach")
    BY <1>8, <2>1 DEF RunHibernate, Step, Moves, TypeOK
  <2>2. CASE HibernateEnds(o, agent[o].life = "hibernated")
    BY <1>8, <2>2, HibernateEndsMoves DEF RunHibernate
  <2>3. QED BY <1>8, <2>1, <2>2 DEF RunHibernate
<1>9. CASE Detached(o)
  BY <1>9, EndsMoves, HibernateEndsMoves DEF Detached, Endings
<1>10. CASE EndDone(o)
  <2>1. CASE Stopped(o) \/ Removed(o) \/ Dropped(o)
    BY <2>1, EndsMoves
  <2>2. CASE HibernateEnds(o, TRUE) /\ UNCHANGED <<cli, sweep>>
    BY <2>2, HibernateEndsMoves
  <2>3. CASE FailStart(o) /\ UNCHANGED <<cli, sweep>>
    BY <2>3, FailStartMoves
  <2>4. QED BY <1>10, <2>1, <2>2, <2>3 DEF EndDone
<1>11. QED
  BY <1>1, <1>2, <1>3, <1>4, <1>5, <1>6, <1>7, <1>8, <1>9, <1>10 DEF Go

LEMMA StartsAloneInvariant == Spec => []StartsAlone
<1>1. Init => StartsAlone
  BY DEF Init, StartsAlone
<1>2. TypeOK /\ StartsAlone /\ [Next]_vars => StartsAlone'
  <2> SUFFICES ASSUME TypeOK, StartsAlone, [Next]_vars
               PROVE  StartsAlone'
    OBVIOUS
  <2>1. CASE UNCHANGED vars
    BY <2>1 DEF vars, StartsAlone
  <2>2. CASE Host
    <3>1. CASE HostRestart
      BY <3>1 DEF HostRestart, NoProcess, StartsAlone
    <3>2. CASE UNCHANGED <<pc, cli, sweep>>
      BY <3>2 DEF StartsAlone
    <3>3. QED BY <2>2, <3>1, <3>2 DEF Host, Drain, DrainCuts, DrainEnds, Closed, LogDeleted
  <2>3. ASSUME NEW o \in Objects, Request(o) PROVE StartsAlone'
    BY <2>3 DEF Request, ReqSpawn, ReqSend, ReqStop, ReqRemove, ReqHibernate, StartsAlone
  <2>4. ASSUME NEW o \in Objects, Go(o) PROVE StartsAlone'
    <3>1. Moves(o)
      BY <2>4, GoMoves
    <3>2. ASSUME NEW p \in Objects, pc'[p] \in {"room", "fork"}
          PROVE  cli'[p].st = "none" /\ p \notin sweep'
      BY <3>1, <3>2 DEF Moves, StartsAlone, CanReplace
    <3>3. ASSUME NEW p \in sweep' PROVE cli'[p].st = "none"
      BY <3>1, <3>3 DEF Moves, StartsAlone, TypeOK
    <3>4. QED BY <3>2, <3>3 DEF StartsAlone
  <2>5. ASSUME NEW o \in Objects, Event(o) PROVE StartsAlone'
    <3>1. CASE OnExit(o)
      BY <3>1 DEF OnExit, NoProcess, StartsAlone, TypeOK
    <3>2. CASE OnLine(o)
      <4>1. \A p \in Objects : cli'[p].st = cli[p].st
        BY <3>2 DEF OnLine, TypeOK, Processes
      <4>2. UNCHANGED <<pc, sweep>> /\ sweep \subseteq Objects
        BY <3>2 DEF OnLine, TypeOK
      <4>3. QED BY <4>1, <4>2 DEF StartsAlone
    <3>3. CASE SweepEnds(o) \/ Settle(o) \/ LogFails(o)
      BY <3>3 DEF SweepEnds, Settle, LogFails, StartsAlone
    <3>4. QED BY <2>5, <3>1, <3>2, <3>3 DEF Event
  <2>6. ASSUME NEW o \in Objects, Cli(o) PROVE StartsAlone'
    <3>1. /\ cli[o].st = "up" /\ UNCHANGED <<pc, sweep>> /\ sweep \subseteq Objects
          /\ \A p \in Objects \ {o} : cli'[p] = cli[p]
      BY <2>6, CliChanges DEF Cli, TakeTurn, FoldIn, EndTurn, Background, Exit, Crash, Emit,
         Running, TypeOK
    <3>2. QED BY <3>1 DEF StartsAlone
  <2>7. QED BY <2>1, <2>2, <2>3, <2>4, <2>5, <2>6 DEF Next
<1>3. QED BY <1>1, <1>2, TypeCorrect, PTL DEF Spec

(* SweepAlone: while what a crashed process left behind is being swept, its  *)
(* agent has no process and no start past the point where it could fork one. *)
THEOREM SweptAlone == Spec => []SweepAlone
<1>1. TypeOK /\ StartsAlone => SweepAlone
  BY DEF TypeOK, StartsAlone, SweepAlone
<1>2. QED BY <1>1, TypeCorrect, StartsAloneInvariant, PTL
=============================================================================
