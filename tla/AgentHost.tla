------------------------------ MODULE AgentHost ------------------------------
(***************************************************************************)
(* The agent host (relay/src/agentHost/agentHost.ts): the service that     *)
(* owns every long-lived agent process of one profile.  It takes requests  *)
(* (spawn, send, stop, remove, hibernate), runs each agent's starts and    *)
(* stops one at a time in the agent's own promise queue, follows the       *)
(* agent's turns on the CLI's output, keeps a room under its cap of live   *)
(* agents, drains on SIGTERM and restores its agents when it starts again. *)
(*                                                                         *)
(* One step is one run of the event loop between two awaits.  An agent id  *)
(* can be removed and spawned again, so the state is kept per agent OBJECT *)
(* <<id, generation>>: an old object may still have work in its queue when *)
(* a new one has taken its id.  All the agents are Claude agents of one    *)
(* room (an agent without a room is one whose room never fills).           *)
(*                                                                         *)
(* The agent CLI (not part of the repository) is modelled from what        *)
(* onLine and docs/agent-host.md say of it: it reads messages from stdin,  *)
(* announces a turn with `init`, may fold a message into the turn in       *)
(* flight, ends a turn with `result`, and its output is read later than    *)
(* it is written.                                                          *)
(***************************************************************************)
EXTENDS Naturals, Sequences, FiniteSets

CONSTANTS
  Ids,          \* agent ids
  MaxGen,       \* how many objects an id may have had, over time
  MaxAlive,     \* live agents per room (maxAlivePerRoom)
  MaxMessages,  \* bound: messages the relay sends in a behaviour
  MaxStops,     \* bound: stop requests per object
  MaxQueue,     \* bound: tasks waiting in one agent's queue
  MaxLines,     \* bound: lines of the CLI's output not read yet
  Asked,        \* which of the rarer requests are made
  Faults,       \* what may go wrong, and whether background tasks run
  NoObj

AskKinds   == {"remove", "hibernate", "drain"}
FaultKinds == {"crash", "fork", "log", "host", "slow", "background"}

Objects == Ids \X (1..MaxGen)
Messages == 1..MaxMessages
IdOf(o) == o[1]

ASSUME HostAssumption ==
  /\ MaxGen \in Nat \ {0} /\ MaxAlive \in Nat \ {0} /\ MaxMessages \in Nat
  /\ MaxStops \in Nat /\ MaxQueue \in Nat \ {0} /\ MaxLines \in Nat \ {0}
  /\ Faults \subseteq FaultKinds /\ Asked \subseteq AskKinds
  /\ NoObj \notin Objects

VARIABLES
  current,   \* this.agents: the object each id names, or NoObj
  removing,  \* this.removing: ids whose log is still being deleted
  agent,     \* the fields of each Agent object
  cli,       \* the agent's process: stdin, stdout, what it works on
  sweep,     \* objects whose pendingSweep has not ended
  queue,     \* agent.queue: the tasks serialized on each object, head first
  pc,        \* where the head task of each object's queue stands
  room,      \* the locals of a makeRoomFor waiting for its victims
  phase,     \* serving, or where close() stands
  cut,       \* close()'s `cut`: agents whose turn the drain interrupted
  saved,     \* registry.json: the lifecycle saved for each id
  msg        \* what became of each message (history)

vars == <<current, removing, agent, cli, sweep, queue, pc, room, phase, cut, saved, msg>>

Lives   == {"unborn", "starting", "alive", "hibernated", "stopped", "failed"}
Endings == {"none", "stop", "remove", "hibernate", "shutdown", "log_error"}
Kinds   == {"spawn", "send", "stop", "remove", "hibernate", "drain", "log_error"}
Stages  == {"idle", "start", "room", "fork", "detach", "ending"}
Lines   == {"init", "assistant", "result", "bg_on", "bg_off"}
(* "overtaken": still queued when a stop was requested after it.
   "crowded": written while an earlier message was not announced yet.
   "cut": lost with its process, and the agent says so (stopped, failed).
   "dropped", "crowded_out": lost with its process, and the agent looks
   hibernated (whether it was "written" or "crowded"). *)
Fates   == {"new", "queued", "overtaken", "refused", "written",
            "crowded", "done", "cut", "dropped", "crowded_out"}

(* A new Agent object, a process that is not there, no makeRoomFor waiting. *)
Fresh == [life |-> "starting", ending |-> "none", turn |-> FALSE, bg |-> FALSE,
          since |-> 0, settle |-> FALSE, removed |-> FALSE, logError |-> FALSE, stops |-> 0]
NoProcess == [st |-> "none", in |-> <<>>, out |-> <<>>, work |-> {}, busy |-> FALSE,
              bg |-> FALSE, eof |-> FALSE]
NoRoom == [prev |-> "starting", victims |-> {}, todo |-> {}, answer |-> "none"]

Task(k, m, n, w) == [kind |-> k, msg |-> m, stops |-> n, for |-> w]
Simple(k) == Task(k, 0, 0, NoObj)

Known(o)    == current[IdOf(o)] = o
Draining    == phase # "serving"
Running(o)  == cli[o].st = "up"        \* agent.proc && !agent.proc.hasExited
Busy(o)     == queue[o] # <<>>
Top(o)      == queue[o][1]
At(o, kinds, stage) == Busy(o) /\ Top(o).kind \in kinds /\ pc[o] = stage
Starters    == {"spawn", "send"}

(* Messages handed to a process and not finished by it. *)
Unfinished(o) == cli[o].work \cup {cli[o].in[i] : i \in 1..Len(cli[o].in)}

(* Definitions named Mut... are faulty variants, used by no specification:   *)
(* each breaks a property the correct definition keeps.                      *)

(* hibernatable(): no turn in flight, no background task, a live process. *)
MutHibernatable(o) ==
  /\ agent[o].life \in {"alive", "starting"}
  /\ ~agent[o].turn /\ ~agent[o].bg
Hibernatable(o) ==
  /\ agent[o].life = "alive" /\ Running(o)
  /\ ~agent[o].turn /\ ~agent[o].bg

(* this.roomVictims: agents being hibernated to make room for another. *)
Victims == UNION {room[o].victims : o \in Objects}

(* The live agents makeRoomFor(o) counts. *)
MutLivePicked(o) == {p \in Objects \ {o} : Known(p) /\ agent[p].life \in {"alive", "starting"}}
LiveBeside(o) ==
  {p \in Objects \ {o} : Known(p) /\ agent[p].life \in {"alive", "starting"} /\ p \notin Victims}

(* persist(): every known agent's lifecycle, written atomically. *)
Persisted == [i \in Ids |-> IF current'[i] = NoObj THEN "absent" ELSE agent'[current'[i]].life]
Persist == saved' = Persisted

(* startProcess: the last process's exit is handled, what it left is swept. *)
MutCanReplace(o) == cli[o].st = "none"
CanReplace(o) == cli[o].st = "none" /\ o \notin sweep

(* refuseRemoved; refuseStoppedSince for the head task of o. *)
MutIsRemoved(o) == FALSE
IsRemoved(o) == agent[o].removed
MutStoppedSince(o) == FALSE
StoppedSince(o) == agent[o].stops # Top(o).stops

(* Promise continuations run before the event loop takes its next event (a   *)
(* timer, a child's exit, output or file I/O): an object is ready when its   *)
(* queue can go on at once, and those events wait until none is.             *)
Ready(o) ==
  /\ Busy(o)
  /\ \/ pc[o] = "idle"
     \/ pc[o] = "start" /\ CanReplace(o)
     \/ pc[o] = "room" /\ room[o].answer # "none"
Quiet == \A o \in Objects : ~Ready(o)

-----------------------------------------------------------------------------
Agents == [life : Lives, ending : Endings, turn : BOOLEAN, bg : BOOLEAN, since : Nat,
           settle : BOOLEAN, removed : BOOLEAN, logError : BOOLEAN, stops : Nat]
Processes == [st : {"none", "up", "gone"}, in : Seq(Messages), out : Seq(Lines),
              work : SUBSET Messages, busy : BOOLEAN, bg : BOOLEAN, eof : BOOLEAN]
Tasks == {t \in [kind : Kinds, msg : Messages \cup {0}, stops : Nat, for : Objects \cup {NoObj}] :
            t.kind = "send" => t.msg # 0}
Rooms == [prev : Lives, victims : SUBSET Objects, todo : SUBSET Objects, answer : {"none", "yes", "no"}]

(* The values the state takes; a send always carries a message to write.     *)
TypeOK ==
  /\ current \in [Ids -> Objects \cup {NoObj}]
  /\ removing \subseteq Ids
  /\ agent \in [Objects -> Agents]
  /\ cli \in [Objects -> Processes]
  /\ sweep \subseteq Objects
  /\ queue \in [Objects -> Seq(Tasks)]
  /\ pc \in [Objects -> Stages]
  /\ room \in [Objects -> Rooms]
  /\ phase \in {"serving", "wait", "wait2", "end", "closed"}
  /\ cut \subseteq Objects
  /\ saved \in [Ids -> Lives \cup {"absent"}]
  /\ msg \in [Messages -> Fates]

Init ==
  /\ current = [i \in Ids |-> NoObj]
  /\ removing = {}
  /\ agent = [o \in Objects |-> [Fresh EXCEPT !.life = "unborn"]]
  /\ cli = [o \in Objects |-> NoProcess]
  /\ sweep = {}
  /\ queue = [o \in Objects |-> <<>>]
  /\ pc = [o \in Objects |-> "idle"]
  /\ room = [o \in Objects |-> NoRoom]
  /\ phase = "serving"
  /\ cut = {}
  /\ saved = [i \in Ids |-> "absent"]
  /\ msg = [m \in Messages |-> "new"]

-----------------------------------------------------------------------------
(* Requests.  Several can arrive in one read of the socket, so they need not *)
(* wait for Quiet.                                                           *)

Enqueue(o, t) == queue' = [queue EXCEPT ![o] = Append(@, t)]
NextNew(m) == msg[m] = "new" /\ \A k \in 1..(m - 1) : msg[k] # "new"
Accepts(o) == phase # "closed" /\ Known(o) /\ Len(queue[o]) < MaxQueue

MutFree(i) == current[i] = NoObj
Free(i) == current[i] = NoObj /\ i \notin removing

(* spawnAgent: m is the message that came with it, or 0 for none. *)
ReqSpawn(o, m) ==
  LET i == IdOf(o) IN
  /\ ~Draining
  /\ Free(i)
  /\ agent[o].life = "unborn" /\ \A g \in 1..(o[2] - 1) : agent[<<i, g>>].life # "unborn"
  /\ m # 0 => NextNew(m)
  /\ current' = [current EXCEPT ![i] = o]
  /\ agent' = [agent EXCEPT ![o] = Fresh]
  /\ Enqueue(o, Task("spawn", m, 0, NoObj))
  /\ msg' = [k \in Messages |-> IF k = m THEN "queued" ELSE msg[k]]
  /\ UNCHANGED <<removing, cli, sweep, pc, room, phase, cut, saved>>

ReqSend(o, m) ==
  /\ ~Draining /\ Accepts(o) /\ ~agent[o].logError
  /\ NextNew(m)
  /\ Enqueue(o, Task("send", m, agent[o].stops, NoObj))
  /\ msg' = [msg EXCEPT ![m] = "queued"]
  /\ UNCHANGED <<current, removing, agent, cli, sweep, pc, room, phase, cut, saved>>

ReqStop(o) ==
  /\ Accepts(o) /\ agent[o].stops < MaxStops
  /\ agent' = [agent EXCEPT ![o].stops = @ + 1]
  /\ Enqueue(o, Simple("stop"))
  /\ LET mine == {queue[o][i].msg : i \in 1..Len(queue[o])} IN
     msg' = [m \in Messages |-> IF m \in mine THEN "overtaken" ELSE msg[m]]
  /\ UNCHANGED <<current, removing, cli, sweep, pc, room, phase, cut, saved>>

ReqRemove(o) ==
  /\ "remove" \in Asked
  /\ Accepts(o) /\ ~agent[o].removed
  /\ agent' = [agent EXCEPT ![o].removed = TRUE]
  /\ Enqueue(o, Simple("remove"))
  /\ UNCHANGED <<current, removing, cli, sweep, pc, room, phase, cut, saved, msg>>

(* The policy's hibernate, or an explicit one: chosen when hibernatable, which *)
(* may be stale when its turn comes.  Bound: one such request waiting per      *)
(* agent (asked of an agent that is busy or down it fails and changes nothing).*)
ReqHibernate(o) ==
  /\ "hibernate" \in Asked
  /\ Accepts(o) /\ Hibernatable(o)
  /\ \A i \in 1..Len(queue[o]) : queue[o][i] # Simple("hibernate")
  /\ Enqueue(o, Simple("hibernate"))
  /\ UNCHANGED <<current, removing, agent, cli, sweep, pc, room, phase, cut, saved, msg>>

-----------------------------------------------------------------------------
(* Parts of the tasks.                                                       *)

Dequeue(o) ==
  /\ queue' = [queue EXCEPT ![o] = Tail(@)]
  /\ pc' = [pc EXCEPT ![o] = "idle"]
Step(o, stage) == pc' = [pc EXCEPT ![o] = stage]
Fate(o, f) == msg' = [m \in Messages |-> IF m = Top(o).msg THEN f ELSE msg[m]]

(* forget(): by id, sharing a deletion of the id's log already running. *)
Forget(o) ==
  IF IdOf(o) \in removing THEN UNCHANGED <<current, removing, saved>>
  ELSE /\ current' = [current EXCEPT ![IdOf(o)] = NoObj]
       /\ removing' = removing \cup {IdOf(o)}
       /\ Persist

(* A start that is refused: the request fails, and a spawn forgets its agent. *)
FailStart(o) ==
  /\ Dequeue(o)
  /\ Fate(o, "refused")
  /\ IF Top(o).kind = "spawn" THEN Forget(o) ELSE UNCHANGED <<current, removing, saved>>

(* makeRoomFor(o): claim a slot, pick idle victims to hibernate, or fail. *)
MakeRoom(o) ==
  LET live   == LiveBeside(o)
      idle   == {v \in live : Hibernatable(v)}
      full   == Cardinality(live) >= MaxAlive
      needed == Cardinality(live) + 1 - MaxAlive
  IN \/ /\ ~full
        /\ agent' = [agent EXCEPT ![o].life = "starting"]
        /\ Step(o, "fork")
        /\ UNCHANGED <<current, removing, queue, room, saved, msg>>
     \/ /\ full /\ Cardinality(idle) < needed
        /\ agent' = agent
        /\ FailStart(o)
        /\ UNCHANGED room
     \/ /\ full
        /\ \E vs \in SUBSET idle : \E v \in vs :
             /\ Cardinality(vs) = needed
             /\ room' = [room EXCEPT ![o] = [prev |-> agent[o].life, victims |-> vs,
                                             todo |-> vs \ {v}, answer |-> "none"]]
             /\ Enqueue(v, Task("hibernate", 0, 0, o))
        /\ agent' = [agent EXCEPT ![o].life = "starting"]
        /\ Step(o, "room")
        /\ UNCHANGED <<current, removing, saved, msg>>

(* startProcess() up to its first await. *)
StartProcess(o) ==
  IF IsRemoved(o) \/ Draining
  THEN /\ agent' = agent
       /\ FailStart(o)
       /\ UNCHANGED room
  ELSE IF CanReplace(o)
       THEN MakeRoom(o)
       ELSE /\ Step(o, "start")
            /\ UNCHANGED <<current, removing, agent, queue, room, saved, msg>>

(* write(): `a` and `c` are the agent and the process it finds.  A message is  *)
(* crowded when the CLI has still to read an earlier one, or the host to read  *)
(* that it did.                                                                *)
MutWriteTo(a) == [a EXCEPT !.since = @ - 1, !.turn = TRUE]
WriteTo(a) == [a EXCEPT !.since = @ + 1, !.turn = TRUE]
Hand(c, m) == [c EXCEPT !.in = Append(@, m)]
Crowded(c) == c.in # <<>> \/ \E i \in 1..Len(c.out) : c.out[i] = "init"

(* endProcess(): the signal, or the end of stdin; then its exit is awaited.  *)
End(o, why) ==
  /\ agent' = [agent EXCEPT ![o].ending = why]
  /\ cli' = [cli EXCEPT ![o].eof = TRUE]
  /\ Step(o, "ending")
  /\ UNCHANGED <<current, removing, sweep, queue, room, phase, cut, saved, msg>>

(* The ends of the tasks.  A hibernate for a full room tells its starter.    *)
Stopped(o) ==
  /\ agent' = [agent EXCEPT ![o].life = "stopped"]
  /\ Dequeue(o)
  /\ UNCHANGED <<current, removing, cli, sweep, room, phase, cut, msg>>
  /\ Persist

Removed(o) ==
  /\ agent' = agent
  /\ Dequeue(o)
  /\ Forget(o)
  /\ UNCHANGED <<cli, sweep, room, phase, cut, msg>>

MutHibernateEnds(o, ok) ==
  /\ Dequeue(o)
  /\ LET s == Top(o).for IN
     room' = IF s = NoObj \/ ~ok THEN room ELSE [room EXCEPT ![s].answer = "yes"]
HibernateEnds(o, ok) ==
  /\ Dequeue(o)
  /\ LET s == Top(o).for IN
     room' = IF s = NoObj THEN room
             ELSE [room EXCEPT ![s].answer = IF ok THEN "yes" ELSE "no"]

Dropped(o) ==
  /\ Dequeue(o)
  /\ UNCHANGED <<current, removing, agent, cli, sweep, room, phase, cut, saved, msg>>

(* What becomes of a message lost with its process. *)
Lost(m, life) == IF life # "hibernated" THEN "cut"
                 ELSE IF msg[m] = "crowded" THEN "crowded_out" ELSE "dropped"

-----------------------------------------------------------------------------
(* The tasks, from the moment their turn comes.                              *)

RunSpawn(o) ==
  /\ At(o, {"spawn"}, "idle")
  /\ StartProcess(o)
  /\ UNCHANGED <<cli, sweep, phase, cut>>

RunSend(o) ==
  /\ At(o, {"send"}, "idle")
  /\ LET gone == IsRemoved(o) \/ StoppedSince(o) IN
     \/ /\ gone
        /\ FailStart(o)
        /\ UNCHANGED <<agent, cli, room>>
     \/ /\ ~gone /\ ~Running(o)
        /\ StartProcess(o)
        /\ UNCHANGED cli
     \/ /\ ~gone /\ Running(o) /\ Draining
        /\ FailStart(o)
        /\ UNCHANGED <<agent, cli, room>>
     \/ /\ ~gone /\ Running(o) /\ ~Draining
        /\ Dequeue(o)
        /\ Fate(o, IF Crowded(cli[o]) THEN "crowded" ELSE "written")
        /\ agent' = [agent EXCEPT ![o] = WriteTo(@)]
        /\ cli' = [cli EXCEPT ![o] = Hand(@, Top(o).msg)]
        /\ UNCHANGED <<current, removing, room, saved>>
  /\ UNCHANGED <<sweep, phase, cut>>

(* startProcess() after the old process's exit and its sweep. *)
Waited(o) ==
  /\ At(o, Starters, "start") /\ Ready(o)
  /\ IF IsRemoved(o) THEN agent' = agent /\ FailStart(o) /\ UNCHANGED room
                         ELSE MakeRoom(o)
  /\ UNCHANGED <<cli, sweep, phase, cut>>

(* makeRoomFor() when a victim's hibernate() settles. *)
RoomAnswered(o) ==
  /\ At(o, Starters, "room") /\ Ready(o)
  /\ \/ /\ room[o].answer = "yes" /\ room[o].todo # {}
        /\ \E v \in room[o].todo :
             /\ Enqueue(v, Task("hibernate", 0, 0, o))
             /\ room' = [room EXCEPT ![o].todo = @ \ {v}, ![o].answer = "none"]
        /\ UNCHANGED <<current, removing, agent, pc, saved, msg>>
     \/ /\ room[o].answer = "yes" /\ room[o].todo = {}
        /\ room' = [room EXCEPT ![o] = NoRoom]
        /\ agent' = agent
        /\ IF IsRemoved(o)
           THEN FailStart(o)
           ELSE Step(o, "fork") /\ UNCHANGED <<current, removing, queue, saved, msg>>
     \/ /\ room[o].answer = "no"
        /\ room' = [room EXCEPT ![o] = NoRoom]
        /\ agent' = [agent EXCEPT ![o].life = room[o].prev]
        /\ FailStart(o)
  /\ UNCHANGED <<cli, sweep, phase, cut>>

ForkFails(o) ==
  /\ "fork" \in Faults
  /\ At(o, Starters, "fork") /\ Quiet
  /\ agent' = [agent EXCEPT ![o].life = "failed"]
  /\ Dequeue(o)
  /\ Fate(o, "refused")
  /\ IF Top(o).kind = "spawn"
     THEN Forget(o)
     ELSE UNCHANGED <<current, removing>> /\ Persist
  /\ UNCHANGED <<cli, sweep, room, phase, cut>>

(* Unless it is to be ended at once, a start is saved. *)
MutSaveStart(breaks) == UNCHANGED saved
SaveStart(breaks) == IF Draining /\ ~breaks THEN UNCHANGED saved ELSE Persist

(* The process is up: end it at once if a drain began meanwhile, else write  *)
(* the message unless the agent was stopped or removed meanwhile.  An agent  *)
(* no longer known has its log closed: recording the start fails its log.    *)
ForkSucceeds(o) ==
  LET m      == Top(o).msg
      write  == m # 0 /\ ~Draining /\ ~IsRemoved(o) /\ ~StoppedSince(o)
      breaks == ~Known(o) /\ ~agent[o].logError
      begun  == [agent[o] EXCEPT !.life = IF breaks THEN "failed" ELSE "alive",
                                 !.ending = IF Draining THEN "shutdown" ELSE "none",
                                 !.logError = @ \/ breaks]
      proc   == [NoProcess EXCEPT !.st = "up", !.eof = Draining]
      rest   == IF Draining THEN queue[o] ELSE Tail(queue[o])
  IN
  /\ At(o, Starters, "fork") /\ Quiet
  /\ agent' = [agent EXCEPT ![o] = IF write THEN WriteTo(begun) ELSE begun]
  /\ cli' = [cli EXCEPT ![o] = IF write THEN Hand(proc, m) ELSE proc]
  /\ queue' = [queue EXCEPT ![o] = IF breaks THEN Append(rest, Simple("log_error")) ELSE rest]
  /\ Step(o, IF Draining THEN "ending" ELSE "idle")
  /\ IF Draining THEN UNCHANGED msg ELSE Fate(o, IF write THEN "written" ELSE "refused")
  /\ UNCHANGED <<current, removing, sweep, room, phase, cut>>
  /\ SaveStart(breaks)

RunStop(o) ==
  /\ At(o, {"stop"}, "idle")
  /\ IF Running(o) THEN End(o, "stop") ELSE Stopped(o)

RunRemove(o) ==
  /\ At(o, {"remove"}, "idle")
  /\ IF Running(o) THEN End(o, "remove") ELSE Removed(o)

RunHibernate(o) ==
  /\ At(o, {"hibernate"}, "idle")
  /\ IF agent[o].life # "hibernated" /\ Hibernatable(o)
     THEN Step(o, "detach") /\ UNCHANGED <<queue, room>>
     ELSE HibernateEnds(o, agent[o].life = "hibernated")
  /\ UNCHANGED <<current, removing, agent, cli, sweep, phase, cut, saved, msg>>

(* The detached jobs are counted: it may have become busy, or have exited.   *)
Detached(o) ==
  /\ At(o, {"hibernate"}, "detach") /\ Quiet
  /\ IF Hibernatable(o) THEN End(o, "hibernate")
     ELSE /\ HibernateEnds(o, FALSE)
          /\ UNCHANGED <<current, removing, agent, cli, sweep, phase, cut, saved, msg>>

RunDrain(o) ==
  /\ At(o, {"drain"}, "idle")
  /\ LET a == agent[o]
         workCut == o \in cut \/ a.turn \/ a.bg \/ a.since > 0
     IN IF Running(o) THEN End(o, IF workCut THEN "shutdown" ELSE "hibernate") ELSE Dropped(o)

RunLogError(o) ==
  /\ At(o, {"log_error"}, "idle")
  /\ IF Running(o) THEN End(o, "log_error") ELSE Dropped(o)

(* endProcess() returns: the process is gone, its exit handled, what it left *)
(* behind swept.                                                             *)
EndDone(o) ==
  /\ Busy(o) /\ pc[o] = "ending" /\ cli[o].st = "none" /\ Quiet
  /\ CASE Top(o).kind = "stop" -> Stopped(o)
       [] Top(o).kind = "remove" -> Removed(o)
       [] Top(o).kind = "hibernate" ->
            /\ HibernateEnds(o, TRUE)
            /\ UNCHANGED <<current, removing, agent, cli, sweep, phase, cut, saved, msg>>
       [] Top(o).kind \in Starters ->
            /\ agent' = agent
            /\ FailStart(o)
            /\ UNCHANGED <<cli, sweep, room, phase, cut>>
       [] OTHER -> Dropped(o)

-----------------------------------------------------------------------------
(* Events of the agent's process, seen by the host.                          *)

(* onExit: reported once its output is read.  What it had not finished is    *)
(* lost; what the agent shows from now on depends on why it ended.           *)
OnExit(o) ==
  LET a == agent[o]
      life == CASE a.ending = "hibernate" -> "hibernated"
                [] a.ending \in {"stop", "shutdown"} -> "stopped"
                [] a.ending = "remove" -> a.life
                [] OTHER -> "failed"
  IN
  /\ cli[o].st = "gone" /\ Quiet
  /\ cli[o].out = <<>>
  /\ cli' = [cli EXCEPT ![o] = NoProcess]
  /\ agent' = [agent EXCEPT ![o] = [a EXCEPT !.life = life, !.ending = "none", !.turn = FALSE,
                                             !.bg = FALSE, !.since = 0, !.settle = FALSE]]
  /\ sweep' = IF a.ending = "none" THEN sweep \cup {o} ELSE sweep
  /\ msg' = [m \in Messages |-> IF m \in Unfinished(o) THEN Lost(m, life) ELSE msg[m]]
  /\ UNCHANGED <<current, removing, queue, pc, room, phase, cut>>
  /\ IF Known(o) THEN Persist ELSE UNCHANGED saved

SweepEnds(o) ==
  /\ o \in sweep /\ Quiet
  /\ sweep' = sweep \ {o}
  /\ UNCHANGED <<current, removing, agent, cli, queue, pc, room, phase, cut, saved, msg>>

(* onLine: `init` announces a turn.                                          *)
Announced(a) == [a EXCEPT !.since = 0, !.settle = FALSE, !.turn = TRUE]

MutFollowed(a, line) ==
  CASE line = "init" -> Announced(a)
    [] line = "assistant" -> [a EXCEPT !.turn = TRUE]
    [] line = "bg_on" -> [a EXCEPT !.bg = TRUE]
    [] line = "bg_off" -> [a EXCEPT !.bg = FALSE]
    [] line = "result" -> [a EXCEPT !.turn = FALSE]

Followed(a, line) ==
  CASE line = "init" -> Announced(a)
    [] line = "assistant" -> [a EXCEPT !.turn = TRUE]
    [] line = "bg_on" -> [a EXCEPT !.bg = TRUE]
    [] line = "bg_off" -> [a EXCEPT !.bg = FALSE]
    [] line = "result" -> IF a.since > 0 THEN [a EXCEPT !.settle = TRUE]
                                         ELSE [a EXCEPT !.turn = FALSE]

(* A line of a session not seen before also saves the registry.              *)
OnLine(o) ==
  /\ cli[o].st # "none" /\ cli[o].out # <<>> /\ Quiet
  /\ cli' = [cli EXCEPT ![o].out = Tail(@)]
  /\ agent' = [agent EXCEPT ![o] = IF @.logError THEN @ ELSE Followed(@, Head(cli[o].out))]
  /\ UNCHANGED <<current, removing, sweep, queue, pc, room, phase, cut, msg>>
  /\ UNCHANGED saved \/ (~agent[o].logError /\ Persist)

(* settleAfterResult's timer.  Unless "slow", the CLI has taken by then what *)
(* it was going to take, and the host has read that it did.                  *)
Settle(o) ==
  /\ agent[o].settle /\ Quiet
  /\ "slow" \in Faults \/ ~Crowded(cli[o])
  /\ agent' = [agent EXCEPT ![o] = IF @.since = 0 THEN [@ EXCEPT !.settle = FALSE]
                                   ELSE [@ EXCEPT !.settle = FALSE, !.since = 0, !.turn = FALSE]]
  /\ UNCHANGED <<current, removing, cli, sweep, queue, pc, room, phase, cut, saved, msg>>

(* appendTo() fails while a process runs: onLogError.  If it is a message on *)
(* its way to the CLI that was not recorded, write() begins its turn after.  *)
LogFails(o) ==
  /\ "log" \in Faults
  /\ cli[o].st # "none" /\ ~agent[o].logError
  /\ \E turn \in {FALSE, agent[o].turn /\ cli[o].in # <<>>} :
       agent' = [agent EXCEPT ![o].logError = TRUE, ![o].life = "failed", ![o].turn = turn]
  /\ Enqueue(o, Simple("log_error"))
  /\ UNCHANGED <<current, removing, cli, sweep, pc, room, phase, cut, msg>>
  /\ Persist

(* forget(): the log is deleted and the id free again.                       *)
LogDeleted(i) ==
  /\ i \in removing /\ Quiet
  /\ removing' = removing \ {i}
  /\ UNCHANGED <<current, agent, cli, sweep, queue, pc, room, phase, cut, saved, msg>>

-----------------------------------------------------------------------------
(* close(), on SIGTERM, and the next start().                                *)

TurnInFlight == {o \in Objects : Known(o) /\ agent[o].turn}

Drain ==
  /\ "drain" \in Asked /\ ~Draining
  /\ phase' = "wait"
  /\ UNCHANGED <<current, removing, agent, cli, sweep, queue, pc, room, cut, saved, msg>>

(* The first grace is over with turns in flight: they are interrupted.       *)
DrainCuts ==
  /\ phase = "wait" /\ TurnInFlight # {} /\ Quiet
  /\ phase' = "wait2"
  /\ cut' = TurnInFlight
  /\ UNCHANGED <<current, removing, agent, cli, sweep, queue, pc, room, saved, msg>>

(* No turn is left, or the second grace is over: every agent is ended, in    *)
(* its own queue.                                                            *)
MutDrainOver == phase \in {"wait", "wait2"} /\ TurnInFlight = {}
DrainOver == phase = "wait2" \/ (phase = "wait" /\ TurnInFlight = {})
MutToEnd == {o \in Objects : Known(o) /\ Running(o)}
ToEnd == {o \in Objects : Known(o)}

DrainEnds ==
  /\ DrainOver /\ Quiet
  /\ phase' = "end"
  /\ queue' = [o \in Objects |-> IF o \in ToEnd THEN Append(queue[o], Simple("drain")) ELSE queue[o]]
  /\ UNCHANGED <<current, removing, agent, cli, sweep, pc, room, cut, saved, msg>>

Closed ==
  /\ phase = "end" /\ Quiet
  /\ \A o \in Objects : \A i \in 1..Len(queue[o]) : queue[o][i].kind # "drain"
  /\ phase' = "closed"
  /\ UNCHANGED <<current, removing, agent, cli, sweep, queue, pc, room, cut, msg>>
  /\ Persist

(* The host starts again, after it closed or crashed: processes it left are  *)
(* swept, then every agent is restored, none running, from what was saved.   *)
(* Its timers went with it.                                                  *)
HostRestart ==
  LET back(i) == saved[i] # "absent"
      life(o) == IF saved[IdOf(o)] \in {"alive", "starting"} THEN "stopped" ELSE saved[IdOf(o)]
  IN
  /\ phase = "closed" \/ "host" \in Faults
  /\ current' = [i \in Ids |-> IF back(i) THEN current[i] ELSE NoObj]
  /\ agent' = [o \in Objects |-> IF Known(o) /\ back(IdOf(o))
                                 THEN [Fresh EXCEPT !.life = life(o)]
                                 ELSE [agent[o] EXCEPT !.settle = FALSE]]
  /\ removing' = {} /\ sweep' = {} /\ cut' = {} /\ phase' = "serving"
  /\ cli' = [o \in Objects |-> NoProcess]
  /\ queue' = [o \in Objects |-> <<>>]
  /\ pc' = [o \in Objects |-> "idle"]
  /\ room' = [o \in Objects |-> NoRoom]
  /\ msg' = [m \in Messages |->
               CASE msg[m] \in {"queued", "overtaken"} -> "refused"
                 [] msg[m] \in {"written", "crowded"} ->
                      Lost(m, IF \E o \in Objects : m \in Unfinished(o) /\ Known(o) /\ life(o) = "hibernated"
                              THEN "hibernated" ELSE "stopped")
                 [] OTHER -> msg[m]]
  /\ Persist

-----------------------------------------------------------------------------
(* The agent CLI.  Bound: MaxLines lines of output not read yet.             *)

Emit(o, c, l) ==
  /\ Len(cli[o].out) < MaxLines
  /\ cli' = [cli EXCEPT ![o] = [c EXCEPT !.out = Append(@, l)]]

(* It takes a message and announces a turn.                                  *)
TakeTurn(o) ==
  /\ Running(o) /\ ~cli[o].busy /\ cli[o].in # <<>>
  /\ Emit(o, [cli[o] EXCEPT !.busy = TRUE, !.work = {Head(cli[o].in)}, !.in = Tail(@)], "init")
  /\ UNCHANGED <<current, removing, agent, sweep, queue, pc, room, phase, cut, saved, msg>>

(* It folds a message into the turn it is in.                                *)
FoldIn(o) ==
  /\ Running(o) /\ cli[o].busy /\ cli[o].in # <<>>
  /\ cli' = [cli EXCEPT ![o] = [cli[o] EXCEPT !.work = @ \cup {Head(cli[o].in)}, !.in = Tail(@)]]
  /\ UNCHANGED <<current, removing, agent, sweep, queue, pc, room, phase, cut, saved, msg>>

(* It ends its turn, by itself or interrupted.                               *)
EndTurn(o) ==
  /\ Running(o) /\ cli[o].busy
  /\ Emit(o, [cli[o] EXCEPT !.busy = FALSE, !.work = {}], "result")
  /\ msg' = [m \in Messages |-> IF m \in cli[o].work THEN "done" ELSE msg[m]]
  /\ UNCHANGED <<current, removing, agent, sweep, queue, pc, room, phase, cut, saved>>

(* A background task starts in a turn; it ends, and starts a turn of its own *)
(* if none is running.                                                       *)
Background(o) ==
  /\ "background" \in Faults /\ Running(o)
  /\ \/ cli[o].busy /\ ~cli[o].bg /\ Emit(o, [cli[o] EXCEPT !.bg = TRUE], "bg_on")
     \/ cli[o].bg /\ cli[o].busy /\ Emit(o, [cli[o] EXCEPT !.bg = FALSE], "bg_off")
     \/ /\ cli[o].bg /\ ~cli[o].busy /\ Len(cli[o].out) + 1 < MaxLines
        /\ cli' = [cli EXCEPT ![o] = [cli[o] EXCEPT !.bg = FALSE, !.busy = TRUE,
                                                    !.out = @ \o <<"bg_off", "assistant">>]]
  /\ UNCHANGED <<current, removing, agent, sweep, queue, pc, room, phase, cut, saved, msg>>

(* Told to end, it exits: by itself with nothing to do, or killed.           *)
Exit(o) ==
  /\ Running(o) /\ cli[o].eof
  /\ cli' = [cli EXCEPT ![o].st = "gone"]
  /\ UNCHANGED <<current, removing, agent, sweep, queue, pc, room, phase, cut, saved, msg>>

Crash(o) ==
  /\ "crash" \in Faults /\ Running(o) /\ ~cli[o].eof
  /\ cli' = [cli EXCEPT ![o].st = "gone"]
  /\ UNCHANGED <<current, removing, agent, sweep, queue, pc, room, phase, cut, saved, msg>>

-----------------------------------------------------------------------------
Request(o) ==
  \/ \E m \in Messages \cup {0} : ReqSpawn(o, m)
  \/ \E m \in Messages : ReqSend(o, m)
  \/ ReqStop(o) \/ ReqRemove(o) \/ ReqHibernate(o)

(* A task goes on: its turn came, or what it awaited has happened.           *)
Go(o) ==
  \/ RunSpawn(o) \/ RunSend(o) \/ Waited(o) \/ RoomAnswered(o) \/ ForkFails(o) \/ ForkSucceeds(o)
  \/ RunStop(o) \/ RunRemove(o) \/ RunHibernate(o) \/ Detached(o)
  \/ RunDrain(o) \/ RunLogError(o) \/ EndDone(o)

Event(o) == OnExit(o) \/ SweepEnds(o) \/ OnLine(o) \/ Settle(o) \/ LogFails(o)
Cli(o) == TakeTurn(o) \/ FoldIn(o) \/ EndTurn(o) \/ Background(o) \/ Exit(o) \/ Crash(o)
Host == Drain \/ DrainCuts \/ DrainEnds \/ Closed \/ HostRestart \/ \E i \in Ids : LogDeleted(i)

Next == Host \/ \E o \in Objects : Request(o) \/ Go(o) \/ Event(o) \/ Cli(o)

Spec == Init /\ [][Next]_vars

(* The event loop runs every continuation and takes every event that stays   *)
(* due: a timer, an exit, a line, a fork or a file operation that returns.   *)
(* A process told to end exits (SIGKILL after its grace).  Nothing makes the *)
(* CLI end a turn, or the relay send.                                        *)
Fairness ==
  /\ \A o \in Objects :
       /\ WF_vars(Go(o)) /\ WF_vars(OnExit(o)) /\ WF_vars(SweepEnds(o)) /\ WF_vars(OnLine(o))
       /\ WF_vars(Exit(o))
  /\ WF_vars(DrainCuts) /\ WF_vars(DrainEnds) /\ WF_vars(Closed)

FairSpec == Spec /\ Fairness

-----------------------------------------------------------------------------
(* Properties.                                                               *)

(* A message lost with its agent's process is never lost silently: an agent  *)
(* shown `hibernated`, after a hibernation, a drain or a restart, has        *)
(* finished every message written to it while the CLI had read, and the host *)
(* had read that it did, all earlier ones.  The claim of agentHost.ts:1110,  *)
(* "a drain or hibernation cannot drop the message", is of every message;    *)
(* the code does not achieve it for the others, since one `init` zeroes the  *)
(* count of all, nor for any with a CLI slower than the settle timer or in a *)
(* turn it began by itself.                                                  *)
AloneNotDropped == \A m \in Messages : msg[m] # "dropped"

(* A stop wins over the messages that arrived before it, wherever they wait  *)
(* (refuseStoppedSince): none of them is written afterwards.                 *)
StopWins == [][\A m \in Messages : msg[m] = "overtaken" => msg'[m] \in {"overtaken", "refused"}]_vars

(* Once a removed agent is forgotten nothing runs for it and nothing is      *)
(* about to, whatever was queued behind the remove (Agent.removed).          *)
RemovedIsOver ==
  \A o \in Objects : agent[o].removed /\ ~Known(o) => ~Running(o) /\ pc[o] # "fork"

(* An id whose log is being deleted names no agent: a new one would have its *)
(* log directory deleted under it (AgentHost.removing).                      *)
NoReuseWhileDeleting == \A i \in removing : current[i] = NoObj

(* A crashed process's leftovers are swept by agent id, so the agent's next  *)
(* process does not start before the sweep ends (Agent.pendingSweep).        *)
SweepAlone == \A o \in sweep : cli[o].st = "none" /\ pc[o] \notin {"room", "fork"}

(* A closed host has left no process running, not even one that was starting *)
(* when the drain began.                                                     *)
DrainLeavesNothing == phase = "closed" => \A o \in Objects : Known(o) => ~Running(o)

(* What the registry says after any crash: a process that holds a message is *)
(* of an agent saved as running or failed, so a restart tells of its loss.   *)
SavedTellsOfWork ==
  \A o \in Objects : Known(o) /\ Unfinished(o) # {} => saved[IdOf(o)] \in {"alive", "starting", "failed", "stopped"}

(* "so two starts never pick the same one" (makeRoomFor): no agent is being  *)
(* hibernated to make room for two starts.                                   *)
OneStartPerVictim ==
  \A o, p \in Objects : o # p => room[o].victims \cap room[p].victims = {}

(* Starts waiting for room never wait on each other in a circle: each waits  *)
(* behind the queue of its victim, whose own start may be waiting for room.  *)
Awaits(o, v) == pc[o] = "room" /\ \E i \in 1..Len(queue[v]) : queue[v][i].for = o
NoWaitCycle == \A S \in (SUBSET Objects) \ {{}} : \E o \in S : \A v \in S : ~Awaits(o, v)

(* Every message is answered and starts do not wait for room for ever: none  *)
(* is stuck on the agents it hibernates, or behind one that waits on it.     *)
Answered ==
  /\ \A m \in Messages : msg[m] \in {"queued", "overtaken"} ~> msg[m] \notin {"queued", "overtaken"}
  /\ (\E o \in Objects : pc[o] = "room") ~> (\A o \in Objects : pc[o] # "room")

(* A drain ends, however the agents' turns go.                               *)
DrainCloses == phase = "wait" ~> phase = "closed"

=============================================================================
