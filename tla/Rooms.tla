------------------------------- MODULE Rooms -------------------------------
(***************************************************************************)
(* A room's manager (relay/src/session/roomManager.ts): the messages queued *)
(* for each agent, the reports agents make and the digests that hand them  *)
(* to whoever started them, and the stopping, removing, restoring and      *)
(* deleting of agents.  `room` is what the session store keeps on disk,    *)
(* `relay` the manager's memory and the agents' sessions (one turn at a    *)
(* time, the others queued), `works` the agents with a turn in the host.   *)
(*                                                                         *)
(* One step is what the event loop does between two awaits.  The handlers  *)
(* are written as functions of the state z they are called in, since they  *)
(* call each other; `Become` then starts the turns of idle sessions, as    *)
(* the turn queues do before any other event.                              *)
(***************************************************************************)
EXTENDS Naturals, Sequences, Functions

CONSTANTS
  Principal, Workers,  \* the room's members
  MaxMessages,         \* bound: tasks and messages
  MaxReports,          \* bound: reports the agents make
  Urgency,             \* whether these are urgent
  MaxAsked,            \* bound: what the person asks: turns, stops, removals, restores
  Asked,               \* what the person may ask
  MaxFaults,           \* bound: lost connections, relay restarts and failed turns
  MaxBoth              \* bound: asked and faults together

NoOne == "no one"

ASSUME MembersAssumption == Principal \notin Workers /\ NoOne \notin Workers \cup {Principal}
ASSUME BoundsAssumption ==
  /\ MaxMessages \in Nat /\ MaxReports \in Nat /\ MaxAsked \in Nat
  /\ MaxFaults \in Nat /\ MaxBoth \in Nat
  /\ Urgency \subseteq BOOLEAN
  /\ Asked \subseteq {"turn", "stop", "resume", "remove", "restore"}

VARIABLES room, relay, works, hist

vars == <<room, relay, works, hist>>

Members  == {Principal} \cup Workers
Messages == 1..MaxMessages
Reminder == 0        \* the relay's own message: report now

NoReports == [w \in {} |-> 0]
NoTurn    == [kind |-> "none", msg |-> 0, told |-> NoReports, since |-> 0,
              taken |-> FALSE, stop |-> FALSE, left |-> FALSE]
NoReport  == [at |-> 0, urgent |-> FALSE, synthetic |-> FALSE]
NoSending == [on |-> FALSE, msg |-> 0, delivered |-> FALSE]
NoRemoval == [phase |-> "no", ids |-> {}]

Turn(kind, msg, told) == [NoTurn EXCEPT !.kind = kind, !.msg = msg, !.told = told]

Fresh == [up |-> FALSE, reconciling |-> FALSE,
          cur |-> [x \in Members |-> NoTurn], turns |-> [x \in Members |-> <<>>],
          sending |-> [x \in Members |-> NoSending], digests |-> {}, failed |-> {}, timers |-> {},
          purges |-> {}, rejected |-> {}, removals |-> [x \in Members |-> NoRemoval]]

Init ==
  /\ room = [x \in Members |-> [life |-> IF x = Principal THEN "member" ELSE "unborn", parent |-> NoOne,
                                stopped |-> "no", queue |-> <<>>, report |-> NoReport, outbox |-> {}]]
  /\ relay = [Fresh EXCEPT !.up = TRUE]
  /\ works = {}
  /\ hist = [sent |-> 0, reports |-> 0, asked |-> 0, faults |-> 0,
             told |-> [w \in Workers |-> 0], fate |-> [m \in Messages |-> "new"],
             own |-> {}, late |-> {}]

Here == [room |-> room, relay |-> relay, hist |-> hist]

(* F(z): the next call a handler makes, in the state z its last one left.    *)
Then(z, F(_)) == CHOOSE y \in {F(w) : w \in {z}} : TRUE

-----------------------------------------------------------------------------
(* What the manager asks of the state.                                       *)

IsMember(z, x) == z.room[x].life = "member"
Live(z, x)     == IsMember(z, x) /\ z.room[x].stopped = "no"
Admitted(z, x) == IsMember(z, x) /\ z.room[x].stopped # "removed"
Busy(z, x)     == z.relay.cur[x] # NoTurn \/ z.relay.turns[x] # <<>>

(* The parent of x, its parent, and so on: whom every set has that has the   *)
(* parents of x and of its own members.                                      *)
Above(z, x) ==
  {y \in Members : \A S \in SUBSET (Members \ {y}) : \E s \in S \cup {x} : z.room[s].parent \notin S \cup {NoOne}}
Below(z, x)   == {w \in Workers : IsMember(z, w) /\ x \in Above(z, w)}
Subtree(z, x) == {x} \cup Below(z, x)

(* liveAncestorId: the closest agent above that is there and not stopped.    *)
MutLiveAncestor(z, x) == z.room[x].parent
LiveAncestor(z, x) ==
  LET live == {a \in Above(z, x) : Live(z, a)} IN
  IF live = {} THEN NoOne ELSE CHOOSE a \in live : live \ {a} \subseteq Above(z, a)

AtWork(z, w) == Live(z, w) /\ (Busy(z, w) \/ z.room[w].queue # <<>>)

Entries(z, x) == {w \in z.room[x].outbox : Admitted(z, w) /\ z.room[w].report.at # 0}

DigestDue(z, x) ==
  /\ x \notin z.relay.digests \cup z.relay.failed /\ Admitted(z, x)
  /\ Entries(z, x) # {}
  /\ \/ \E w \in Entries(z, x) : z.room[w].report.urgent
     \/ \A w \in Workers : AtWork(z, w) => x \notin Above(z, w)

-----------------------------------------------------------------------------
(* Parts of the handlers.                                                    *)

(* considerDigest, of each of X *)
ConsiderDigest(z, X) == [z EXCEPT !.relay.timers = @ \cup {x \in X \ {NoOne} : DigestDue(z, x)}]

(* A turn each for the sessions of DOMAIN ts. *)
Submit(z, ts) ==
  [z EXCEPT !.relay.turns = [x \in Members |-> IF x \in DOMAIN ts THEN Append(@[x], ts[x]) ELSE @[x]]]

(* pump, of each of X: the next queued message of an idle worker goes to its *)
(* session.                                                                  *)
MutCanPump(z, x) == /\ x # Principal /\ Admitted(z, x) /\ z.relay.up
                    /\ ~z.relay.sending[x].on /\ z.room[x].queue # <<>>
CanPump(z, x) == /\ x # Principal /\ Admitted(z, x) /\ z.relay.up
                 /\ ~z.relay.sending[x].on /\ ~Busy(z, x) /\ z.room[x].queue # <<>>
Pump(z, X) ==
  LET goes == {x \in X : CanPump(z, x)}
      next == [x \in goes |-> Head(z.room[x].queue)]
  IN [Submit(z, [x \in goes |-> Turn("message", next[x], NoReports)]) EXCEPT
        !.relay.sending = [x \in Members |-> IF x \in goes THEN [on |-> TRUE, msg |-> next[x], delivered |-> FALSE]
                                              ELSE @[x]]]

Fate(z, ms, f) == [z EXCEPT !.hist.fate = [m \in Messages |-> IF m \in ms THEN f ELSE @[m]]]

(* removeQueued: m, if it is still the head. *)
Dequeue(z, x, f) == Fate([z EXCEPT !.room[x].queue = Tail(@)], {Head(z.room[x].queue)}, f)
MutRemoveQueued(z, x, m, f) == IF z.room[x].queue = <<>> THEN z ELSE Dequeue(z, x, f)
RemoveQueued(z, x, m, f) ==
  IF z.room[x].queue = <<>> \/ Head(z.room[x].queue) # m THEN z ELSE Dequeue(z, x, f)

(* History: the own turn of a message that waits was taken, or was not and   *)
(* ended.                                                                    *)
OwnTurn(z, t, f) ==
  [z EXCEPT !.hist.own = @ \cup ({m \in Messages : t.kind = "message" /\ m = t.msg /\ z.hist.fate[m] = "queued"} \X {f})]

(* recordReport, for the outbox of whoever reads it. *)
RecordReport(z, w, urgent, synthetic) ==
  LET at == z.room[w].report.at + 1
      r  == LiveAncestor(z, w)
      y  == [z EXCEPT !.room[w].report = [at |-> at, urgent |-> urgent, synthetic |-> synthetic]]
      v  == [y EXCEPT !.room[r].outbox = @ \cup {w}, !.relay.failed = @ \ {r}]
  IN IF r = NoOne THEN y ELSE Then(v, LAMBDA u : ConsiderDigest(u, {r}))

(* clearFromOutbox: what was handed over and not reported again since. *)
MutClearFromOutbox(z, x, told) == [z EXCEPT !.room[x].outbox = @ \ DOMAIN told]
ClearFromOutbox(z, x, told) ==
  [z EXCEPT !.room[x].outbox = {w \in @ : /\ IsMember(z, w) /\ z.room[w].report.at # 0
                                          /\ w \in DOMAIN told => told[w] # z.room[w].report.at}]

(* handOffOutbox, of each of X, who are no longer live: what waits for them  *)
(* goes to the next one above.                                               *)
HandUp(z, X) ==
  LET to == [x \in X |-> LiveAncestor(z, x)] IN
  [z EXCEPT
     !.relay.timers = @ \ X, !.relay.digests = @ \ X,
     !.room = [x \in Members |->
        IF x \in X /\ to[x] # NoOne THEN [@[x] EXCEPT !.outbox = {}]
        ELSE [@[x] EXCEPT !.outbox = UNION {z.room[u].outbox : u \in {x} \cup {v \in X : to[v] = x}}]]]
HandOff(z, X) == Then(HandUp(z, X), LAMBDA v : ConsiderDigest(v, {LiveAncestor(z, x) : x \in X}))

(* The turns the host does not have yet, and those whose request may be on   *)
(* its way to it: while connected, any that was not stopped before it left.  *)
Untaken(z) == {x \in Members : z.relay.cur[x] # NoTurn /\ ~z.relay.cur[x].taken}
OnWay(z)   == {x \in Untaken(z) : z.relay.up /\ (z.relay.cur[x].stop => z.relay.cur[x].left)}

(* discardQueuedTurns and stopTurn of the sessions X, where the requests of  *)
(* L had left: only those that had not will not be sent (halted).            *)
Halt(t, left) == [t EXCEPT !.stop = TRUE, !.left = @ \/ left]
MutStopTurns(z, X, L) == [z EXCEPT !.relay.turns = [x \in Members |-> IF x \in X THEN <<>> ELSE @[x]]]
StopTurns(z, X, L) ==
  [z EXCEPT
     !.relay.turns = [x \in Members |-> IF x \in X THEN <<>> ELSE @[x]],
     !.relay.cur = [x \in Members |-> IF x \in X /\ @[x] # NoTurn THEN Halt(@[x], x \in L) ELSE @[x]]]

MarkStopped(z, X, reason) ==
  Fate([z EXCEPT !.room = [x \in Members |-> IF x \in X THEN [@[x] EXCEPT !.stopped = reason, !.queue = <<>>]
                                              ELSE @[x]]],
       UNION {Range(z.room[x].queue) : x \in X}, "dropped")

(* onTurnSettled, for a worker at work: a failure is reported, and a turn of *)
(* work that ended without a report is reminded once, then reported.         *)
Owed(z, x, t, out) ==
  LET rep  == z.room[x].report
      s    == z.relay.sending[x]
      mine == rep.at # 0 /\ ~rep.synthetic /\ (t.kind = "follow" \/ rep.at > t.since)
      over == \/ out = "stopped" \/ t.kind = "digest"
              \/ out = "done" /\ (mine \/ (~s.on /\ rep.at # 0))
  IN IF over THEN z
     ELSE IF out = "failed" THEN RecordReport(z, x, mine => rep.urgent, ~mine)
     ELSE IF s.on /\ s.delivered /\ s.msg # Reminder /\ z.room[x].queue = <<>>
     THEN [z EXCEPT !.room[x].queue = <<Reminder>>]
     ELSE RecordReport(z, x, TRUE, TRUE)

(* A worker's turn ended: what that leaves to do. *)
AfterTurn(z, x, t, out) ==
  Then(Then(Then(z, LAMBDA y : [Owed(y, x, t, out) EXCEPT !.relay.sending[x] = NoSending]),
                    LAMBDA y : Pump(y, {x})),
                    LAMBDA y : ConsiderDigest(y, {x, LiveAncestor(y, x)}))

(* onTurnSettled.  The record of a digest whose turn was stopped is gone     *)
(* (handOffOutbox): if there is one, it is the next digest's, not sent yet.  *)
TurnSettled(z, x, out) ==
  LET t == z.relay.cur[x]
      s == z.relay.sending[x]
      lost == s.on /\ ~s.delivered
      undelivered == t.kind = "digest" /\ x \in z.relay.digests /\ (t.stop \/ ~t.taken) /\ out # "done"
      z0 == IF ~t.taken /\ z.relay.up THEN OwnTurn(z, t, "refused") ELSE z
      z1 == [z0 EXCEPT !.relay.cur[x] = NoTurn, !.relay.rejected = @ \ {x},
                       !.relay.digests = IF t.kind = "digest" THEN @ \ {x} ELSE @,
                       !.relay.failed = IF undelivered THEN @ \cup {x}
                                        ELSE IF t.kind = "digest" THEN @ ELSE @ \ {x}]
      over == [z1 EXCEPT !.relay.sending[x] = NoSending]
  IN IF x = Principal THEN ConsiderDigest(over, {x})
     ELSE IF ~Live(z0, x) \/ (lost /\ ~z0.relay.up) THEN over
     ELSE AfterTurn(IF lost THEN RemoveQueued(z1, x, s.msg, "refused") ELSE z1, x, t, out)

(* Idle sessions take the next of their turns; noteTurnStarted wakes a       *)
(* stopped agent, unless the turn is a digest's.                             *)
Started(z) ==
  LET starts == {x \in Members : z.relay.cur[x] = NoTurn /\ z.relay.turns[x] # <<>>}
      wakes  == {x \in starts : z.room[x].stopped = "stopped" /\ Head(z.relay.turns[x]).kind # "digest"}
  IN [z EXCEPT
        !.relay.cur = [x \in Members |-> IF x \in starts THEN [Head(z.relay.turns[x]) EXCEPT !.since = z.room[x].report.at] ELSE @[x]],
        !.relay.turns = [x \in Members |-> IF x \in starts THEN Tail(@[x]) ELSE @[x]],
        !.room = [x \in Members |-> IF x \in wakes THEN [@[x] EXCEPT !.stopped = "no"] ELSE @[x]]]

Become(z) == \E y \in {Then(z, Started)} : room' = y.room /\ relay' = y.relay /\ hist' = y.hist

-----------------------------------------------------------------------------
(* The principal's tools and the person.                                     *)

Asks(what) == what \in Asked /\ hist.asked < MaxAsked /\ hist.asked + hist.faults < MaxBoth
Tally(z)   == [z EXCEPT !.hist.asked = @ + 1]

Sends(z, x) == LET m == z.hist.sent + 1 IN
  Fate([z EXCEPT !.hist.sent = m, !.room[x].queue = Append(@, m)], {m}, "queued")

(* launchWorker: under any agent that is not stopped; its task is its first  *)
(* message.                                                                  *)
LaunchWorker(w, parent) ==
  /\ room[w].life = "unborn" /\ hist.sent < MaxMessages
  /\ Live(Here, parent) /\ relay.up
  /\ Become(Then(Sends([Here EXCEPT !.room[w].life = "member", !.room[w].parent = parent], w), LAMBDA z : Pump(z, {w})))
  /\ UNCHANGED works

(* messageAgent: to an agent below the principal; it wakes a stopped one.    *)
MessageAgent(w) ==
  /\ Principal \in works /\ hist.sent < MaxMessages
  /\ Admitted(Here, w)
  /\ Become(Then(Sends([Here EXCEPT !.room[w].stopped = "no"], w), LAMBDA z : Pump(z, {w})))
  /\ UNCHANGED works

(* The person writes to an agent themselves. *)
PersonWrites(x) ==
  /\ Asks("turn")
  /\ Admitted(Here, x)
  /\ Become(Submit(Tally(Here), [y \in {x} |-> Turn("own", 0, NoReports)]))
  /\ UNCHANGED works

Report(w, urgent) ==
  /\ w \in works /\ Admitted(Here, w)
  /\ hist.reports < MaxReports
  /\ Become(RecordReport([Here EXCEPT !.hist.reports = @ + 1], w, urgent, FALSE))
  /\ UNCHANGED works

StopAgent(w) ==
  /\ Asks("stop")
  /\ IsMember(Here, w)
  /\ LET reason == IF room[w].stopped = "no" THEN "stopped" ELSE room[w].stopped IN
     \E L \in SUBSET (OnWay(Here) \cap {w}) :
       Become(Then(StopTurns(MarkStopped(Tally(Here), {w}, reason), {w}, L), LAMBDA z : HandOff(z, {w})))
  /\ UNCHANGED works

(* resumeAgent *)
ResumeAgent(w) ==
  /\ Asks("resume")
  /\ IsMember(Here, w) /\ room[w].stopped = "stopped"
  /\ Become([Tally(Here) EXCEPT !.room[w].stopped = "no"])
  /\ UNCHANGED works

(* removeAgent, up to its wait for the room's worktrees. *)
RemoveAgent(w) ==
  /\ Asks("remove")
  /\ Admitted(Here, w) /\ relay.removals[w].phase = "no"
  /\ Become([Tally(Here) EXCEPT !.relay.removals[w] =
                [phase |-> "listing", ids |-> {x \in Subtree(Here, w) : Admitted(Here, x)}]])
  /\ UNCHANGED works

(* removeAgent, from there to its wait for the host: every agent is marked   *)
(* and stopped first, then the outboxes are handed up.                       *)
Hide(z, ids, L) ==
  Then([StopTurns(MarkStopped(z, ids, "removed"), ids, L) EXCEPT
          !.relay.sending = [x \in Members |-> IF x \in ids THEN NoSending ELSE @[x]]],
       LAMBDA y : HandOff(y, ids))

HideRemoved(w) ==
  LET ids == relay.removals[w].ids IN
  /\ relay.removals[w].phase = "listing"
  /\ \A x \in ids : IsMember(Here, x)
  /\ \E L \in SUBSET (OnWay(Here) \cap ids) :
       Become([Hide(Here, ids, L) EXCEPT !.relay.removals =
         [x \in Members |-> IF x = w THEN [@[x] EXCEPT !.phase = "stopping"]
                            ELSE IF x \in ids /\ @[x].phase = "stopping" THEN NoRemoval ELSE @[x]]])
  /\ UNCHANGED works

(* removeAgent, once the host has stopped them: unless restored or removed   *)
(* again meanwhile, the undo window begins.                                  *)
WindowOpens(w) ==
  /\ relay.removals[w].phase = "stopping"
  /\ Become([Here EXCEPT !.relay.removals[w] = NoRemoval, !.relay.purges = @ \cup {w}])
  /\ works' = works \ relay.removals[w].ids

(* restoreAgent: the removed agents of the subtree, unless what is above is  *)
(* removed too.                                                              *)
RestoreAgent(w) ==
  /\ Asks("restore")
  /\ IsMember(Here, w) /\ room[w].stopped = "removed" /\ room[room[w].parent].stopped # "removed"
  /\ LET back == {x \in Subtree(Here, w) : room[x].stopped = "removed"}
         z == [Tally(Here) EXCEPT
                 !.room = [x \in Members |-> IF x \in back THEN [@[x] EXCEPT !.stopped = "no"] ELSE @[x]],
                 !.relay.purges = @ \ {w},
                 !.relay.removals = [x \in Members |-> IF x \in back /\ @[x].phase = "stopping" THEN NoRemoval ELSE @[x]]]
     IN Become(Then(z, LAMBDA y : ConsiderDigest(y, {LiveAncestor(y, w)})))
  /\ UNCHANGED works

(* purge: the window is over.  Deleting a session deletes all that is below  *)
(* it, and takes its report out of every outbox.                             *)
Purge(w) ==
  /\ w \in relay.purges
  /\ LET z == [Here EXCEPT !.relay.purges = @ \ {w}]
         ids == Subtree(z, w)
         out(y) == [y EXCEPT
           !.room = [x \in Members |-> IF x \in ids THEN [@[x] EXCEPT !.life = "gone", !.outbox = {}, !.queue = <<>>]
                                       ELSE [@[x] EXCEPT !.outbox = y.room[x].outbox \ ids]],
           !.relay.cur = [x \in Members |-> IF x \in ids THEN NoTurn ELSE @[x]],
           !.relay.turns = [x \in Members |-> IF x \in ids THEN <<>> ELSE @[x]],
           !.relay.sending = [x \in Members |-> IF x \in ids THEN NoSending ELSE @[x]],
           !.relay.timers = @ \ ids, !.relay.digests = @ \ ids,
           !.relay.failed = @ \ ids, !.relay.rejected = @ \ ids]
         gone == Fate(out(z), UNION {Range(room[x].queue) : x \in ids}, "dropped")
     IN IF room[w].stopped # "removed" THEN Become(z) /\ UNCHANGED works
        ELSE Become(Then(gone, LAMBDA y : ConsiderDigest(y, {LiveAncestor(z, w)}))) /\ works' = works \ ids

-----------------------------------------------------------------------------
(* Turns and the host.                                                       *)

Fault == hist.faults < MaxFaults /\ hist.asked + hist.faults < MaxBoth

(* The host took the message and says so: onDelivered, of a queued message   *)
(* or of a digest, also when the turn was stopped or its agent removed after *)
(* its request left.                                                         *)
Taken(x) ==
  LET t == relay.cur[x]
      z == [Here EXCEPT !.relay.cur[x] = [@ EXCEPT !.taken = TRUE, !.left = FALSE, !.told = NoReports]]
      late == {m \in {t.msg} \ {Reminder} : ~t.left /\ hist.fate[m] # "queued"}
  IN
  /\ x \in OnWay(Here) /\ (t.left \/ Admitted(Here, x))
  /\ works' = works \cup {x}
  /\ CASE t.kind = "message" ->
            Become(RemoveQueued(
              OwnTurn([z EXCEPT !.relay.sending[x].delivered = relay.sending[x].on, !.hist.late = @ \cup late], t, "taken"),
              x, t.msg, "taken"))
       [] t.kind = "digest" ->
            Become(ClearFromOutbox(
              [z EXCEPT !.hist.told = [w \in Workers |-> IF w \in DOMAIN t.told /\ t.told[w] > @[w] THEN t.told[w] ELSE @[w]]],
              x, t.told))
       [] OTHER -> Become(z)

(* A turn the host took ends there; one it did not take is stopped or        *)
(* refused.  A request on its way when the turn was stopped may be refused   *)
(* for that, which fails the turn; and a turn stopped once it was taken may  *)
(* end here before it ends in the host.                                      *)
Settle(x, out) ==
  LET t == relay.cur[x] IN
  /\ t # NoTurn
  /\ CASE out = "done"    -> t.taken /\ relay.up
       [] out = "stopped" -> t.stop
       [] out = "failed"  -> \/ (Fault \/ t.left) /\ relay.up
                             \/ ~t.taken /\ (~relay.up \/ ~Admitted(Here, x))
  /\ Become(TurnSettled(
       [Here EXCEPT !.hist.faults = IF out = "failed" /\ relay.up /\ Admitted(Here, x) /\ ~t.left THEN @ + 1 ELSE @], x, out))
  /\ \/ works' = IF t.taken THEN works \ {x} ELSE works
     \/ out = "stopped" /\ t.taken /\ UNCHANGED works

(* A turn no session follows ends. *)
HostEnds(x) ==
  /\ x \in works /\ ~relay.cur[x].taken
  /\ works' = works \ {x}
  /\ UNCHANGED <<room, relay, hist>>

DeliverDigest(x) ==
  /\ x \in relay.timers
  /\ LET z == [Here EXCEPT !.relay.timers = @ \ {x}]
         told == [w \in Entries(z, x) |-> room[w].report.at]
     IN Become(IF ~DigestDue(z, x) \/ ~relay.up THEN z
               ELSE Submit([z EXCEPT !.relay.digests = @ \cup {x}], [y \in {x} |-> Turn("digest", 0, told)]))
  /\ UNCHANGED works

-----------------------------------------------------------------------------
(* Faults.                                                                   *)

(* The connection breaks: the requests in flight, those of the turns S, are  *)
(* rejected, the host having taken the messages of T; nothing else goes on   *)
(* until those turns have settled (Rejected).                                *)
Disconnect(S, T) ==
  /\ Fault /\ relay.up /\ T \subseteq S \cap OnWay(Here)
  /\ \A x \in Members : relay.cur[x].left => x \in S
  /\ Become([Here EXCEPT !.hist.faults = @ + 1, !.relay.up = FALSE, !.relay.reconciling = FALSE,
                         !.relay.rejected = S])
  /\ works' = works \cup T

Connect ==
  /\ ~relay.up
  /\ Become([Here EXCEPT !.relay.up = TRUE, !.relay.reconciling = TRUE])
  /\ UNCHANGED works

(* reconcileHost, then resumeQueues: turns in flight are followed, queued    *)
(* messages go out, every outbox is looked at.                               *)
Followed(z, X) == Submit(z, [x \in {y \in X : IsMember(z, y) /\ ~Busy(z, y)} |->
                               [Turn("follow", 0, NoReports) EXCEPT !.taken = TRUE]])
Reconciled == Followed([Here EXCEPT !.relay.reconciling = FALSE, !.relay.failed = {}], works)
MutReconcile ==
  /\ relay.up /\ relay.reconciling
  /\ Become(Reconciled)
  /\ UNCHANGED works
Reconcile ==
  /\ relay.up /\ relay.reconciling
  /\ Become(Then(Then(Reconciled, LAMBDA z : Pump(z, Workers)), LAMBDA z : ConsiderDigest(z, Members)))
  /\ UNCHANGED works

(* The relay dies, the host perhaps having taken what was on its way, and    *)
(* starts again: sweepRemoved arms the windows anew.                         *)
RelayRestarts(T) ==
  /\ Fault /\ T \subseteq OnWay(Here)
  /\ Become([Here EXCEPT !.hist.faults = @ + 1, !.relay = [Fresh EXCEPT !.purges =
       {w \in Workers : IsMember(Here, w) /\ room[w].stopped = "removed" /\ room[room[w].parent].stopped # "removed"}]])
  /\ works' = works \cup T

-----------------------------------------------------------------------------
Turns(x) == Taken(x) \/ (\E out \in {"done", "stopped"} : Settle(x, out)) \/ HostEnds(x)

People ==
  \/ \E w \in Workers : \/ \E p \in Members : LaunchWorker(w, p)
                        \/ MessageAgent(w)
                        \/ \E urgent \in Urgency : Report(w, urgent)
                        \/ StopAgent(w) \/ ResumeAgent(w) \/ RemoveAgent(w) \/ RestoreAgent(w)
  \/ \E x \in Members : PersonWrites(x)

Goes ==
  \/ \E x \in Members : Turns(x) \/ DeliverDigest(x)
  \/ \E w \in Workers : HideRemoved(w) \/ WindowOpens(w) \/ Purge(w)
  \/ Connect \/ Reconcile

Wrong ==
  \/ \E x \in Members : Settle(x, "failed")
  \/ \E S \in SUBSET Untaken(Here) : \E T \in SUBSET S : Disconnect(S, T)
  \/ \E T \in SUBSET Untaken(Here) : RelayRestarts(T)

Rejected == \E x \in relay.rejected : Settle(x, "failed")

Next == Rejected \/ (relay.rejected = {} /\ (People \/ Goes \/ Wrong))

Spec == Init /\ [][Next]_vars

(* The host comes back, agents end their turns and timers fire; nobody need  *)
(* ask for anything, and nothing need go wrong.                              *)
FairSpec == Spec /\ WF_vars(Rejected \/ (relay.rejected = {} /\ Goes))

-----------------------------------------------------------------------------
(* Properties.                                                               *)

(* The values the state takes. *)
Kinds == {"none", "message", "own", "digest", "follow"}
TypeOK ==
  /\ \A x \in Members :
       /\ room[x].life \in {"unborn", "member", "gone"} /\ room[x].parent \in Members \cup {NoOne}
       /\ room[x].stopped \in {"no", "stopped", "removed"}
       /\ room[x].queue \in Seq(0..MaxMessages) /\ room[x].outbox \subseteq Workers
       /\ room[x].report \in [at : Nat, urgent : BOOLEAN, synthetic : BOOLEAN]
       /\ relay.cur[x].kind \in Kinds
       /\ relay.sending[x].on => relay.cur[x].kind = "message" /\ relay.cur[x].msg = relay.sending[x].msg
       /\ relay.removals[x].ids \subseteq Workers
  /\ relay.digests \cup relay.failed \cup relay.timers \cup relay.rejected \cup works \subseteq Members
  /\ relay.purges \subseteq Workers

(* A report nobody was handed waits with an agent that will be: one that is  *)
(* there and not stopped, whatever was stopped, removed, restored or         *)
(* reported again meanwhile, and however its digest ended.                   *)
NoReportLost ==
  \A w \in Workers : Admitted(Here, w) /\ room[w].report.at > hist.told[w] =>
    \E x \in Above(Here, w) : Live(Here, x) /\ w \in room[x].outbox

(* Reports wait only for agents that are there and not stopped. *)
ReadersAreLive == \A x \in Members : room[x].outbox # {} => Live(Here, x)

(* A message waits in a queue until the host took that very message, refused *)
(* it while it was there, or the agent was stopped: never on account of an   *)
(* answer to another one, sent before a stop, nor while the host is away.    *)
(* And none that no longer waits leaves for the host.                        *)
QueuedUntilTaken ==
  /\ \A m \in Messages :
       /\ hist.fate[m] = "queued" <=> \E x \in Workers : m \in Range(room[x].queue)
       /\ hist.fate[m] \in {"taken", "refused"} => <<m, hist.fate[m]>> \in hist.own
  /\ hist.late = {}

(* Every queued message leaves its queue. *)
QueuesMove == \A m \in Messages : hist.fate[m] = "queued" ~> hist.fate[m] # "queued"

(* A digest that is due is handed over, or fails, while every agent was      *)
(* started by the principal itself.                                          *)
Flat == \A w \in Workers : room[w].parent \in {NoOne, Principal}
DueIsTold == (Flat /\ DigestDue(Here, Principal)) ~> (~Flat \/ ~DigestDue(Here, Principal))

(* As the code has it for every agent: once nothing under it is still        *)
(* running, the round is over and it is told.                                *)
RoundIsTold == \A x \in Members : DigestDue(Here, x) ~> ~DigestDue(Here, x)
=============================================================================
