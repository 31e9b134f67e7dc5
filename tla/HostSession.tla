---------------------------- MODULE HostSession ----------------------------
(***************************************************************************)
(* A session whose agent lives in the agent host                           *)
(* (relay/src/runtimes/hostSessionDriver.ts): how the relay writes a       *)
(* message to the agent, finds the agent's answer to it on the agent's     *)
(* log, and ends the turn, while the connection breaks, requests time out, *)
(* the relay or the host restarts, the person stops the turn or clears the *)
(* conversation.                                                           *)
(*                                                                         *)
(* The host is the one AgentHost describes, seen from this driver only: it *)
(* takes a message (`q`), writes it to the CLI when the agent is up (the   *)
(* log then shows it), and logs the end of each turn.  A record of the log *)
(* carries, for the properties only, the messages its turn answered.       *)
(* Turns come one at a time (SharedSession's turn queue).                  *)
(***************************************************************************)
EXTENDS Naturals, Sequences, FiniteSets, Functions

CONSTANTS
  MaxTurns,   \* bound: turns the session sends
  MaxFaults,  \* bound: things that go wrong, in all
  MaxClears,  \* bound: /clear
  Faults      \* what may go wrong

FaultKinds == {"conn", "timeout", "host", "relay", "crash", "refuse", "invalid", "background"}

ASSUME BoundsAssumption ==
  /\ MaxTurns \in Nat /\ MaxFaults \in Nat /\ MaxClears \in Nat
  /\ Faults \subseteq FaultKinds

VARIABLES
  turn,     \* this.turn and where its sendTurn stands
  sub,      \* the subscription: next record to be read, 0 when there is none
  cursor,   \* binding.cursors: record to read next, as kept on disk
  sid,      \* this.sessionId: the conversation, 0 when undefined
  reset,    \* this.resetPending
  call,     \* the send or spawn request sendTurn waits for
  up,       \* the connection to the host
  host,     \* the agent in the host
  log,      \* the agent's log
  news,     \* an agent_state event on its way: the agent is down
  used,     \* turns, clears and faults so far; whether to look for a turn to follow
  hist      \* history, for the properties

vars == <<turn, sub, cursor, sid, reset, call, up, host, log, news, used, hist>>

Turns == 1..MaxTurns
Stages == {"none", "connect", "remove", "ask", "call", "wait"}
Results == {"open", "done", "early", "failed", "stopped"}

NoTurn == [n |-> 0, stage |-> "none", tries |-> 0, started |-> FALSE, stop |-> FALSE,
           ask |-> FALSE, res |-> "open"]
NoCall == [kind |-> "none", st |-> "none"]
NoAgent == [st |-> "absent", q |-> <<>>, pend |-> {}, own |-> FALSE, conv |-> 0]

Messages(h) == Range(h.q) \cup h.pend            \* what the host still has to answer
Starting(h) == h.st \in {"new", "down"} /\ h.q # <<>>
Active == turn.stage # "none"
Follows == Active /\ turn.n = 0
Waiting == turn.stage = "wait"

(* The values the state takes. *)
TypeOK ==
  /\ turn \in [n : 0..MaxTurns, stage : Stages, tries : 0..2, started : BOOLEAN, stop : BOOLEAN,
               ask : BOOLEAN, res : Results]
  /\ sub \in 0..(Len(log) + 1) /\ cursor \in Nat /\ sid \in Nat
  /\ reset \in BOOLEAN /\ up \in BOOLEAN /\ news \in BOOLEAN
  /\ call \in [kind : {"none", "send", "spawn"}, st : {"none", "wire", "host", "ok", "unknown", "exists", "refused"}]
  /\ host \in [st : {"absent", "new", "down", "idle", "working"}, q : Seq(Turns), pend : SUBSET Turns,
               own : BOOLEAN, conv : Nat]
  /\ \A i \in 1..Len(log) : log[i] \in [k : {"message", "result", "invalid", "exited"}, of : SUBSET Turns]

Init ==
  /\ turn = NoTurn /\ sub = 0 /\ cursor = 0 /\ sid = 0 /\ reset = FALSE
  /\ call = NoCall /\ up = TRUE /\ host = NoAgent /\ log = <<>> /\ news = FALSE
  /\ used = [turns |-> 0, clears |-> 0, faults |-> 0, convs |-> 0, follow |-> FALSE]
  /\ hist = [out |-> [n \in Turns |-> "none"], left |-> {}, during |-> {}, unsent |-> {}, issued |-> {},
             late |-> {}, stale |-> {}, cleared |-> 0, since |-> [n \in Turns |-> 0], forgot |-> FALSE]

Fault(kind) ==
  /\ kind \in Faults /\ used.faults < MaxFaults
  /\ used' = [used EXCEPT !.faults = @ + 1]

-----------------------------------------------------------------------------
(* The ends of a turn.  Settling it lets sendTurn return once its request is *)
(* answered; a request that fails makes sendTurn throw whatever it settled.  *)

(* History of turn t ending as r: its message, or the records about it, may  *)
(* be still to come.                                                         *)
Unread == {i \in 1..Len(log) : i >= sub}
ToCome == Messages(host) \cup UNION {log[i].of : i \in Unread}
Ended(h, t, r) ==
  IF t.n = 0 THEN h
  ELSE [h EXCEPT !.out[t.n] = r,
                 !.left = IF r = "done" THEN @ ELSE @ \cup ({t.n} \cap ToCome)]

EndTurn(r) ==
  /\ turn' = NoTurn
  /\ call' = NoCall
  /\ hist' = Ended(hist, turn, r)

Settle(r) ==
  IF turn.res # "open" THEN UNCHANGED <<turn, call, hist>>
  ELSE IF Waiting THEN EndTurn(r)
  ELSE turn' = [turn EXCEPT !.res = r] /\ UNCHANGED <<call, hist>>

(* request(): on its way to the host. *)
Issue(kind, t) ==
  /\ turn' = [t EXCEPT !.stage = "call"]
  /\ call' = [kind |-> kind, st |-> "wire"]
  /\ hist' = [hist EXCEPT !.issued = @ \cup {t.n}]

-----------------------------------------------------------------------------
(* sendTurn and deliver, from await to await.                                *)

SendTurn ==
  /\ ~Active /\ used.turns < MaxTurns
  /\ LET n == used.turns + 1 IN
     /\ turn' = [NoTurn EXCEPT !.n = n, !.stage = "connect"]
     /\ used' = [used EXCEPT !.turns = n]
     /\ hist' = [hist EXCEPT !.since[n] = IF hist.forgot THEN 0 ELSE hist.cleared]
  /\ UNCHANGED <<sub, cursor, sid, reset, call, up, host, log, news>>

(* waitUntilConnected returns: a cleared conversation's agent is removed first. *)
MutConnected ==
  /\ turn.stage = "connect" /\ up
  /\ IF turn.stop THEN EndTurn("stopped")
     ELSE turn' = [turn EXCEPT !.stage = "ask"] /\ UNCHANGED <<call, hist>>
  /\ UNCHANGED <<sub, cursor, sid, reset, up, host, log, news, used>>
Connected ==
  /\ turn.stage = "connect" /\ up
  /\ sub' = IF reset THEN 0 ELSE sub
  /\ IF reset THEN turn' = [turn EXCEPT !.stage = "remove"] /\ UNCHANGED <<call, hist>>
     ELSE IF turn.stop THEN EndTurn("stopped")
     ELSE turn' = [turn EXCEPT !.stage = "ask"] /\ UNCHANGED <<call, hist>>
  /\ UNCHANGED <<cursor, sid, reset, up, host, log, news, used>>

NotConnected ==
  /\ turn.stage = "connect" /\ ~up
  /\ EndTurn("failed")
  /\ UNCHANGED <<sub, cursor, sid, reset, up, host, log, news, used>>

(* The agent and its log are gone from the host. *)
RemoveAgent == host' = NoAgent /\ log' = <<>>

Removed ==
  /\ turn.stage = "remove" /\ up
  /\ RemoveAgent
  /\ reset' = FALSE
  /\ IF turn.stop THEN EndTurn("stopped")
     ELSE turn' = [turn EXCEPT !.stage = "ask"] /\ UNCHANGED <<call, hist>>
  /\ UNCHANGED <<sub, cursor, sid, up, news, used>>

(* ensureSubscription: from the log's end, if the host has the agent.        *)
MutAsk ==
  /\ turn.stage = "ask" /\ up
  /\ LET known == sub # 0 \/ host.st # "absent" IN
     /\ sub' = IF sub # 0 \/ ~known THEN sub ELSE Len(log) + 1
     /\ Issue(IF known THEN "send" ELSE "spawn", turn)
  /\ UNCHANGED <<cursor, sid, reset, up, host, log, news, used>>
Ask ==
  /\ turn.stage = "ask" /\ up
  /\ LET known == sub # 0 \/ host.st # "absent" IN
     /\ sub' = IF sub # 0 \/ ~known THEN sub ELSE Len(log) + 1
     /\ IF turn.stop THEN EndTurn("stopped") ELSE Issue(IF known THEN "send" ELSE "spawn", turn)
  /\ UNCHANGED <<cursor, sid, reset, up, host, log, news, used>>

(* Where a just created agent's log is read from. *)
MutStartOfLog == Len(log) + 1
MutPastLog == Len(log) + 2
StartOfLog == 1

(* A spawn's answer names the conversation, if the agent has said it yet.    *)
Delivered ==
  /\ call.st = "ok"
  /\ sub' = IF call.kind = "spawn" THEN StartOfLog ELSE sub
  /\ \E id \in {sid} \cup {c \in {host.conv} \ {0} : call.kind = "spawn"} : sid' = id
  /\ IF turn.res # "open" THEN EndTurn(turn.res)
     ELSE turn' = [turn EXCEPT !.stage = "wait"] /\ call' = NoCall /\ UNCHANGED hist
  /\ UNCHANGED <<cursor, reset, up, host, log, news, used>>

(* A send to an agent the host does not have becomes a spawn; a spawn of an  *)
(* agent it already has, once, a send.                                       *)
Refused ==
  /\ call.st \in {"unknown", "exists", "refused"}
  /\ sub' = IF call.st = "unknown" THEN 0 ELSE sub
  /\ IF call.st = "refused" \/ (call.st = "exists" /\ turn.tries > 0) THEN EndTurn("failed")
     ELSE IF turn.stop THEN EndTurn("stopped")
     ELSE IF call.st = "unknown" THEN Issue("spawn", turn)
     ELSE /\ turn' = [turn EXCEPT !.stage = "ask", !.tries = @ + 1]
          /\ call' = NoCall /\ UNCHANGED hist
  /\ UNCHANGED <<cursor, sid, reset, up, host, log, news, used>>

TimesOut ==
  /\ Fault("timeout")
  /\ call.st = "host"
  /\ EndTurn("failed")
  /\ UNCHANGED <<sub, cursor, sid, reset, up, host, log, news>>

(* stop(), any number of times: asked of the host when it can be; else the   *)
(* turn ends here.  The history keeps a message stopped before its request   *)
(* left.                                                                     *)
Stop ==
  /\ Active /\ turn.res = "open"
  /\ IF up THEN /\ turn' = [turn EXCEPT !.stop = TRUE, !.ask = TRUE]
                /\ hist' = [hist EXCEPT !.unsent = @ \cup ({turn.n} \ (hist.issued \cup {0}))]
                /\ UNCHANGED call
     ELSE IF Waiting THEN EndTurn("stopped")
     ELSE turn' = [turn EXCEPT !.stop = TRUE, !.res = "stopped"] /\ UNCHANGED <<call, hist>>
  /\ UNCHANGED <<sub, cursor, sid, reset, up, host, log, news, used>>

(* The host's answer, read after the records sent before it: nothing is in   *)
(* flight there, and our message was not seen on the log.                    *)
Interrupted ==
  /\ turn.ask /\ up /\ call.st # "wire"
  /\ sub \in {0, Len(log) + 1}
  /\ IF host.st # "working" /\ ~turn.started /\ turn.res = "open" /\ Waiting
     THEN EndTurn("stopped")
     ELSE /\ turn' = [turn EXCEPT !.ask = FALSE,
                        !.res = IF host.st # "working" /\ ~turn.started /\ turn.res = "open"
                                THEN "stopped" ELSE @]
          /\ UNCHANGED <<call, hist>>
  /\ UNCHANGED <<sub, cursor, sid, reset, up, host, log, news, used>>

(* resetSessionId *)
Clear ==
  /\ ~Active /\ used.clears < MaxClears
  /\ used' = [used EXCEPT !.clears = @ + 1]
  /\ sid' = 0 /\ reset' = TRUE /\ sub' = 0
  /\ hist' = [hist EXCEPT !.cleared = used.convs, !.forgot = FALSE]
  /\ UNCHANGED <<turn, cursor, call, up, host, log, news>>

(* followTurnInFlight, when the agent works and the session is not busy: from *)
(* the log's end if the transcript was read, else from the last record       *)
(* processed.  A session without a conversation takes the one the host knows, *)
(* if it knows any yet; a Codex session takes it always.                     *)
Follow ==
  /\ ~Active /\ up
  /\ used.follow
  /\ host.st = "working" \/ Starting(host)
  /\ turn' = [NoTurn EXCEPT !.stage = "wait", !.started = TRUE]
  /\ \E at \in {Len(log) + 1} \cup {c \in {cursor} : c \in 1..(Len(log) + 1)} : sub' = at
  /\ sid' \in {sid, host.conv}
  /\ hist' = [hist EXCEPT !.forgot = @ \/ (reset /\ sid' # sid)]
  /\ used' = [used EXCEPT !.follow = FALSE]
  /\ UNCHANGED <<cursor, reset, call, up, host, log, news>>

(* The agent is said to be idle: a turn that was followed is over a second   *)
(* later, though its end was not read.                                       *)
FollowedIdle ==
  /\ Follows /\ up /\ host.st = "idle"
  /\ Settle("done")
  /\ UNCHANGED <<sub, cursor, sid, reset, up, host, log, news, used>>

-----------------------------------------------------------------------------
(* What the host sends.                                                      *)

(* onRecord: `started` once a message shows, then the first end of turn.     *)
MutNotices(t, r) == TRUE
Notices(t, r) == t.started

EndOf(t, r) ==
  CASE r.k = "result"  -> IF t.n \in r.of \cup {0} THEN "done" ELSE "early"
    [] r.k = "invalid" -> IF t.stop THEN "stopped" ELSE "failed"
    [] r.k = "exited"  -> IF t.stop THEN "stopped" ELSE IF t.n \in r.of \cup {0} THEN "failed" ELSE "early"

Read ==
  /\ up /\ sub \in 1..Len(log)
  /\ LET r == log[sub]
         ends == Active /\ turn.res = "open" /\ Notices(turn, r) /\ r.k # "message"
         invalid == ends /\ r.k = "invalid" /\ ~turn.stop
     IN
     /\ cursor' = sub + 1
     /\ sub' = IF invalid THEN 0 ELSE sub + 1
     /\ reset' = (reset \/ invalid)
     /\ sid' = IF invalid THEN 0 ELSE IF reset \/ r.k \in {"message", "exited"} THEN sid ELSE host.conv
     /\ IF ends THEN Settle(EndOf(turn, r))
        ELSE /\ turn' = [turn EXCEPT !.started = @ \/ (Active /\ @ = FALSE /\ turn.res = "open" /\ r.k = "message")]
             /\ UNCHANGED <<call, hist>>
  /\ UNCHANGED <<up, host, log, news, used>>

(* stream_closed: the agent was removed. *)
StreamClosed ==
  /\ up /\ sub # 0 /\ host.st = "absent"
  /\ sub' = 0
  /\ Settle("failed")
  /\ UNCHANGED <<cursor, sid, reset, up, host, log, news, used>>

(* onAgentState: the agent is stopped or failed. *)
AgentState ==
  /\ up /\ news
  /\ news' = FALSE
  /\ IF Active /\ turn.started /\ host.st = "down"
     THEN Settle(IF turn.stop THEN "stopped" ELSE "failed")
     ELSE UNCHANGED <<turn, call, hist>>
  /\ UNCHANGED <<sub, cursor, sid, reset, up, host, log, used>>

-----------------------------------------------------------------------------
(* The host.                                                                 *)

Reply(st) == call' = IF call.st = "host" THEN [call EXCEPT !.st = st] ELSE call

(* A spawn resumes the conversation it names, or begins a new one.           *)
HostTakes ==
  /\ call.st = "wire"
  /\ IF call.kind = "send"
     THEN /\ IF host.st = "absent"
             THEN call' = [call EXCEPT !.st = "unknown"] /\ UNCHANGED host
             ELSE call' = [call EXCEPT !.st = "host"] /\ host' = [host EXCEPT !.q = Append(@, turn.n)]
          /\ UNCHANGED <<log, used>>
     ELSE IF host.st # "absent"
          THEN call' = [call EXCEPT !.st = "exists"] /\ UNCHANGED <<host, log, used>>
          ELSE /\ call' = [call EXCEPT !.st = "host"]
               /\ used' = [used EXCEPT !.convs = IF sid = 0 THEN @ + 1 ELSE @]
               /\ host' = [NoAgent EXCEPT !.st = "new", !.q = <<turn.n>>,
                                          !.conv = IF sid = 0 THEN used.convs + 1 ELSE sid]
               /\ log' = <<>>
  /\ UNCHANGED <<turn, sub, cursor, sid, reset, up, news, hist>>

(* The agent is up (started first if need be) and is given the message.      *)
HostWrites ==
  /\ host.q # <<>>
  /\ LET m == Head(host.q) IN
     /\ host' = [host EXCEPT !.st = "working", !.q = Tail(@), !.pend = @ \cup {m}]
     /\ log' = Append(log, [k |-> "message", of |-> {m}])
     /\ IF turn.n = m THEN Reply("ok") ELSE UNCHANGED call
     /\ hist' = [hist EXCEPT
          !.during = IF host.st = "working" THEN @ \cup {m} ELSE @,
          !.late   = IF hist.out[m] = "stopped" \/ (turn.n = m /\ turn.res = "stopped") THEN @ \cup {m} ELSE @,
          !.stale  = IF host.conv <= hist.since[m] THEN @ \cup {m} ELSE @]
  /\ UNCHANGED <<turn, sub, cursor, sid, reset, up, news, used>>

(* The agent could not be started.  A spawn forgets it, whatever becomes of  *)
(* what waited behind.                                                       *)
HostRefuses ==
  /\ Fault("refuse")
  /\ Starting(host)
  /\ IF turn.n = Head(host.q) THEN Reply("refused")
     ELSE IF host.st = "new" /\ turn.n \in Messages(host) THEN \E st \in {"refused", "ok"} : Reply(st)
     ELSE UNCHANGED call
  /\ IF host.st = "new" THEN RemoveAgent
     ELSE host' = [host EXCEPT !.q = Tail(@)] /\ UNCHANGED log
  /\ news' = up
  /\ UNCHANGED <<turn, sub, cursor, sid, reset, up, hist>>

(* The end of the CLI's turn, for the messages it read in time: a result, or *)
(* the error that its conversation is not there.                             *)
HostEnds ==
  /\ host.st = "working"
  /\ \E of \in SUBSET host.pend : \E k \in {"result", "invalid"} :
       /\ of # {} \/ host.own
       /\ IF k = "invalid" THEN Fault("invalid") ELSE UNCHANGED used
       /\ log' = Append(log, [k |-> k, of |-> of])
       /\ host' = [host EXCEPT !.st = IF of = host.pend THEN "idle" ELSE "working",
                               !.pend = @ \ of, !.own = FALSE]
  /\ UNCHANGED <<turn, sub, cursor, sid, reset, call, up, news, hist>>

(* The CLI begins a turn of its own: a background task ended. *)
HostWorks ==
  /\ Fault("background")
  /\ host.st = "idle"
  /\ host' = [host EXCEPT !.st = "working", !.own = TRUE]
  /\ UNCHANGED <<turn, sub, cursor, sid, reset, call, up, log, news, hist>>

Gone(h) == [h EXCEPT !.st = "down", !.pend = {}, !.own = FALSE]
ProcessGone == log' = IF host.st \in {"idle", "working"} THEN Append(log, [k |-> "exited", of |-> host.pend]) ELSE log

HostExit ==
  /\ Fault("crash")
  /\ host.st \in {"idle", "working"}
  /\ ProcessGone
  /\ host' = Gone(host)
  /\ news' = up
  /\ UNCHANGED <<turn, sub, cursor, sid, reset, call, up, hist>>

-----------------------------------------------------------------------------
(* Faults between them.                                                      *)

(* Every request in flight is rejected, and the interrupt's rejection ends a *)
(* turn that waits.                                                          *)
Rejected ==
  IF turn.stage \in {"remove", "ask", "call"} THEN EndTurn("failed")
  ELSE IF turn.ask THEN IF Waiting THEN EndTurn("stopped")
                        ELSE turn' = [turn EXCEPT !.ask = FALSE, !.res = "stopped"] /\ UNCHANGED <<call, hist>>
  ELSE UNCHANGED <<turn, call, hist>>

(* The connection breaks; a remove may have reached the host. *)
ConnLost ==
  /\ Fault("conn")
  /\ up /\ up' = FALSE /\ news' = FALSE
  /\ Rejected
  /\ \/ UNCHANGED <<host, log>>
     \/ turn.stage = "remove" /\ RemoveAgent
  /\ UNCHANGED <<sub, cursor, sid, reset>>

(* The host dies and starts again: what waited in it is gone, a spawn that   *)
(* had not started is forgotten, and a process it ran is logged as lost.     *)
HostRestarts ==
  /\ Fault("host")
  /\ up' = FALSE /\ news' = FALSE
  /\ Rejected
  /\ IF host.st \in {"new", "absent"} THEN RemoveAgent
     ELSE host' = [Gone(host) EXCEPT !.q = <<>>] /\ ProcessGone
  /\ UNCHANGED <<sub, cursor, sid, reset>>

Reconnect ==
  /\ ~up /\ up' = TRUE
  /\ used' = [used EXCEPT !.follow = TRUE]
  /\ UNCHANGED <<turn, sub, cursor, sid, reset, call, host, log, news, hist>>

(* The relay dies and starts again: the session's id is kept, a pending      *)
(* reset is not, and it looks for a turn to follow.                          *)
RelayRestarts ==
  /\ Fault("relay")
  /\ turn' = NoTurn /\ call' = NoCall /\ sub' = 0 /\ reset' = FALSE /\ news' = FALSE /\ up' = FALSE
  /\ hist' = [Ended(hist, turn, "forgotten") EXCEPT !.forgot = @ \/ reset]
  /\ UNCHANGED <<cursor, sid, host, log>>

-----------------------------------------------------------------------------
Goes ==
  \/ Connected \/ NotConnected \/ Removed \/ Ask \/ Delivered \/ Refused
  \/ Read \/ StreamClosed \/ AgentState \/ FollowedIdle \/ Reconnect
Relay == Goes \/ Interrupted
Host == HostTakes \/ HostWrites \/ HostEnds
Person == SendTurn \/ Stop \/ Clear \/ Follow
Wrong == TimesOut \/ HostRefuses \/ HostWorks \/ HostExit \/ ConnLost \/ HostRestarts \/ RelayRestarts

Next == Relay \/ Host \/ Person \/ Wrong

Spec == Init /\ [][Next]_vars

(* Timers and the event loops make the relay and the host go on; the agent's *)
(* CLI ends its turns, however often the person stops one.  Nobody need send, *)
(* stop or clear, and nothing need go wrong.                                 *)
Fairness == WF_vars(Goes) /\ WF_vars(Interrupted) /\ WF_vars(HostTakes) /\ WF_vars(HostWrites) /\ WF_vars(HostEnds)
FairSpec == Spec /\ Fairness

-----------------------------------------------------------------------------
(* Properties.                                                               *)

(* A turn that ends on a record of other messages than its own was misled by *)
(* one of them: its message was folded into a turn already running, or an    *)
(* earlier turn had been given up while the host still had its message.      *)
EndsOnOwn ==
  \A n \in Turns : hist.out[n] = "early" =>
    n \in hist.during \/ \E m \in 1..(n - 1) : m \in hist.left

(* A turn stopped before its message was requested of the host never sends   *)
(* it, whichever wait the stop came in.                                      *)
StopBeforeSendHolds == hist.unsent \cap hist.issued = {}

(* No message sent after /clear reaches the conversation that was cleared,   *)
(* unless the reset had been forgotten when it was sent (a relay restart, or *)
(* a turn followed in between).                                              *)
ClearedIsGone == hist.stale = {}

(* Every turn the session sends comes to an end. *)
TurnsSettle == \A n \in Turns : (turn.n = n) ~> (turn.n # n)

(* As the code's comment has it: a turn stopped with nothing in flight in    *)
(* the host, its message not seen on the log, was not delivered.             *)
StoppedIsNotDelivered == hist.late = {}
=============================================================================
