-------------------------- MODULE HostSessionProofs --------------------------
(***************************************************************************)
(* Theorems about HostSession, for any number of turns, faults and clears. *)
(*                                                                         *)
(* Four invariants are stacked: the types of the state, with what places   *)
(* of sendTurn exclude each other (Typed); what a stop before the request  *)
(* left means (StopInv); whose conversation the host is in (ConvInv); and  *)
(* whose records the log still holds for the turn in flight (EndInv).      *)
(* Most steps do to the turn one of two things only, end it or leave it    *)
(* where it stands (Ends), which the lemmas on EndTurn, Settle and         *)
(* Rejected establish once.                                                *)
(***************************************************************************)
EXTENDS HostSession, TLAPS, SequenceTheorems

TurnType == [n : 0..MaxTurns, stage : Stages, tries : 0..2, started : BOOLEAN, stop : BOOLEAN,
             ask : BOOLEAN, res : Results]
CallType == [kind : {"none", "send", "spawn"},
             st : {"none", "wire", "host", "ok", "unknown", "exists", "refused"}]
HostType == [st : {"absent", "new", "down", "idle", "working"}, q : Seq(Turns), pend : SUBSET Turns,
             own : BOOLEAN, conv : Nat]
LogRecord == [k : {"message", "result", "invalid", "exited"}, of : SUBSET Turns]
UsedType == [turns : 0..MaxTurns, clears : Nat, faults : Nat, convs : Nat, follow : BOOLEAN]
HistType == [out : [Turns -> {"none", "forgotten"} \cup Results], left : SUBSET Turns,
             during : SUBSET Turns, unsent : SUBSET (0..MaxTurns), issued : SUBSET (0..MaxTurns),
             late : SUBSET Turns, stale : SUBSET Turns, cleared : Nat, since : [Turns -> Nat],
             forgot : BOOLEAN]

\* A turn has a number until it waits (one that is followed never does), a
\* request only while sendTurn waits for one, and no subscription while the
\* agent is being removed; a log is empty before its agent's first start.
Placed ==
  /\ turn.stage \notin {"none", "wait"} => turn.n # 0
  /\ turn.stage = "none" => turn.n = 0
  /\ call.st # "none" => turn.stage = "call"
  /\ turn.stage = "remove" => sub = 0
  /\ host.st \in {"absent", "new"} => log = <<>>

Typed ==
  /\ turn \in TurnType /\ call \in CallType /\ host \in HostType
  /\ log \in Seq(LogRecord) /\ used \in UsedType /\ hist \in HistType
  /\ sub \in 0..(Len(log) + 1) /\ cursor \in Nat /\ sid \in Nat
  /\ reset \in BOOLEAN /\ up \in BOOLEAN /\ news \in BOOLEAN
  /\ Placed

\* What the history says of stops and conversations does not change.
SameHist ==
  /\ hist' \in HistType
  /\ hist'.unsent = hist.unsent /\ hist'.issued = hist.issued /\ hist'.stale = hist.stale
  /\ hist'.cleared = hist.cleared /\ hist'.since = hist.since /\ hist'.forgot = hist.forgot

\* The turn is over, or stays where it is in sendTurn.
Over == turn' = NoTurn /\ call' = NoCall
Stays ==
  /\ turn' \in TurnType /\ turn'.n = turn.n /\ turn'.stage = turn.stage
  /\ turn.stop => turn'.stop
  /\ call' = call
Ends == SameHist /\ (Over \/ Stays)

-----------------------------------------------------------------------------
LEMMA NoTurnIs ==
  /\ NoTurn \in TurnType /\ NoTurn.n = 0 /\ NoTurn.stage = "none" /\ ~NoTurn.stop
  /\ NoCall \in CallType /\ NoCall.st = "none"
BY BoundsAssumption DEF NoTurn, NoCall, TurnType, CallType, Stages, Results

LEMMA EndedIs ==
  ASSUME Typed, NEW r \in {"forgotten"} \cup Results, hist' = Ended(hist, turn, r)
  PROVE  SameHist
<1>1. CASE turn.n = 0
  BY <1>1 DEF Ended, SameHist, Typed
<1>2. CASE turn.n # 0
  <2>1. turn.n \in Turns
    BY <1>2, BoundsAssumption DEF Typed, TurnType, Turns
  <2> DEFINE l == IF r = "done" THEN hist.left ELSE hist.left \cup ({turn.n} \cap ToCome)
             o == [hist.out EXCEPT ![turn.n] = r]
  <2>2. hist' = [hist EXCEPT !.out = o, !.left = l]
    BY <1>2 DEF Ended, Typed, HistType
  <2>3. l \in SUBSET Turns /\ o \in [Turns -> {"none", "forgotten"} \cup Results]
    BY <2>1 DEF Typed, HistType
  <2> HIDE DEF l, o
  <2> QED BY <2>2, <2>3 DEF SameHist, Typed, HistType
<1> QED BY <1>1, <1>2

LEMMA EndTurnEnds ==
  ASSUME Typed, NEW r \in Results, EndTurn(r)
  PROVE  SameHist /\ Over
BY EndedIs DEF EndTurn, Over

LEMMA UnchangedEnds ==
  ASSUME Typed, UNCHANGED <<turn, call, hist>>
  PROVE  Ends
BY DEF Typed, Ends, SameHist, Stays

LEMMA SettleEnds ==
  ASSUME Typed, NEW r \in Results, Settle(r)
  PROVE  Ends
<1>1. CASE turn.res # "open"
  BY <1>1, UnchangedEnds DEF Settle
<1>2. CASE turn.res = "open" /\ Waiting
  BY <1>2, EndTurnEnds DEF Settle, Ends
<1>3. CASE turn.res = "open" /\ ~Waiting
  <2>1. turn' = [turn EXCEPT !.res = r] /\ call' = call /\ hist' = hist
    BY <1>3 DEF Settle
  <2> QED BY <2>1 DEF Ends, SameHist, Stays, Typed, TurnType
<1> QED BY <1>1, <1>2, <1>3

LEMMA RejectedEnds ==
  ASSUME Typed, Rejected
  PROVE  Ends /\ (turn.stage \in {"remove", "ask", "call"} => Over)
<1>0. "failed" \in Results /\ "stopped" \in Results
  BY DEF Results
<1>1. CASE turn.stage \in {"remove", "ask", "call"}
  BY <1>0, <1>1, EndTurnEnds DEF Rejected, Ends
<1>2. CASE turn.stage \notin {"remove", "ask", "call"} /\ turn.ask /\ Waiting
  BY <1>0, <1>2, EndTurnEnds DEF Rejected, Ends
<1>3. CASE turn.stage \notin {"remove", "ask", "call"} /\ turn.ask /\ ~Waiting
  <2>1. turn' = [turn EXCEPT !.ask = FALSE, !.res = "stopped"] /\ call' = call /\ hist' = hist
    BY <1>3 DEF Rejected
  <2> QED BY <1>0, <1>3, <2>1 DEF Ends, SameHist, Stays, Typed, TurnType
<1>4. CASE turn.stage \notin {"remove", "ask", "call"} /\ ~turn.ask
  BY <1>4, UnchangedEnds DEF Rejected
<1> QED BY <1>1, <1>2, <1>3, <1>4

\* A request is issued, of a turn that keeps its number and its stop.
LEMMA IssueIs ==
  ASSUME Typed, NEW kind \in {"send", "spawn"}, Issue(kind, turn)
  PROVE  /\ turn' \in TurnType /\ call' \in CallType /\ hist' \in HistType
         /\ turn'.n = turn.n /\ turn'.stage = "call" /\ turn'.stop = turn.stop
         /\ hist'.issued = hist.issued \cup {turn.n} /\ hist'.unsent = hist.unsent
         /\ hist'.stale = hist.stale /\ hist'.cleared = hist.cleared
         /\ hist'.since = hist.since /\ hist'.forgot = hist.forgot
BY DEF Issue, Typed, TurnType, CallType, HistType, Stages

-----------------------------------------------------------------------------
(***************************************************************************)
(* Types.                                                                  *)
(***************************************************************************)
LEMMA FaultTyped ==
  ASSUME Typed, NEW kind, Fault(kind)
  PROVE  used' \in UsedType /\ used'.turns = used.turns /\ used'.convs = used.convs
BY DEF Fault, Typed, UsedType

\* A step that ends the turn or leaves it, and is typed in the rest.
LEMMA EndsTyped ==
  ASSUME Typed, Ends,
         host' \in HostType, log' \in Seq(LogRecord), used' \in UsedType,
         sub' \in 0..(Len(log') + 1), cursor' \in Nat, sid' \in Nat,
         reset' \in BOOLEAN, up' \in BOOLEAN, news' \in BOOLEAN,
         host'.st \in {"absent", "new"} => log' = <<>>,
         turn.stage = "remove" /\ sub' # 0 => Over
  PROVE  Typed'
<1>1. hist' \in HistType
  BY DEF Ends, SameHist
<1>2. CASE Over
  BY <1>1, <1>2, NoTurnIs DEF Over, Typed, Placed
<1>3. CASE Stays
  <2>1. /\ turn' \in TurnType /\ turn'.n = turn.n /\ turn'.stage = turn.stage /\ call' = call
    BY <1>3 DEF Stays
  <2>2. turn.stage = "remove" => sub' = 0
    BY <2>1, NoTurnIs DEF Over
  <2> QED BY <1>1, <2>1, <2>2 DEF Typed, Placed
<1> QED BY <1>2, <1>3 DEF Ends

LEMMA SendTurnTyped ==
  ASSUME Typed, SendTurn
  PROVE  Typed'
<1> DEFINE n == used.turns + 1
           since == IF hist.forgot THEN 0 ELSE hist.cleared
<1>1. /\ turn' = [NoTurn EXCEPT !.n = n, !.stage = "connect"]
      /\ used' = [used EXCEPT !.turns = n]
      /\ hist' = [hist EXCEPT !.since[n] = since]
      /\ UNCHANGED <<sub, cursor, sid, reset, call, up, host, log, news>>
      /\ turn.stage = "none" /\ used.turns < MaxTurns
  BY DEF SendTurn, Active
<1>2. n \in Turns /\ n \in 0..MaxTurns /\ n # 0 /\ since \in Nat
  BY <1>1, BoundsAssumption DEF Typed, UsedType, HistType, Turns
<1> HIDE DEF n, since
<1>3. turn' \in TurnType /\ turn'.n # 0 /\ turn'.stage = "connect"
  BY <1>1, <1>2, NoTurnIs DEF TurnType, Stages
<1>4. used' \in UsedType
  BY <1>1, <1>2 DEF Typed, UsedType
<1>5. hist' \in HistType
  BY <1>1, <1>2 DEF Typed, HistType
<1>6. call.st = "none"
  BY <1>1 DEF Typed, Placed
<1> QED BY <1>1, <1>3, <1>4, <1>5, <1>6 DEF Typed, Placed

LEMMA ConnectedTyped ==
  ASSUME Typed, Connected
  PROVE  Typed'
<1>1. /\ turn.stage = "connect"
      /\ sub' = IF reset THEN 0 ELSE sub
      /\ UNCHANGED <<cursor, sid, reset, up, host, log, news, used>>
  BY DEF Connected
<1>2. turn.n # 0 /\ call.st = "none" /\ sub' \in 0..(Len(log) + 1)
  BY <1>1 DEF Typed, Placed
<1>3. CASE reset
  <2>1. turn' = [turn EXCEPT !.stage = "remove"] /\ UNCHANGED <<call, hist>>
    BY <1>3 DEF Connected
  <2>2. turn' \in TurnType /\ turn'.n = turn.n /\ turn'.stage = "remove"
    BY <2>1 DEF Typed, TurnType, Stages
  <2> QED BY <1>1, <1>2, <1>3, <2>1, <2>2 DEF Typed, Placed
<1>4. CASE ~reset /\ turn.stop
  <2>1. EndTurn("stopped")
    BY <1>4 DEF Connected
  <2>2. Ends
    BY <2>1, EndTurnEnds DEF Ends, Results
  <2> QED BY <1>1, <1>2, <2>2, EndsTyped DEF Typed, Placed
<1>5. CASE ~reset /\ ~turn.stop
  <2>1. turn' = [turn EXCEPT !.stage = "ask"] /\ UNCHANGED <<call, hist>>
    BY <1>5 DEF Connected
  <2>2. turn' \in TurnType /\ turn'.n = turn.n /\ turn'.stage = "ask"
    BY <2>1 DEF Typed, TurnType, Stages
  <2> QED BY <1>1, <1>2, <2>1, <2>2 DEF Typed, Placed
<1> QED BY <1>3, <1>4, <1>5 DEF Typed

LEMMA NotConnectedTyped ==
  ASSUME Typed, NotConnected
  PROVE  Typed'
<1>1. EndTurn("failed") /\ turn.stage = "connect"
      /\ UNCHANGED <<sub, cursor, sid, reset, up, host, log, news, used>>
  BY DEF NotConnected
<1>2. Ends
  BY <1>1, EndTurnEnds DEF Ends, Results
<1> QED BY <1>1, <1>2, EndsTyped DEF Typed, Placed

LEMMA NoAgentIs ==
  /\ NoAgent \in HostType /\ NoAgent.st = "absent" /\ NoAgent.q = <<>> /\ NoAgent.conv = 0
  /\ <<>> \in Seq(LogRecord) /\ Len(<<>>) = 0
<1>1. <<>> \in Seq(Turns) /\ <<>> \in Seq(LogRecord) /\ Len(<<>>) = 0
  BY EmptySeq
<1> QED BY <1>1 DEF NoAgent, HostType

LEMMA RemovedTyped ==
  ASSUME Typed, Removed
  PROVE  Typed'
<1>1. /\ turn.stage = "remove" /\ host' = NoAgent /\ log' = <<>> /\ reset' = FALSE
      /\ UNCHANGED <<sub, cursor, sid, up, news, used>>
  BY DEF Removed, RemoveAgent
<1>2. /\ turn.n # 0 /\ call.st = "none" /\ sub = 0
      /\ host' \in HostType /\ log' \in Seq(LogRecord) /\ sub' = 0 /\ sub' \in 0..(Len(log') + 1)
  BY <1>1, NoAgentIs DEF Typed, Placed
<1>3. CASE turn.stop
  <2>1. EndTurn("stopped")
    BY <1>3 DEF Removed
  <2>2. Ends
    BY <2>1, EndTurnEnds DEF Ends, Results
  <2> QED BY <1>1, <1>2, <2>2, EndsTyped DEF Typed
<1>4. CASE ~turn.stop
  <2>1. turn' = [turn EXCEPT !.stage = "ask"] /\ UNCHANGED <<call, hist>>
    BY <1>4 DEF Removed
  <2>2. turn' \in TurnType /\ turn'.n = turn.n /\ turn'.stage = "ask"
    BY <2>1 DEF Typed, TurnType, Stages
  <2> QED BY <1>1, <1>2, <2>1, <2>2 DEF Typed, Placed
<1> QED BY <1>3, <1>4

LEMMA AskTyped ==
  ASSUME Typed, Ask
  PROVE  Typed'
<1> DEFINE known == sub # 0 \/ host.st # "absent"
<1>1. /\ turn.stage = "ask"
      /\ sub' = IF sub # 0 \/ ~known THEN sub ELSE Len(log) + 1
      /\ UNCHANGED <<cursor, sid, reset, up, host, log, news, used>>
  BY DEF Ask
<1>2. turn.n # 0 /\ call.st = "none" /\ sub' \in 0..(Len(log) + 1)
  BY <1>1 DEF Typed, Placed
<1>3. CASE turn.stop
  <2>1. EndTurn("stopped")
    BY <1>3 DEF Ask
  <2>2. Ends
    BY <2>1, EndTurnEnds DEF Ends, Results
  <2> QED BY <1>1, <1>2, <2>2, EndsTyped DEF Typed, Placed
<1>4. CASE ~turn.stop
  <2>1. PICK kind \in {"send", "spawn"} : Issue(kind, turn)
    BY <1>4 DEF Ask
  <2>2. turn' \in TurnType /\ call' \in CallType /\ hist' \in HistType
        /\ turn'.n = turn.n /\ turn'.stage = "call"
    BY <2>1, IssueIs
  <2> QED BY <1>1, <1>2, <2>2 DEF Typed, Placed
<1> QED BY <1>3, <1>4

LEMMA DeliveredTyped ==
  ASSUME Typed, Delivered
  PROVE  Typed'
<1>1. /\ call.st = "ok"
      /\ sub' = IF call.kind = "spawn" THEN 1 ELSE sub
      /\ UNCHANGED <<cursor, reset, up, host, log, news, used>>
      /\ sid' \in {sid, host.conv}
  BY DEF Delivered, StartOfLog
<1>2. turn.stage = "call" /\ sub' \in 0..(Len(log) + 1) /\ sid' \in Nat
  BY <1>1 DEF Typed, Placed, HostType
<1>3. CASE turn.res # "open"
  <2>1. EndTurn(turn.res) /\ turn.res \in Results
    BY <1>3 DEF Delivered, Typed, TurnType
  <2>2. Ends
    BY <2>1, EndTurnEnds DEF Ends
  <2> QED BY <1>1, <1>2, <2>2, EndsTyped DEF Typed, Placed
<1>4. CASE turn.res = "open"
  <2>1. turn' = [turn EXCEPT !.stage = "wait"] /\ call' = NoCall /\ hist' = hist
    BY <1>4 DEF Delivered
  <2>2. turn' \in TurnType /\ turn'.stage = "wait"
    BY <2>1 DEF Typed, TurnType, Stages
  <2> QED BY <1>1, <1>2, <2>1, <2>2, NoTurnIs DEF Typed, Placed
<1> QED BY <1>3, <1>4

LEMMA RefusedTyped ==
  ASSUME Typed, Refused
  PROVE  Typed'
<1>1. /\ call.st \in {"unknown", "exists", "refused"}
      /\ sub' = IF call.st = "unknown" THEN 0 ELSE sub
      /\ UNCHANGED <<cursor, sid, reset, up, host, log, news, used>>
  BY DEF Refused
<1>2. turn.stage = "call" /\ turn.n # 0 /\ sub' \in 0..(Len(log) + 1)
  BY <1>1 DEF Typed, Placed
<1>3. CASE EndTurn("failed") \/ EndTurn("stopped")
  <2>2. Ends
    BY <1>3, EndTurnEnds DEF Ends, Results
  <2> QED BY <1>1, <1>2, <2>2, EndsTyped DEF Typed, Placed
<1>4. CASE Issue("spawn", turn)
  <2>2. turn' \in TurnType /\ call' \in CallType /\ hist' \in HistType
        /\ turn'.n = turn.n /\ turn'.stage = "call"
    BY <1>4, IssueIs
  <2> QED BY <1>1, <1>2, <2>2 DEF Typed, Placed
<1>5. CASE /\ turn' = [turn EXCEPT !.stage = "ask", !.tries = @ + 1] /\ turn.tries = 0
           /\ call' = NoCall /\ hist' = hist
  <2>1. turn' = [turn EXCEPT !.stage = "ask", !.tries = 1]
    BY <1>5 DEF Typed, TurnType
  <2>2. turn' \in TurnType /\ turn'.n = turn.n /\ turn'.stage = "ask"
    <3>1. "ask" \in Stages /\ 1 \in 0..2
      BY DEF Stages
    <3> QED BY <2>1, <3>1 DEF Typed, TurnType
  <2>3. call' \in CallType /\ call'.st = "none" /\ hist' \in HistType
    BY <1>5, NoTurnIs DEF Typed
  <2> QED BY <1>1, <1>2, <2>2, <2>3 DEF Typed, Placed
<1> QED BY <1>1, <1>3, <1>4, <1>5 DEF Refused, Typed, TurnType

LEMMA TimesOutTyped ==
  ASSUME Typed, TimesOut
  PROVE  Typed'
<1>1. EndTurn("failed") /\ Fault("timeout") /\ UNCHANGED <<sub, cursor, sid, reset, up, host, log, news>>
  BY DEF TimesOut
<1>2. Ends /\ Over /\ used' \in UsedType
  BY <1>1, EndTurnEnds, FaultTyped DEF Ends, Results
<1> QED BY <1>1, <1>2, EndsTyped DEF Typed, Placed

LEMMA StopTyped ==
  ASSUME Typed, Stop
  PROVE  Typed'
<1>1. UNCHANGED <<sub, cursor, sid, reset, up, host, log, news, used>> /\ turn.stage # "none"
  BY DEF Stop, Active
<1>2. CASE up
  <2>1. /\ turn' = [turn EXCEPT !.stop = TRUE, !.ask = TRUE] /\ call' = call
        /\ hist' = [hist EXCEPT !.unsent = @ \cup ({turn.n} \ (hist.issued \cup {0}))]
    BY <1>2 DEF Stop
  <2>2. turn' \in TurnType /\ turn'.n = turn.n /\ turn'.stage = turn.stage
    BY <2>1 DEF Typed, TurnType
  <2>3. hist' \in HistType
    BY <2>1 DEF Typed, TurnType, HistType
  <2> QED BY <1>1, <2>1, <2>2, <2>3 DEF Typed, Placed
<1>3. CASE ~up /\ Waiting
  <2>1. Ends
    BY <1>3, EndTurnEnds DEF Stop, Ends, Results
  <2> QED BY <1>1, <2>1, EndsTyped DEF Typed, Placed
<1>4. CASE ~up /\ ~Waiting
  <2>1. turn' = [turn EXCEPT !.stop = TRUE, !.res = "stopped"] /\ UNCHANGED <<call, hist>>
    BY <1>4 DEF Stop
  <2>2. turn' \in TurnType /\ turn'.n = turn.n /\ turn'.stage = turn.stage
    BY <2>1 DEF Typed, TurnType, Results
  <2> QED BY <1>1, <2>1, <2>2 DEF Typed, Placed
<1> QED BY <1>2, <1>3, <1>4 DEF Typed

LEMMA InterruptedEnds ==
  ASSUME Typed, Interrupted
  PROVE  Ends
<1> DEFINE idle == host.st # "working" /\ ~turn.started /\ turn.res = "open"
<1>1. CASE idle /\ Waiting
  BY <1>1, EndTurnEnds DEF Interrupted, Ends, Results
<1>2. CASE ~(idle /\ Waiting)
  <2>1. /\ turn' = [turn EXCEPT !.ask = FALSE, !.res = IF idle THEN "stopped" ELSE @]
        /\ UNCHANGED <<call, hist>>
    BY <1>2 DEF Interrupted
  <2> QED BY <2>1 DEF Ends, SameHist, Stays, Typed, TurnType, Results
<1> QED BY <1>1, <1>2

LEMMA InterruptedTyped ==
  ASSUME Typed, Interrupted
  PROVE  Typed'
<1>1. UNCHANGED <<sub, cursor, sid, reset, up, host, log, news, used>>
  BY DEF Interrupted
<1> QED BY <1>1, InterruptedEnds, EndsTyped DEF Typed, Placed

LEMMA ClearTyped ==
  ASSUME Typed, Clear
  PROVE  Typed'
<1>1. /\ used' = [used EXCEPT !.clears = @ + 1]
      /\ sid' = 0 /\ reset' = TRUE /\ sub' = 0
      /\ hist' = [hist EXCEPT !.cleared = used.convs, !.forgot = FALSE]
      /\ UNCHANGED <<turn, cursor, call, up, host, log, news>>
  BY DEF Clear
<1>2. used' \in UsedType /\ hist' \in HistType
  <2>1. used.clears + 1 \in Nat /\ used.convs \in Nat /\ used' = [used EXCEPT !.clears = used.clears + 1]
    BY <1>1 DEF Typed, UsedType
  <2>2. used' \in UsedType
    BY <2>1 DEF Typed, UsedType
  <2>3. hist' \in HistType
    BY <1>1, <2>1 DEF Typed, HistType
  <2> QED BY <2>2, <2>3
<1>3. sub' \in 0..(Len(log) + 1) /\ sid' \in Nat /\ reset' \in BOOLEAN
  BY <1>1 DEF Typed
<1> QED BY <1>1, <1>2, <1>3 DEF Typed, Placed

LEMMA FollowTyped ==
  ASSUME Typed, Follow
  PROVE  Typed'
<1>1. /\ turn' = [NoTurn EXCEPT !.stage = "wait", !.started = TRUE]
      /\ sid' \in {sid, host.conv}
      /\ hist' = [hist EXCEPT !.forgot = @ \/ (reset /\ sid' # sid)]
      /\ used' = [used EXCEPT !.follow = FALSE]
      /\ UNCHANGED <<cursor, reset, call, up, host, log, news>>
      /\ sub' \in 0..(Len(log) + 1) /\ turn.stage = "none"
  BY DEF Follow, Active, Typed
<1>2. turn' \in TurnType /\ turn'.n = 0 /\ turn'.stage = "wait" /\ call'.st = "none"
  BY <1>1, NoTurnIs DEF TurnType, Stages, Typed, Placed
<1>3. used' \in UsedType /\ hist' \in HistType /\ sid' \in Nat
  BY <1>1 DEF Typed, UsedType, HistType, HostType
<1> QED BY <1>1, <1>2, <1>3 DEF Typed, Placed

LEMMA ReadIs ==
  ASSUME Typed, Read
  PROVE  /\ Ends /\ sub \in 1..Len(log)
         /\ cursor' = sub + 1 /\ sub' \in {0, sub + 1} /\ reset' \in BOOLEAN
         /\ reset => reset'
         /\ reset' => sid' = 0 \/ (reset /\ sid' = sid)
         /\ sid' \in {0, sid, host.conv}
         /\ UNCHANGED <<up, host, log, news, used>>
<1> DEFINE r == log[sub]
           ends == Active /\ turn.res = "open" /\ Notices(turn, r) /\ r.k # "message"
           invalid == ends /\ r.k = "invalid" /\ ~turn.stop
<1>1. sub \in 1..Len(log) /\ r \in LogRecord
  BY DEF Read, Typed
<1>2. /\ cursor' = sub + 1
      /\ sub' = IF invalid THEN 0 ELSE sub + 1
      /\ reset' = (reset \/ invalid)
      /\ sid' = IF invalid THEN 0 ELSE IF reset \/ r.k \in {"message", "exited"} THEN sid ELSE host.conv
      /\ UNCHANGED <<up, host, log, news, used>>
  BY DEF Read
<1>3. Ends
  <2>1. CASE ends
    <3>1. EndOf(turn, r) \in Results
      BY <1>1, <2>1 DEF EndOf, Results, LogRecord
    <3>2. Settle(EndOf(turn, r))
      BY <2>1 DEF Read
    <3> HIDE DEF r
    <3> QED BY <3>1, <3>2, SettleEnds
  <2>2. CASE ~ends
    <3>1. /\ turn' = [turn EXCEPT !.started = @ \/ (Active /\ @ = FALSE /\ turn.res = "open" /\ r.k = "message")]
          /\ UNCHANGED <<call, hist>>
      BY <2>2 DEF Read
    <3> QED BY <3>1 DEF Ends, SameHist, Stays, Typed, TurnType
  <2> QED BY <2>1, <2>2
<1> HIDE DEF invalid
<1> QED BY <1>1, <1>2, <1>3 DEF Typed

LEMMA ReadTyped ==
  ASSUME Typed, Read
  PROVE  Typed'
<1>1. /\ cursor' \in Nat /\ sid' \in Nat /\ sub' \in 0..(Len(log') + 1) /\ turn.stage # "remove"
  BY ReadIs DEF Typed, Placed, HostType
<1> QED BY <1>1, ReadIs, EndsTyped DEF Typed, Placed

LEMMA StreamClosedTyped ==
  ASSUME Typed, StreamClosed
  PROVE  Typed'
<1>1. sub' = 0 /\ UNCHANGED <<cursor, sid, reset, up, host, log, news, used>> /\ Ends
  BY SettleEnds DEF StreamClosed, Results
<1> QED BY <1>1, EndsTyped DEF Typed, Placed

LEMMA FollowedIdleTyped ==
  ASSUME Typed, FollowedIdle
  PROVE  Typed'
<1>1. UNCHANGED <<sub, cursor, sid, reset, up, host, log, news, used>> /\ Ends
  BY SettleEnds DEF FollowedIdle, Results
<1> QED BY <1>1, EndsTyped DEF Typed, Placed

LEMMA AgentStateEnds ==
  ASSUME Typed, AgentState
  PROVE  Ends
<1>1. "failed" \in Results /\ "stopped" \in Results
  BY DEF Results
<1> QED BY <1>1, SettleEnds, UnchangedEnds DEF AgentState

LEMMA AgentStateTyped ==
  ASSUME Typed, AgentState
  PROVE  Typed'
<1>1. news' = FALSE /\ UNCHANGED <<sub, cursor, sid, reset, up, host, log, used>>
  BY DEF AgentState
<1> QED BY <1>1, AgentStateEnds, EndsTyped DEF Typed, Placed

-----------------------------------------------------------------------------
(* The host's steps.                                                         *)
LEMMA ReplyTyped ==
  ASSUME Typed, NEW st \in {"ok", "unknown", "exists", "refused"}, Reply(st)
  PROVE  call' \in CallType /\ (call'.st # "none" => call.st # "none")
BY DEF Reply, Typed, CallType

\* A step of the host leaves sendTurn where it stands.
LEMMA HostStepTyped ==
  ASSUME Typed, UNCHANGED <<turn, sub, cursor, sid, reset, up>>,
         call' \in CallType, call'.st # "none" => call.st # "none",
         host' \in HostType, log' \in Seq(LogRecord), Len(log) <= Len(log') \/ log = <<>>,
         host'.st \in {"absent", "new"} => log' = <<>>,
         used' \in UsedType, hist' \in HistType, news' \in BOOLEAN
  PROVE  Typed'
<1>1. sub' \in 0..(Len(log') + 1)
  <2>1. Len(log') \in Nat /\ Len(log) \in Nat /\ (log = <<>> => Len(log) = 0)
    BY LenProperties, NoAgentIs DEF Typed
  <2> QED BY <2>1 DEF Typed
<1> QED BY <1>1 DEF Typed, Placed

\* One record more on the log.
LEMMA LogGrows ==
  ASSUME Typed, NEW r \in LogRecord, log' = Append(log, r)
  PROVE  log' \in Seq(LogRecord) /\ Len(log') = Len(log) + 1 /\ Len(log) <= Len(log')
BY LenProperties, AppendProperties DEF Typed

LEMMA HostTakesTyped ==
  ASSUME Typed, HostTakes
  PROVE  Typed'
<1>1. call.st = "wire" /\ UNCHANGED <<turn, sub, cursor, sid, reset, up, news, hist>>
  BY DEF HostTakes
<1>2. turn.n \in Turns
  BY <1>1, BoundsAssumption DEF Typed, TurnType, Placed, Turns
<1>3. call' \in CallType
  BY DEF HostTakes, Typed, CallType
<1>4. CASE call.kind = "send" /\ host.st = "absent"
  BY <1>1, <1>3, <1>4, HostStepTyped DEF HostTakes, Typed, Placed
<1>5. CASE call.kind = "send" /\ host.st # "absent"
  <2>1. host' = [host EXCEPT !.q = Append(@, turn.n)] /\ UNCHANGED <<log, used>>
    BY <1>5 DEF HostTakes
  <2>2. host' \in HostType /\ host'.st = host.st
    <3>1. Append(host.q, turn.n) \in Seq(Turns)
      BY <1>2, AppendProperties DEF Typed, HostType
    <3> QED BY <2>1, <3>1 DEF Typed, HostType
  <2> QED BY <1>1, <1>3, <2>1, <2>2, HostStepTyped DEF Typed, Placed
<1>6. CASE call.kind # "send" /\ host.st # "absent"
  BY <1>1, <1>3, <1>6, HostStepTyped DEF HostTakes, Typed, Placed
<1>7. CASE call.kind # "send" /\ host.st = "absent"
  <2> DEFINE conv == IF sid = 0 THEN used.convs + 1 ELSE sid
  <2>1. /\ used' = [used EXCEPT !.convs = IF sid = 0 THEN @ + 1 ELSE @]
        /\ host' = [NoAgent EXCEPT !.st = "new", !.q = <<turn.n>>, !.conv = conv]
        /\ log' = <<>> /\ log = <<>>
    BY <1>7 DEF HostTakes, Typed, Placed
  <2>2. used' \in UsedType /\ conv \in Nat
    BY <2>1 DEF Typed, UsedType
  <2>3. host' \in HostType
    <3>1. <<turn.n>> \in Seq(Turns)
      BY <1>2
    <3> HIDE DEF conv
    <3> QED BY <2>1, <2>2, <3>1, NoAgentIs DEF HostType
  <2> QED BY <1>1, <1>3, <2>1, <2>2, <2>3, HostStepTyped, NoAgentIs DEF Typed
<1> QED BY <1>4, <1>5, <1>6, <1>7

LEMMA HostWritesTyped ==
  ASSUME Typed, HostWrites
  PROVE  Typed'
<1> DEFINE m == Head(host.q)
           r == [k |-> "message", of |-> {m}]
<1>1. m \in Turns /\ Tail(host.q) \in Seq(Turns)
  BY HeadTailProperties DEF HostWrites, Typed, HostType
<1>2. /\ host' = [host EXCEPT !.st = "working", !.q = Tail(@), !.pend = @ \cup {m}]
      /\ log' = Append(log, r)
      /\ UNCHANGED <<turn, sub, cursor, sid, reset, up, news, used>>
  BY DEF HostWrites
<1>3. call' \in CallType /\ (call'.st # "none" => call.st # "none")
  BY ReplyTyped DEF HostWrites, Typed
<1>4. hist' \in HistType
  <2>1. PICK d \in {hist.during, hist.during \cup {m}}, l \in {hist.late, hist.late \cup {m}},
             s \in {hist.stale, hist.stale \cup {m}} :
          hist' = [hist EXCEPT !.during = d, !.late = l, !.stale = s]
    BY DEF HostWrites
  <2> HIDE DEF m
  <2> QED BY <1>1, <2>1 DEF Typed, HistType
<1>5. host' \in HostType /\ host'.st = "working"
  <2> HIDE DEF m
  <2> QED BY <1>1, <1>2 DEF Typed, HostType
<1>6. r \in LogRecord
  BY <1>1 DEF LogRecord
<1> HIDE DEF r
<1>7. log' \in Seq(LogRecord) /\ Len(log) <= Len(log')
  BY <1>2, <1>6, LogGrows
<1>8. used' \in UsedType /\ news' \in BOOLEAN
  BY <1>2 DEF Typed
<1> QED BY <1>2, <1>3, <1>4, <1>5, <1>7, <1>8, HostStepTyped

LEMMA HostRefusesTyped ==
  ASSUME Typed, HostRefuses
  PROVE  Typed'
<1>1. /\ Starting(host) /\ Fault("refuse") /\ news' = up
      /\ UNCHANGED <<turn, sub, cursor, sid, reset, up, hist>>
  BY DEF HostRefuses
<1>2. used' \in UsedType /\ news' \in BOOLEAN /\ hist' \in HistType
  BY <1>1, FaultTyped DEF Typed
<1>3. call' \in CallType /\ (call'.st # "none" => call.st # "none")
  BY ReplyTyped DEF HostRefuses, Typed
<1>4. CASE host.st = "new"
  <2>1. host' \in HostType /\ log' = <<>> /\ log = <<>> /\ log' \in Seq(LogRecord)
    BY <1>4, NoAgentIs DEF HostRefuses, RemoveAgent, Typed, Placed
  <2> QED BY <1>1, <1>2, <1>3, <2>1, HostStepTyped
<1>5. CASE host.st # "new"
  <2>1. host' = [host EXCEPT !.q = Tail(@)] /\ log' = log /\ host.q # <<>> /\ host.st = "down"
    BY <1>1, <1>5 DEF HostRefuses, Starting
  <2>2. Tail(host.q) \in Seq(Turns)
    BY <2>1, HeadTailProperties DEF Typed, HostType
  <2>3. host' \in HostType /\ host'.st = "down"
    BY <2>1, <2>2 DEF Typed, HostType
  <2>4. log' \in Seq(LogRecord) /\ Len(log) <= Len(log')
    BY <2>1, LenProperties DEF Typed
  <2> QED BY <1>1, <1>2, <1>3, <2>3, <2>4, HostStepTyped
<1> QED BY <1>4, <1>5

LEMMA HostEndsIs ==
  ASSUME Typed, HostEnds
  PROVE  /\ UNCHANGED <<turn, sub, cursor, sid, reset, call, up, news, hist>>
         /\ used' \in UsedType /\ used'.turns = used.turns /\ used'.convs = used.convs
         /\ host.st = "working"
         /\ \E of \in SUBSET host.pend, k \in {"result", "invalid"} :
              /\ of # {} \/ host.own
              /\ log' = Append(log, [k |-> k, of |-> of])
              /\ host' = [host EXCEPT !.st = IF of = host.pend THEN "idle" ELSE "working",
                                      !.pend = @ \ of, !.own = FALSE]
<1>1. used' = used \/ Fault("invalid")
  BY DEF HostEnds
<1>2. used' \in UsedType /\ used'.turns = used.turns /\ used'.convs = used.convs
  BY <1>1, FaultTyped DEF Typed
<1> QED BY <1>2 DEF HostEnds

LEMMA HostEndsTyped ==
  ASSUME Typed, HostEnds
  PROVE  Typed'
<1>1. /\ UNCHANGED <<turn, sub, cursor, sid, reset, call, up, news, hist>>
      /\ used' \in UsedType
  BY HostEndsIs
<1>2. PICK of \in SUBSET host.pend, k \in {"result", "invalid"} :
        /\ log' = Append(log, [k |-> k, of |-> of])
        /\ host' = [host EXCEPT !.st = IF of = host.pend THEN "idle" ELSE "working",
                                !.pend = @ \ of, !.own = FALSE]
  BY HostEndsIs
<1>3. [k |-> k, of |-> of] \in LogRecord
  BY DEF LogRecord, Typed, HostType
<1>4. host' \in HostType /\ host'.st \in {"idle", "working"}
  BY <1>2 DEF Typed, HostType
<1>5. log' \in Seq(LogRecord) /\ Len(log) <= Len(log')
  BY <1>2, <1>3, LogGrows
<1> QED BY <1>1, <1>4, <1>5, HostStepTyped DEF Typed

LEMMA HostWorksTyped ==
  ASSUME Typed, HostWorks
  PROVE  Typed'
<1>1. /\ UNCHANGED <<turn, sub, cursor, sid, reset, call, up, log, news, hist>>
      /\ host' = [host EXCEPT !.st = "working", !.own = TRUE] /\ Fault("background")
  BY DEF HostWorks
<1>2. host' \in HostType /\ host'.st = "working" /\ used' \in UsedType
  BY <1>1, FaultTyped DEF Typed, HostType
<1> QED BY <1>1, <1>2 DEF Typed, Placed

\* The process of an agent is gone: it is down, and its log keeps its records.
LEMMA GoneTyped ==
  ASSUME Typed
  PROVE  /\ Gone(host) \in HostType /\ Gone(host).st = "down"
         /\ Gone(host).q = host.q /\ Gone(host).conv = host.conv
BY DEF Gone, Typed, HostType

LEMMA ProcessGoneTyped ==
  ASSUME Typed, ProcessGone
  PROVE  log' \in Seq(LogRecord) /\ Len(log) <= Len(log')
<1>1. [k |-> "exited", of |-> host.pend] \in LogRecord
  BY DEF LogRecord, Typed, HostType
<1>2. CASE host.st \in {"idle", "working"}
  BY <1>1, <1>2, LogGrows DEF ProcessGone
<1>3. CASE host.st \notin {"idle", "working"}
  BY <1>3, LenProperties DEF ProcessGone, Typed
<1> QED BY <1>2, <1>3

LEMMA HostExitTyped ==
  ASSUME Typed, HostExit
  PROVE  Typed'
<1>1. /\ ProcessGone /\ host' = Gone(host) /\ news' = up /\ Fault("crash")
      /\ UNCHANGED <<turn, sub, cursor, sid, reset, call, up, hist>>
  BY DEF HostExit
<1>2. used' \in UsedType /\ news' \in BOOLEAN
  BY <1>1, FaultTyped DEF Typed
<1> QED BY <1>1, <1>2, GoneTyped, ProcessGoneTyped, HostStepTyped DEF Typed

-----------------------------------------------------------------------------
(* The faults between relay and host.                                        *)
LEMMA ConnLostTyped ==
  ASSUME Typed, ConnLost
  PROVE  Typed'
<1>1. /\ Fault("conn") /\ up' = FALSE /\ news' = FALSE /\ Rejected
      /\ UNCHANGED <<sub, cursor, sid, reset>>
  BY DEF ConnLost
<1>2. Ends /\ (turn.stage = "remove" => Over) /\ used' \in UsedType
  BY <1>1, RejectedEnds, FaultTyped
<1>3. \/ UNCHANGED <<host, log>>
      \/ sub = 0 /\ host' = NoAgent /\ log' = <<>>
  BY DEF ConnLost, RemoveAgent, Typed, Placed
<1>4. CASE UNCHANGED <<host, log>>
  BY <1>1, <1>2, <1>4, EndsTyped DEF Typed, Placed
<1>5. CASE sub = 0 /\ host' = NoAgent /\ log' = <<>>
  <2>1. host' \in HostType /\ log' \in Seq(LogRecord) /\ sub' \in 0..(Len(log') + 1)
    BY <1>1, <1>5, NoAgentIs
  <2> QED BY <1>1, <1>2, <1>5, <2>1, EndsTyped DEF Typed
<1> QED BY <1>3, <1>4, <1>5

LEMMA HostRestartsTyped ==
  ASSUME Typed, HostRestarts
  PROVE  Typed'
<1>1. /\ Fault("host") /\ up' = FALSE /\ news' = FALSE /\ Rejected
      /\ UNCHANGED <<sub, cursor, sid, reset>>
  BY DEF HostRestarts
<1>2. Ends /\ (turn.stage = "remove" => Over) /\ used' \in UsedType
  BY <1>1, RejectedEnds, FaultTyped
<1>3. CASE host.st \in {"new", "absent"}
  <2>1. host' = NoAgent /\ log' = <<>> /\ log = <<>>
    BY <1>3 DEF HostRestarts, RemoveAgent, Typed, Placed
  <2>2. host' \in HostType /\ log' \in Seq(LogRecord) /\ sub' \in 0..(Len(log') + 1)
    BY <1>1, <2>1, NoAgentIs DEF Typed
  <2> QED BY <1>1, <1>2, <2>1, <2>2, EndsTyped DEF Typed
<1>4. CASE host.st \notin {"new", "absent"}
  <2>1. host' = [Gone(host) EXCEPT !.q = <<>>] /\ ProcessGone
    BY <1>4 DEF HostRestarts
  <2>2. host' \in HostType /\ host'.st = "down"
    BY <2>1, GoneTyped, NoAgentIs, EmptySeq DEF HostType
  <2>3. log' \in Seq(LogRecord) /\ Len(log) <= Len(log')
    BY <2>1, ProcessGoneTyped
  <2>4. sub' \in 0..(Len(log') + 1)
    BY <1>1, <2>3, LenProperties DEF Typed
  <2> QED BY <1>1, <1>2, <2>2, <2>3, <2>4, EndsTyped DEF Typed, Placed
<1> QED BY <1>3, <1>4

LEMMA ReconnectTyped ==
  ASSUME Typed, Reconnect
  PROVE  Typed'
<1>1. /\ up' = TRUE /\ used' = [used EXCEPT !.follow = TRUE]
      /\ UNCHANGED <<turn, sub, cursor, sid, reset, call, host, log, news, hist>>
  BY DEF Reconnect
<1>2. used' \in UsedType
  BY <1>1 DEF Typed, UsedType
<1> QED BY <1>1, <1>2 DEF Typed, Placed

\* What the history keeps of the relay's restart.
LEMMA ForgottenIs ==
  ASSUME Typed, hist' = [Ended(hist, turn, "forgotten") EXCEPT !.forgot = @ \/ reset]
  PROVE  /\ hist' \in HistType
         /\ hist'.unsent = hist.unsent /\ hist'.issued = hist.issued /\ hist'.stale = hist.stale
         /\ hist'.cleared = hist.cleared /\ hist'.since = hist.since
         /\ hist'.forgot = (hist.forgot \/ reset)
<1> DEFINE e == Ended(hist, turn, "forgotten")
<1>1. /\ e \in HistType
      /\ e.unsent = hist.unsent /\ e.issued = hist.issued /\ e.stale = hist.stale
      /\ e.cleared = hist.cleared /\ e.since = hist.since /\ e.forgot = hist.forgot
  <2>1. CASE turn.n = 0
    BY <2>1 DEF Ended, Typed
  <2>2. CASE turn.n # 0
    <3>1. turn.n \in Turns
      BY <2>2, BoundsAssumption DEF Typed, TurnType, Turns
    <3> DEFINE l == hist.left \cup ({turn.n} \cap ToCome)
               o == [hist.out EXCEPT ![turn.n] = "forgotten"]
    <3>2. e = [hist EXCEPT !.out = o, !.left = l]
      BY <2>2 DEF Ended, Typed, HistType
    <3>3. l \in SUBSET Turns /\ o \in [Turns -> {"none", "forgotten"} \cup Results]
      BY <3>1 DEF Typed, HistType
    <3> HIDE DEF l, o, e
    <3> QED BY <3>2, <3>3 DEF Typed, HistType
  <2> QED BY <2>1, <2>2
<1> HIDE DEF e
<1>2. hist' = [e EXCEPT !.forgot = e.forgot \/ reset] /\ reset \in BOOLEAN
  BY DEF e, Typed
<1> QED BY <1>1, <1>2 DEF HistType

LEMMA RelayRestartsTyped ==
  ASSUME Typed, RelayRestarts
  PROVE  Typed'
<1>1. /\ Fault("relay") /\ turn' = NoTurn /\ call' = NoCall /\ sub' = 0 /\ reset' = FALSE
      /\ news' = FALSE /\ up' = FALSE
      /\ hist' = [Ended(hist, turn, "forgotten") EXCEPT !.forgot = @ \/ reset]
      /\ UNCHANGED <<cursor, sid, host, log>>
  BY DEF RelayRestarts
<1>2. used' \in UsedType /\ hist' \in HistType /\ sub' \in 0..(Len(log') + 1)
  BY <1>1, FaultTyped, ForgottenIs DEF Typed
<1> QED BY <1>1, <1>2, NoTurnIs DEF Typed, Placed

LEMMA InitTyped ==
  ASSUME Init
  PROVE  Typed
<1>1. used \in UsedType
  BY BoundsAssumption DEF Init, UsedType
<1>2. hist \in HistType
  BY DEF Init, HistType, Turns
<1>3. log \in Seq(LogRecord) /\ sub \in 0..(Len(log) + 1) /\ host \in HostType
  BY NoAgentIs DEF Init
<1> QED BY <1>1, <1>2, <1>3, NoTurnIs DEF Init, Typed, Placed

LEMMA NextTyped ==
  ASSUME Typed, [Next]_vars
  PROVE  Typed'
<1>1. CASE Relay
  BY <1>1, ConnectedTyped, NotConnectedTyped, RemovedTyped, AskTyped, DeliveredTyped, RefusedTyped,
     InterruptedTyped, ReadTyped, StreamClosedTyped, AgentStateTyped, FollowedIdleTyped,
     ReconnectTyped DEF Relay, Goes
<1>2. CASE Host
  BY <1>2, HostTakesTyped, HostWritesTyped, HostEndsTyped DEF Host
<1>3. CASE Person
  BY <1>3, SendTurnTyped, StopTyped, ClearTyped, FollowTyped DEF Person
<1>4. CASE Wrong
  BY <1>4, TimesOutTyped, HostRefusesTyped, HostWorksTyped, HostExitTyped, ConnLostTyped,
     HostRestartsTyped, RelayRestartsTyped DEF Wrong
<1>5. CASE UNCHANGED vars
  BY <1>5 DEF vars, Typed, Placed
<1> QED BY <1>1, <1>2, <1>3, <1>4, <1>5 DEF Next

\* Type correctness: what the turn, its request, the subscription and the
\* host's agent can hold, however many turns and faults.
THEOREM DriverIsTyped == Spec => []TypeOK
<1>1. Typed => TypeOK
  <2> SUFFICES ASSUME Typed PROVE TypeOK
    OBVIOUS
  <2>1. \A i \in 1..Len(log) : log[i] \in LogRecord
    BY DEF Typed
  <2>2. turn \in TurnType /\ call \in CallType /\ host \in HostType
    BY DEF Typed
  <2>3. /\ sub \in 0..(Len(log) + 1) /\ cursor \in Nat /\ sid \in Nat
        /\ reset \in BOOLEAN /\ up \in BOOLEAN /\ news \in BOOLEAN
    BY DEF Typed
  <2> QED BY <2>1, <2>2, <2>3, Zenon DEF TypeOK, TurnType, CallType, HostType, LogRecord
<1>2. Spec => []Typed
  BY InitTyped, NextTyped, PTL DEF Spec
<1> QED BY <1>1, <1>2, PTL

-----------------------------------------------------------------------------
(***************************************************************************)
(* A stop before the request left.                                         *)
(***************************************************************************)
\* Only turns begun are stopped or requested; one stopped before its request
\* left is not requested, and keeps its stop while it is the turn.
StopInv ==
  /\ hist.issued \subseteq 0..used.turns /\ turn.n \in 0..used.turns
  /\ hist.unsent \subseteq 1..used.turns
  /\ hist.unsent \cap hist.issued = {}
  /\ turn.n \in hist.unsent => turn.stop

\* A step that requests nothing, and neither begins a turn nor forgets a stop.
StopKept ==
  /\ hist'.unsent = hist.unsent /\ hist'.issued = hist.issued /\ used'.turns = used.turns
  /\ turn'.n = 0 \/ (turn'.n = turn.n /\ (turn.stop => turn'.stop))

LEMMA StopKeeps ==
  ASSUME Typed, StopInv, StopKept
  PROVE  StopInv'
BY DEF Typed, UsedType, StopInv, StopKept

LEMMA EndsKeepsStop ==
  ASSUME Typed, Ends, used'.turns = used.turns
  PROVE  StopKept
BY NoTurnIs DEF Ends, SameHist, Over, Stays, StopKept

\* What becomes of the turn as it connects, removes the agent, or is delivered.
LEMMA RelayStepIs ==
  ASSUME Typed, Connected \/ Removed \/ Delivered
  PROVE  /\ SameHist
         /\ Over \/ (turn'.n = turn.n /\ turn'.stop = turn.stop)
         /\ Connected => Over \/ turn'.stage = IF reset THEN "remove" ELSE "ask"
<1> DEFINE Moves(s) == turn' = [turn EXCEPT !.stage = s] /\ hist' = hist
<1>1. ASSUME NEW s \in Stages, Moves(s)
      PROVE  SameHist /\ turn'.n = turn.n /\ turn'.stop = turn.stop /\ turn'.stage = s
  BY <1>1 DEF Typed, TurnType, SameHist
<1>2. /\ Connected => EndTurn("stopped") \/ Moves(IF reset THEN "remove" ELSE "ask")
      /\ Removed => EndTurn("stopped") \/ Moves("ask")
      /\ Delivered => EndTurn(turn.res) \/ Moves("wait")
  BY DEF Connected, Removed, Delivered
<1>3. turn.res \in Results /\ "stopped" \in Results /\ {"remove", "ask", "wait"} \subseteq Stages
  BY DEF Typed, TurnType, Results, Stages
<1> HIDE DEF Moves
<1>4. /\ Connected => Over \/ turn'.stage = IF reset THEN "remove" ELSE "ask"
      /\ SameHist /\ (Over \/ (turn'.n = turn.n /\ turn'.stop = turn.stop))
  <2>1. CASE Connected
    BY <1>1, <1>2, <1>3, <2>1, EndTurnEnds
  <2>2. CASE Removed /\ ~Connected
    BY <1>1, <1>2, <1>3, <2>2, EndTurnEnds
  <2>3. CASE Delivered /\ ~Connected
    BY <1>1, <1>2, <1>3, <2>3, EndTurnEnds
  <2> QED BY <2>1, <2>2, <2>3
<1> QED BY <1>4

\* Asking the host and hearing its refusal: the turn ends, or its request is
\* issued though it was not stopped, or it asks once more.
LEMMA AskStepIs ==
  ASSUME Typed, Ask \/ Refused
  PROVE  \/ Ends
         \/ ~turn.stop /\ \E kind \in {"send", "spawn"} : Issue(kind, turn)
         \/ SameHist /\ turn'.n = turn.n /\ turn'.stop = turn.stop /\ turn'.stage = "ask"
<1> DEFINE Again == /\ turn' = [turn EXCEPT !.stage = "ask", !.tries = @ + 1]
                    /\ turn.tries = 0 /\ hist' = hist
           Issues == ~turn.stop /\ \E kind \in {"send", "spawn"} : Issue(kind, turn)
<1>1. "failed" \in Results /\ "stopped" \in Results
  BY DEF Results
<1>2. EndTurn("failed") \/ EndTurn("stopped") => Ends
  BY <1>1, EndTurnEnds DEF Ends
<1>3. Ask => EndTurn("stopped") \/ Issues
  BY DEF Ask
<1>4. Refused => EndTurn("failed") \/ EndTurn("stopped") \/ Issues \/ Again
  BY DEF Refused, Typed, TurnType
<1>5. ASSUME Again
      PROVE  SameHist /\ turn'.n = turn.n /\ turn'.stop = turn.stop /\ turn'.stage = "ask"
  <2>1. turn' = [turn EXCEPT !.stage = "ask", !.tries = 1] /\ hist' = hist
    BY <1>5 DEF Typed, TurnType
  <2> QED BY <2>1 DEF Typed, TurnType, SameHist
<1> HIDE DEF Again
<1> QED BY <1>2, <1>3, <1>4, <1>5

LEMMA AskKeepsStop ==
  ASSUME Typed, StopInv, Ask \/ Refused
  PROVE  StopInv'
<1>1. used' = used /\ turn.stage \in {"ask", "call"} /\ turn.n # 0
  BY DEF Ask, Refused, Typed, Placed
<1>2. CASE Ends
  BY <1>1, <1>2, EndsKeepsStop, StopKeeps
<1>3. CASE ~turn.stop /\ \E kind \in {"send", "spawn"} : Issue(kind, turn)
  <2>1. /\ turn'.n = turn.n /\ turn'.stop = turn.stop
        /\ hist'.issued = hist.issued \cup {turn.n} /\ hist'.unsent = hist.unsent
    BY <1>3, IssueIs
  <2> QED BY <1>1, <1>3, <2>1 DEF StopInv
<1>4. CASE SameHist /\ turn'.n = turn.n /\ turn'.stop = turn.stop
  BY <1>1, <1>4, StopKeeps DEF StopKept, SameHist
<1> QED BY <1>2, <1>3, <1>4, AskStepIs

LEMMA SendTurnKeepsStop ==
  ASSUME Typed, StopInv, SendTurn
  PROVE  StopInv'
<1> DEFINE n == used.turns + 1
<1>1. /\ turn' = [NoTurn EXCEPT !.n = n, !.stage = "connect"]
      /\ used' = [used EXCEPT !.turns = n]
      /\ hist' = [hist EXCEPT !.since[n] = IF hist.forgot THEN 0 ELSE hist.cleared]
  BY DEF SendTurn
<1>2. turn'.n = n /\ used'.turns = n /\ used.turns \in Nat
  BY <1>1, NoTurnIs DEF TurnType, Typed, UsedType
<1>3. hist'.unsent = hist.unsent /\ hist'.issued = hist.issued
  BY <1>1 DEF Typed, HistType
<1> QED BY <1>2, <1>3 DEF StopInv

LEMMA StopKeepsStop ==
  ASSUME Typed, StopInv, Stop
  PROVE  StopInv'
<1>1. used' = used
  BY DEF Stop
<1>2. CASE up
  <2>1. /\ turn' = [turn EXCEPT !.stop = TRUE, !.ask = TRUE]
        /\ hist' = [hist EXCEPT !.unsent = @ \cup ({turn.n} \ (hist.issued \cup {0}))]
    BY <1>2 DEF Stop
  <2>2. /\ turn'.n = turn.n /\ turn'.stop
        /\ hist'.unsent = hist.unsent \cup ({turn.n} \ (hist.issued \cup {0}))
        /\ hist'.issued = hist.issued
    BY <2>1 DEF Typed, TurnType, HistType
  <2>3. used.turns \in Nat
    BY DEF Typed, UsedType
  <2> QED BY <1>1, <2>2, <2>3 DEF StopInv
<1>3. CASE ~up /\ Waiting
  <2>1. Ends
    BY <1>3, EndTurnEnds DEF Stop, Ends, Results
  <2> QED BY <1>1, <2>1, EndsKeepsStop, StopKeeps
<1>4. CASE ~up /\ ~Waiting
  <2>1. turn' = [turn EXCEPT !.stop = TRUE, !.res = "stopped"] /\ hist' = hist
    BY <1>4 DEF Stop
  <2>2. turn'.n = turn.n /\ turn'.stop
    BY <2>1 DEF Typed, TurnType
  <2> QED BY <1>1, <2>1, <2>2, StopKeeps DEF StopKept
<1> QED BY <1>2, <1>3, <1>4 DEF Typed

\* The steps that only end the turn or leave it.
LEMMA EndsSteps ==
  ASSUME Typed, NotConnected \/ TimesOut \/ Interrupted \/ Read \/ StreamClosed
                \/ AgentState \/ FollowedIdle \/ ConnLost \/ HostRestarts
  PROVE  Ends /\ used'.turns = used.turns /\ used'.convs = used.convs
<1>1. {"failed", "stopped", "done"} \subseteq Results
  BY DEF Results
<1>2. NotConnected \/ TimesOut => EndTurn("failed")
  BY DEF NotConnected, TimesOut
<1>3. (StreamClosed => Settle("failed")) /\ (FollowedIdle => Settle("done"))
  BY DEF StreamClosed, FollowedIdle
<1>4. ConnLost \/ HostRestarts => Rejected
  BY DEF ConnLost, HostRestarts
<1>5. Ends
  BY <1>1, <1>2, <1>3, <1>4, EndTurnEnds, SettleEnds, RejectedEnds, InterruptedEnds, ReadIs,
     AgentStateEnds DEF Ends
<1>6. \/ UNCHANGED used
      \/ \E kind \in FaultKinds : Fault(kind)
  BY DEF NotConnected, TimesOut, Interrupted, Read, StreamClosed, AgentState, FollowedIdle,
     ConnLost, HostRestarts, FaultKinds
<1> QED BY <1>5, <1>6, FaultTyped

\* The host's steps, and those that neither move nor end a turn.
LEMMA QuietKeepsStop ==
  ASSUME Typed, \/ HostTakes \/ HostWrites \/ HostRefuses \/ HostEnds \/ HostWorks \/ HostExit
                \/ Reconnect \/ Clear \/ Follow \/ RelayRestarts
  PROVE  StopKept
<1>1. CASE HostWrites
  <2>1. turn' = turn /\ used' = used
    BY <1>1 DEF HostWrites
  <2>2. hist'.unsent = hist.unsent /\ hist'.issued = hist.issued
    BY <1>1 DEF HostWrites, Typed, HistType
  <2> QED BY <2>1, <2>2 DEF StopKept
<1>2. CASE HostTakes \/ HostEnds \/ Reconnect
  BY <1>2, HostEndsIs DEF HostTakes, Reconnect, StopKept, Typed, UsedType
<1>3. CASE HostRefuses \/ HostWorks \/ HostExit
  BY <1>3, FaultTyped DEF HostRefuses, HostWorks, HostExit, StopKept
<1>4. CASE Clear
  <2>1. turn' = turn /\ used'.turns = used.turns
    BY <1>4 DEF Clear, Typed, UsedType
  <2>2. hist'.unsent = hist.unsent /\ hist'.issued = hist.issued
    BY <1>4 DEF Clear, Typed, HistType
  <2> QED BY <2>1, <2>2 DEF StopKept
<1>5. CASE Follow
  <2>1. turn'.n = 0 /\ used'.turns = used.turns
    BY <1>5, NoTurnIs DEF Follow, TurnType, Typed, UsedType
  <2>2. hist'.unsent = hist.unsent /\ hist'.issued = hist.issued
    BY <1>5 DEF Follow, Typed, HistType
  <2> QED BY <2>1, <2>2 DEF StopKept
<1>6. CASE RelayRestarts
  BY <1>6, ForgottenIs, FaultTyped, NoTurnIs DEF RelayRestarts, StopKept
<1> QED BY <1>1, <1>2, <1>3, <1>4, <1>5, <1>6

LEMMA NextKeepsStop ==
  ASSUME Typed, StopInv, [Next]_vars
  PROVE  StopInv'
<1>1. CASE Connected \/ Removed \/ Delivered
  <2>1. used' = used
    BY <1>1 DEF Connected, Removed, Delivered
  <2> QED BY <1>1, <2>1, RelayStepIs, NoTurnIs, StopKeeps DEF StopKept, SameHist, Over
<1>2. CASE Ask \/ Refused
  BY <1>2, AskKeepsStop
<1>3. CASE NotConnected \/ TimesOut \/ Interrupted \/ Read \/ StreamClosed \/ AgentState \/ FollowedIdle
           \/ ConnLost \/ HostRestarts
  BY <1>3, EndsSteps, EndsKeepsStop, StopKeeps
<1>4. CASE SendTurn \/ Stop
  BY <1>4, SendTurnKeepsStop, StopKeepsStop
<1>5. CASE HostTakes \/ HostWrites \/ HostRefuses \/ HostEnds \/ HostWorks \/ HostExit
           \/ Reconnect \/ Clear \/ Follow \/ RelayRestarts
  BY <1>5, QuietKeepsStop, StopKeeps
<1>6. CASE UNCHANGED vars
  BY <1>6 DEF vars, StopInv
<1> QED BY <1>1, <1>2, <1>3, <1>4, <1>5, <1>6 DEF Next, Relay, Goes, Host, Person, Wrong

\* However many turns, stops and failures: a turn stopped in any of
\* sendTurn's waits before its request left never requests it.
THEOREM StoppedIsNotRequested == Spec => []StopBeforeSendHolds
<1>1. Init => StopInv
  BY NoTurnIs DEF Init, StopInv
<1>2. StopInv => StopBeforeSendHolds
  BY DEF StopInv, StopBeforeSendHolds
<1> QED BY <1>1, <1>2, InitTyped, NextTyped, NextKeepsStop, PTL DEF Spec

-----------------------------------------------------------------------------
(***************************************************************************)
(* Whose conversation the host is in.                                      *)
(***************************************************************************)
Absent == host.st = "absent"

\* No turn's message can reach the agent before the agent is removed.
Barred == reset /\ (turn.n = 0 \/ turn.stage \in {"connect", "remove"})

\* Conversations are numbered as they begin.  Unless the reset was forgotten,
\* the session knows no cleared conversation, and the agent still in one is
\* barred; so what the host keeps waiting is of turns sent before the clear.
ConvInv ==
  /\ hist.cleared <= used.convs /\ sid <= used.convs /\ host.conv <= used.convs
  /\ Absent => host.q = <<>> /\ host.conv = 0
  /\ ~Absent => host.conv >= 1
  /\ ~hist.forgot => sid = 0 \/ sid > hist.cleared
  /\ ~hist.forgot /\ ~Absent /\ host.conv <= hist.cleared => Barred
  /\ \A m \in Range(host.q) : m <= used.turns /\ host.conv > hist.since[m]
  /\ turn.n # 0 => hist.since[turn.n] = 0 \/ (hist.since[turn.n] = hist.cleared /\ ~hist.forgot)
  /\ hist.stale = {}

LEMMA RangeOfQueue ==
  ASSUME NEW q \in Seq(Turns)
  PROVE  /\ Range(<<>>) = {}
         /\ q # <<>> => Head(q) \in Range(q) /\ Range(Tail(q)) \subseteq Range(q)
         /\ \A m \in Turns : Range(Append(q, m)) = Range(q) \cup {m} /\ Range(<<m>>) = {m}
<1>1. Range(<<>>) = {}
  BY DEF Range
<1>2. ASSUME q # <<>>
      PROVE  Head(q) \in Range(q) /\ Range(Tail(q)) \subseteq Range(q)
  <2>1. Len(q) \in Nat /\ Len(q) # 0 /\ DOMAIN q = 1..Len(q) /\ Head(q) = q[1]
    BY <1>2, EmptySeq, LenProperties
  <2>2. /\ DOMAIN Tail(q) = 1..(Len(q) - 1)
        /\ \A i \in 1..(Len(q) - 1) : Tail(q)[i] = q[i + 1]
    BY <1>2, <2>1, HeadTailProperties, LenProperties
  <2>3. \A i \in 1..(Len(q) - 1) : i + 1 \in 1..Len(q)
    BY <2>1
  <2> QED BY <2>1, <2>2, <2>3 DEF Range
<1>3. ASSUME NEW m \in Turns
      PROVE  Range(Append(q, m)) = Range(q) \cup {m}
  <2>1. Len(q) \in Nat /\ DOMAIN q = 1..Len(q)
    BY LenProperties
  <2>2. /\ DOMAIN Append(q, m) = 1..(Len(q) + 1)
        /\ \A i \in 1..Len(q) : Append(q, m)[i] = q[i]
        /\ Append(q, m)[Len(q) + 1] = m
    BY AppendProperties, LenProperties
  <2> QED BY <2>1, <2>2 DEF Range
<1>4. ASSUME NEW m \in Turns
      PROVE  Range(<<m>>) = {m}
  BY DEF Range
<1> QED BY <1>1, <1>2, <1>3, <1>4

SameConv ==
  /\ hist'.stale = hist.stale /\ hist'.cleared = hist.cleared
  /\ hist'.since = hist.since /\ hist'.forgot = hist.forgot

\* The steps that begin no conversation and clear none: what they must keep.
LEMMA ConvKeeps ==
  ASSUME Typed, ConvInv, SameConv,
         turn'.n \in {0, turn.n}, used'.turns = used.turns, used'.convs = used.convs,
         sid' <= used.convs,
         ~hist.forgot => sid' = 0 \/ sid' > hist.cleared,
         \/ /\ host'.conv = host.conv /\ (Absent' <=> Absent)
            /\ Range(host'.q) \subseteq Range(host.q) /\ (Absent' => host'.q = <<>>)
            /\ ~hist.forgot /\ Barred => Barred'
         \/ host' = NoAgent
  PROVE  ConvInv'
<1>1. CASE host' = NoAgent
  <2>1. Range(host'.q) = {} /\ host'.q = <<>> /\ host'.conv = 0 /\ Absent'
    BY <1>1, NoAgentIs DEF Absent, Range
  <2>2. used.convs \in Nat
    BY DEF Typed, UsedType
  <2> QED BY <2>1, <2>2 DEF ConvInv, SameConv
<1>2. CASE /\ host'.conv = host.conv /\ (Absent' <=> Absent)
           /\ Range(host'.q) \subseteq Range(host.q) /\ (Absent' => host'.q = <<>>)
           /\ ~hist.forgot /\ Barred => Barred'
  BY <1>2 DEF ConvInv, SameConv
<1> QED BY <1>1, <1>2

\* The turn ends or stays; the conversation the session knows is the same.
LEMMA EndsKeepsConv ==
  ASSUME Typed, ConvInv, Ends, used'.turns = used.turns, used'.convs = used.convs,
         sid' = sid, reset' = reset, sub' \in {0, sub},
         \/ /\ host'.conv = host.conv /\ (Absent' <=> Absent)
            /\ Range(host'.q) \subseteq Range(host.q) /\ (Absent' => host'.q = <<>>)
         \/ host' = NoAgent
  PROVE  ConvInv'
<1>1. turn'.n \in {0, turn.n} /\ (turn'.n = 0 \/ turn'.stage = turn.stage) /\ SameConv
  BY NoTurnIs DEF Ends, Over, Stays, SameHist, SameConv
<1>2. Barred => Barred'
  BY <1>1 DEF Barred
<1> QED BY <1>1, <1>2, ConvKeeps DEF ConvInv

LEMMA EndsStepsKeepConv ==
  ASSUME Typed, ConvInv, NotConnected \/ TimesOut \/ Interrupted \/ StreamClosed
                         \/ AgentState \/ FollowedIdle \/ ConnLost \/ HostRestarts
  PROVE  ConvInv'
<1>1. sid' = sid /\ reset' = reset /\ sub' \in {0, sub}
  BY DEF NotConnected, TimesOut, Interrupted, StreamClosed, AgentState, FollowedIdle, ConnLost,
     HostRestarts
<1>2. CASE host' = host
  BY <1>1, <1>2, EndsSteps, EndsKeepsConv DEF Absent, ConvInv
<1>3. CASE host' = NoAgent
  BY <1>1, <1>3, EndsSteps, EndsKeepsConv
<1>4. CASE host.st # "absent" /\ host' = [Gone(host) EXCEPT !.q = <<>>]
  <2>1. host'.conv = host.conv /\ ~Absent /\ ~Absent' /\ host'.q = <<>>
    BY <1>4, GoneTyped DEF Absent, HostType
  <2>2. Range(host'.q) = {}
    BY <2>1 DEF Range
  <2> QED BY <1>1, <2>1, <2>2, EndsSteps, EndsKeepsConv
<1> QED
  BY <1>2, <1>3, <1>4 DEF NotConnected, TimesOut, Interrupted, StreamClosed, AgentState, FollowedIdle, ConnLost,
     HostRestarts, RemoveAgent

LEMMA ReadKeepsConv ==
  ASSUME Typed, ConvInv, Read
  PROVE  ConvInv'
<1>1. /\ SameConv /\ turn'.n \in {0, turn.n} /\ used' = used /\ host' = host
  BY ReadIs, NoTurnIs DEF Ends, Over, Stays, SameHist, SameConv
<1>2. Barred => Barred'
  BY ReadIs, NoTurnIs DEF Barred, Ends, Over, Stays
<1>3. ~Absent
  <2>1. Len(log) # 0
    BY ReadIs, LenProperties DEF Typed
  <2> QED BY <2>1, NoAgentIs DEF Absent, Typed, Placed
<1>4. sid' <= used.convs
  BY ReadIs DEF ConvInv, Typed, UsedType
<1>5. ~hist.forgot => sid' = 0 \/ sid' > hist.cleared
  <2> SUFFICES ASSUME ~hist.forgot, sid' # 0
               PROVE  sid' > hist.cleared
    OBVIOUS
  <2>1. CASE reset
    BY <2>1, ReadIs DEF ConvInv
  <2>2. CASE ~reset
    <3>1. host.conv > hist.cleared
      BY <1>3, <2>2 DEF ConvInv, Barred, Typed, HostType, HistType
    <3> QED BY <3>1, ReadIs DEF ConvInv
  <2> QED BY <2>1, <2>2
<1> QED BY <1>1, <1>2, <1>4, <1>5, ConvKeeps DEF Absent, ConvInv

LEMMA RelayStepsKeepConv ==
  ASSUME Typed, ConvInv, Connected \/ Removed \/ Delivered
  PROVE  ConvInv'
<1>1. SameConv /\ turn'.n \in {0, turn.n} /\ used' = used
  BY RelayStepIs, NoTurnIs DEF SameHist, SameConv, Over, Connected, Removed, Delivered
<1>2. CASE Connected
  <2>1. Barred => Barred'
    BY <1>2, RelayStepIs, NoTurnIs DEF Barred, Over, Connected, Typed
  <2> QED BY <1>1, <1>2, <2>1, ConvKeeps DEF Connected, ConvInv, Absent
<1>3. CASE Removed
  <2>1. host' = NoAgent /\ sid' = sid
    BY <1>3 DEF Removed, RemoveAgent
  <2> QED BY <1>1, <2>1, ConvKeeps DEF ConvInv
<1>4. CASE Delivered
  <2>1. ~Barred /\ host' = host
    BY <1>4 DEF Barred, Delivered, Typed, Placed
  <2>2. sid' = sid \/ (sid' = host.conv /\ host.conv # 0)
    BY <1>4 DEF Delivered
  <2>3. host.conv # 0 => ~Absent
    BY DEF ConvInv
  <2>4. sid' <= used.convs /\ (~hist.forgot => sid' = 0 \/ sid' > hist.cleared)
    BY <2>1, <2>2, <2>3 DEF ConvInv, Typed, HostType, HistType
  <2> QED BY <1>1, <2>1, <2>4, ConvKeeps DEF ConvInv, Absent
<1> QED BY <1>2, <1>3, <1>4

LEMMA AskKeepsConv ==
  ASSUME Typed, ConvInv, Ask \/ Refused
  PROVE  ConvInv'
<1>1. UNCHANGED <<used, sid, reset, host>> /\ ~Barred
  BY DEF Ask, Refused, Barred, Typed, Placed
<1>2. SameConv /\ turn'.n \in {0, turn.n}
  BY AskStepIs, IssueIs, NoTurnIs DEF Ends, Over, Stays, SameHist, SameConv
<1> QED BY <1>1, <1>2, ConvKeeps DEF ConvInv, Absent

LEMMA StopKeepsConv ==
  ASSUME Typed, ConvInv, Stop
  PROVE  ConvInv'
<1>1. UNCHANGED <<used, sid, reset, sub, host>>
  BY DEF Stop
<1>2. SameConv /\ turn'.n \in {0, turn.n} /\ (turn'.n = 0 \/ turn'.stage = turn.stage)
  <2>1. CASE up
    BY <2>1 DEF Stop, SameConv, Typed, TurnType, HistType
  <2>2. CASE ~up /\ Waiting
    <3>1. Ends
      BY <2>2, EndTurnEnds DEF Stop, Ends, Results
    <3> QED BY <3>1, NoTurnIs DEF Ends, Over, Stays, SameHist, SameConv
  <2>3. CASE ~up /\ ~Waiting
    BY <2>3 DEF Stop, SameConv, Typed, TurnType
  <2> QED BY <2>1, <2>2, <2>3 DEF Typed
<1>3. Barred => Barred'
  BY <1>1, <1>2 DEF Barred
<1> QED BY <1>1, <1>2, <1>3, ConvKeeps DEF ConvInv, Absent

\* A new turn was sent after the last clear, unless its reset was forgotten.
LEMMA SendTurnKeepsConv ==
  ASSUME Typed, ConvInv, SendTurn
  PROVE  ConvInv'
<1> DEFINE n == used.turns + 1
           since == IF hist.forgot THEN 0 ELSE hist.cleared
<1>1. /\ turn' = [NoTurn EXCEPT !.n = n, !.stage = "connect"]
      /\ used' = [used EXCEPT !.turns = n]
      /\ hist' = [hist EXCEPT !.since[n] = since]
      /\ UNCHANGED <<sub, sid, reset, host>>
      /\ turn.stage = "none" /\ used.turns < MaxTurns
  BY DEF SendTurn, Active
<1>2. used.turns \in Nat /\ n \in Turns
  BY <1>1, BoundsAssumption DEF Typed, UsedType, Turns
<1>3. /\ turn'.n = n /\ turn'.stage = "connect" /\ used'.turns = n /\ used'.convs = used.convs
  BY <1>1, NoTurnIs DEF TurnType, Typed, UsedType
<1>4. /\ hist'.since = [hist.since EXCEPT ![n] = since] /\ hist.since \in [Turns -> Nat]
      /\ hist'.stale = hist.stale /\ hist'.cleared = hist.cleared /\ hist'.forgot = hist.forgot
  BY <1>1 DEF Typed, HistType
<1>5. hist'.since[n] = since /\ \A m \in Turns : m <= used.turns => hist'.since[m] = hist.since[m]
  BY <1>2, <1>4
<1>6. Range(host.q) \subseteq Turns
  BY DEF Range, Typed, HostType
<1>7. \A m \in Range(host.q) : m <= n /\ host.conv > hist'.since[m]
  BY <1>2, <1>5, <1>6 DEF ConvInv, Turns
<1>8. Barred => Barred'
  BY <1>1, <1>3 DEF Barred
<1>9. turn'.n # 0 => hist'.since[turn'.n] = 0 \/ (hist'.since[turn'.n] = hist'.cleared /\ ~hist'.forgot)
  BY <1>3, <1>4, <1>5
<1> HIDE DEF n, since
<1> QED BY <1>1, <1>3, <1>4, <1>7, <1>8, <1>9 DEF ConvInv, Absent

\* A clear: every conversation begun so far is cleared, and the agent is
\* barred until it is removed.
LEMMA ClearKeepsConv ==
  ASSUME Typed, ConvInv, Clear
  PROVE  ConvInv'
<1>1. /\ used' = [used EXCEPT !.clears = @ + 1]
      /\ sid' = 0 /\ reset' = TRUE /\ sub' = 0
      /\ hist' = [hist EXCEPT !.cleared = used.convs, !.forgot = FALSE]
      /\ UNCHANGED <<turn, host>> /\ turn.stage = "none" /\ turn.n = 0
  BY DEF Clear, Active, Typed, Placed
<1>2. used'.convs = used.convs /\ used'.turns = used.turns /\ used.convs \in Nat
  BY <1>1 DEF Typed, UsedType
<1>3. /\ hist'.since = hist.since /\ hist'.stale = hist.stale /\ hist'.cleared = used.convs
      /\ hist'.forgot = FALSE
  BY <1>1 DEF Typed, HistType
<1> QED BY <1>1, <1>2, <1>3 DEF ConvInv, Absent, Barred

LEMMA FollowKeepsConv ==
  ASSUME Typed, ConvInv, Follow
  PROVE  ConvInv'
<1>1. /\ turn' = [NoTurn EXCEPT !.stage = "wait", !.started = TRUE]
      /\ sid' \in {sid, host.conv}
      /\ hist' = [hist EXCEPT !.forgot = @ \/ (reset /\ sid' # sid)]
      /\ used' = [used EXCEPT !.follow = FALSE]
      /\ UNCHANGED <<reset, host>>
  BY DEF Follow
<1>2. ~Absent
  BY DEF Follow, Starting, Absent
<1>3. turn'.n = 0 /\ used'.convs = used.convs /\ used'.turns = used.turns
  BY <1>1, NoTurnIs DEF TurnType, Typed, UsedType
<1>4. /\ hist'.since = hist.since /\ hist'.stale = hist.stale /\ hist'.cleared = hist.cleared
      /\ hist'.forgot = (hist.forgot \/ (reset /\ sid' # sid))
  BY <1>1 DEF Typed, HistType
<1>5. ~hist'.forgot => ~hist.forgot /\ (sid' = sid \/ ~reset)
  BY <1>4
<1>6. ~hist.forgot /\ ~reset => host.conv > hist.cleared
  BY <1>2 DEF ConvInv, Barred, Typed, HostType, HistType
<1>7. sid' <= used.convs /\ (~hist'.forgot => sid' = 0 \/ sid' > hist.cleared)
  BY <1>1, <1>5, <1>6 DEF ConvInv
<1>8. Barred => Barred'
  BY <1>1, <1>3 DEF Barred
<1> QED BY <1>1, <1>2, <1>3, <1>4, <1>5, <1>7, <1>8 DEF ConvInv, Absent

LEMMA RelayRestartsKeepsConv ==
  ASSUME Typed, ConvInv, RelayRestarts
  PROVE  ConvInv'
<1>1. /\ turn'.n = 0 /\ sub' = 0 /\ reset' = FALSE /\ UNCHANGED <<sid, host>>
      /\ used'.convs = used.convs /\ used'.turns = used.turns
  BY NoTurnIs, FaultTyped DEF RelayRestarts
<1>2. /\ hist'.since = hist.since /\ hist'.stale = hist.stale /\ hist'.cleared = hist.cleared
      /\ hist'.forgot = (hist.forgot \/ reset)
  BY ForgottenIs DEF RelayRestarts
<1> QED BY <1>1, <1>2 DEF ConvInv, Absent, Barred

\* A step of the host that begins no conversation and adds nothing to its queue.
LEMMA HostStepKeepsConv ==
  ASSUME Typed, ConvInv, HostRefuses \/ HostEnds \/ HostWorks \/ HostExit \/ Reconnect
  PROVE  ConvInv'
<1>1. UNCHANGED <<turn, sub, sid, reset, hist>>
  BY DEF HostRefuses, HostEnds, HostWorks, HostExit, Reconnect
<1>2. used'.turns = used.turns /\ used'.convs = used.convs
  BY FaultTyped, HostEndsIs DEF HostRefuses, HostWorks, HostExit, Reconnect, Typed, UsedType
<1>3. host' = NoAgent \/ (/\ host'.conv = host.conv /\ (Absent' <=> Absent)
                          /\ Range(host'.q) \subseteq Range(host.q) /\ (Absent' => host'.q = <<>>))
  <2>1. CASE HostRefuses /\ host.st = "new"
    BY <2>1 DEF HostRefuses, RemoveAgent
  <2>2. CASE HostRefuses /\ host.st # "new"
    <3>1. host' = [host EXCEPT !.q = Tail(@)] /\ host.st = "down" /\ host.q # <<>>
      BY <2>2 DEF HostRefuses, Starting
    <3>2. host'.conv = host.conv /\ host'.st = "down" /\ host'.q = Tail(host.q)
      BY <3>1 DEF Typed, HostType
    <3>3. host.q \in Seq(Turns)
      BY DEF Typed, HostType
    <3> QED BY <3>1, <3>2, <3>3, RangeOfQueue DEF Absent
  <2>3. CASE HostEnds
    <3>1. host.st = "working" /\ host'.conv = host.conv /\ host'.q = host.q
          /\ host'.st \in {"idle", "working"}
      BY <2>3 DEF HostEnds, Typed, HostType
    <3> QED BY <3>1 DEF Absent
  <2>4. CASE HostWorks
    <3>1. host.st = "idle" /\ host'.conv = host.conv /\ host'.q = host.q /\ host'.st = "working"
      BY <2>4 DEF HostWorks, Typed, HostType
    <3> QED BY <3>1 DEF Absent
  <2>5. CASE HostExit
    BY <2>5, GoneTyped DEF HostExit, Absent
  <2>6. CASE Reconnect
    BY <2>6 DEF Reconnect, Absent, ConvInv
  <2> QED BY <2>1, <2>2, <2>3, <2>4, <2>5, <2>6
<1>4. SameConv /\ (Barred => Barred')
  BY <1>1 DEF SameConv, Barred
<1> QED BY <1>1, <1>2, <1>3, <1>4, ConvKeeps DEF ConvInv

\* The message written was sent to the conversation the agent is in.
LEMMA HostWritesKeepsConv ==
  ASSUME Typed, ConvInv, HostWrites
  PROVE  ConvInv'
<1> DEFINE m == Head(host.q)
<1>1. /\ host' = [host EXCEPT !.st = "working", !.q = Tail(@), !.pend = @ \cup {m}]
      /\ UNCHANGED <<turn, sub, sid, reset, used>> /\ host.q # <<>>
  BY DEF HostWrites
<1>2. host.q \in Seq(Turns) /\ ~Absent
  BY <1>1 DEF Typed, HostType, ConvInv
<1>3. m \in Range(host.q) /\ Range(Tail(host.q)) \subseteq Range(host.q) /\ m \in Turns
  BY <1>1, <1>2, RangeOfQueue, HeadTailProperties
<1>4. ~(host.conv <= hist.since[m])
  BY <1>3 DEF ConvInv, Typed, HostType, HistType
<1>5. SameConv
  BY <1>4 DEF HostWrites, SameConv, Typed, HistType
<1>6. host'.conv = host.conv /\ host'.st = "working" /\ host'.q = Tail(host.q)
  BY <1>1 DEF Typed, HostType
<1> HIDE DEF m
<1>7. ~Absent' /\ (Barred => Barred')
  BY <1>1, <1>6 DEF Absent, Barred
<1> QED BY <1>1, <1>2, <1>3, <1>5, <1>6, <1>7, ConvKeeps DEF ConvInv

\* A message is taken in: its turn was sent after the last clear, and so is
\* the conversation the agent is in, or the one that begins with it.
LEMMA HostTakesKeepsConv ==
  ASSUME Typed, StopInv, ConvInv, HostTakes
  PROVE  ConvInv'
<1>1. /\ call.st = "wire" /\ turn.stage = "call" /\ turn.n # 0 /\ ~Barred
      /\ UNCHANGED <<turn, sub, sid, reset, hist>>
  BY DEF HostTakes, Typed, Placed, Barred
<1>2. turn.n \in Turns /\ turn.n <= used.turns
  BY <1>1, BoundsAssumption DEF Typed, TurnType, UsedType, Turns, StopInv
<1>3. /\ host.q \in Seq(Turns) /\ host.conv \in Nat /\ used.convs \in Nat /\ sid \in Nat
      /\ hist.cleared \in Nat /\ hist.since[turn.n] \in Nat
  BY <1>2 DEF Typed, HostType, UsedType, HistType
<1>4. CASE host' = host /\ used' = used
  BY <1>1, <1>4, ConvKeeps DEF SameConv, Barred, Absent, ConvInv
<1>5. CASE ~Absent /\ host' = [host EXCEPT !.q = Append(@, turn.n)] /\ used' = used
  <2>1. host'.conv = host.conv /\ host'.q = Append(host.q, turn.n) /\ ~Absent'
    BY <1>5 DEF Typed, HostType, Absent
  <2>2. Range(host'.q) = Range(host.q) \cup {turn.n}
    <3>1. Range(Append(host.q, turn.n)) = Range(host.q) \cup {turn.n}
      BY <1>2, <1>3, RangeOfQueue
    <3> QED BY <2>1, <3>1
  <2>3. host.conv > hist.since[turn.n]
    BY <1>1, <1>3, <1>5 DEF ConvInv
  <2> QED BY <1>1, <1>2, <1>3, <1>5, <2>1, <2>2, <2>3 DEF ConvInv
<1>6. CASE /\ Absent
           /\ used' = [used EXCEPT !.convs = IF sid = 0 THEN @ + 1 ELSE @]
           /\ host' = [NoAgent EXCEPT !.st = "new", !.q = <<turn.n>>,
                                      !.conv = IF sid = 0 THEN used.convs + 1 ELSE sid]
  <2>1. /\ used'.convs = IF sid = 0 THEN used.convs + 1 ELSE used.convs
        /\ used'.turns = used.turns
    BY <1>6 DEF Typed, UsedType
  <2>2. /\ host'.conv = IF sid = 0 THEN used.convs + 1 ELSE sid
        /\ host'.q = <<turn.n>> /\ ~Absent'
    BY <1>6, NoAgentIs DEF HostType, Absent
  <2>3. Range(host'.q) = {turn.n}
    BY <1>2, <1>3, <2>2, RangeOfQueue
  <2>4. host'.conv >= 1 /\ host'.conv > hist.since[turn.n] /\ host'.conv <= used'.convs
    BY <1>1, <1>3, <2>1, <2>2 DEF ConvInv
  <2>5. ~hist.forgot => host'.conv > hist.cleared
    BY <1>1, <1>3, <2>2 DEF ConvInv
  <2>6. hist'.cleared <= used'.convs /\ sid' <= used'.convs
    BY <1>1, <1>3, <2>1 DEF ConvInv
  <2>7. host'.conv \in Nat
    BY <1>3, <2>2
  <2>8. ~(~hist'.forgot /\ ~Absent' /\ host'.conv <= hist'.cleared)
    BY <1>1, <1>3, <2>5, <2>7
  <2> QED BY <1>1, <1>2, <2>1, <2>2, <2>3, <2>4, <2>6, <2>8 DEF ConvInv
<1> QED BY <1>4, <1>5, <1>6 DEF HostTakes, Absent

LEMMA NextKeepsConv ==
  ASSUME Typed, StopInv, ConvInv, [Next]_vars
  PROVE  ConvInv'
<1>1. CASE Relay
  BY <1>1, RelayStepsKeepConv, EndsStepsKeepConv, AskKeepsConv, ReadKeepsConv, HostStepKeepsConv
     DEF Relay, Goes
<1>2. CASE Host
  BY <1>2, HostTakesKeepsConv, HostWritesKeepsConv, HostStepKeepsConv DEF Host
<1>3. CASE Person
  BY <1>3, SendTurnKeepsConv, StopKeepsConv, ClearKeepsConv, FollowKeepsConv DEF Person
<1>4. CASE Wrong
  BY <1>4, EndsStepsKeepConv, HostStepKeepsConv, RelayRestartsKeepsConv DEF Wrong
<1>5. CASE UNCHANGED vars
  BY <1>5 DEF vars, ConvInv, Absent, Barred
<1> QED BY <1>1, <1>2, <1>3, <1>4, <1>5 DEF Next

\* However many clears, turns and failures: a message sent after /clear is
\* never written to the conversation that was cleared, unless a restart of
\* the relay or a turn followed in between had made it forget the reset.
THEOREM ClearedStaysGone == Spec => []ClearedIsGone
<1>1. Init => ConvInv
  BY NoTurnIs, NoAgentIs DEF Init, ConvInv, Absent, Range
<1>2. Init => StopInv
  BY NoTurnIs DEF Init, StopInv
<1>3. ConvInv => ClearedIsGone
  BY DEF ConvInv, ClearedIsGone
<1> QED BY <1>1, <1>2, <1>3, InitTyped, NextTyped, NextKeepsStop, NextKeepsConv, PTL DEF Spec

-----------------------------------------------------------------------------
(***************************************************************************)
(* Whose records end a turn.                                               *)
(*                                                                         *)
(* A message given up is still to come or is past: read, and gone from the *)
(* host.  So a turn no earlier message can mislead, and whose own message  *)
(* was not folded into a turn already running, has the host to itself from *)
(* the moment it is written: the first end of turn after it on the log is  *)
(* its own.                                                                *)
(***************************************************************************)
Nowhere(m) ==
  m \notin Messages(host) /\ \A i \in 1..Len(log) : m \notin log[i].of

\* Nothing of m is still to be read, wherever reading goes on from.
Past(m) ==
  /\ m \notin Messages(host)
  /\ \A i \in 1..Len(log) : m \in log[i].of => i < cursor /\ (sub # 0 => i < sub)

Taken == turn.stage = "wait" \/ call.st \in {"host", "ok", "refused"}

Misled(n) == n \in hist.during \/ \E m \in 1..(n - 1) : m \in hist.left

Ending(i) == log[i].k # "message"

Once(q) == \A i, j \in 1..Len(q) : q[i] = q[j] => i = j

\* A message waits once, is then written once, and its end is the last the
\* log says of it.
ShapeInv ==
  /\ Once(host.q)
  /\ Range(host.q) \cap host.pend = {}
  /\ host.st # "working" => host.pend = {} /\ ~host.own
  /\ \A m \in Range(host.q) : \A i \in 1..Len(log) : m \notin log[i].of
  /\ \A i \in 1..Len(log) : Ending(i) =>
       \A m \in log[i].of : m \notin Messages(host) /\ \A j \in (i + 1)..Len(log) : m \notin log[j].of
  /\ \A i \in 1..Len(log) : ~Ending(i) => log[i].of # {}

\* The host knows only of turns whose request it took.
PlaceInv ==
  /\ turn.n \in {0, used.turns}
  /\ \A m \in Turns : m > used.turns => Nowhere(m)
  /\ turn.n # 0 /\ ~Taken => Nowhere(turn.n)

\* Nothing is read while an agent is created, which has one message only.
SpawnInv ==
  call.kind = "spawn" =>
    /\ sub = 0 /\ call.st # "none"
    /\ call.st \in {"host", "ok"} =>
         Messages(host) \subseteq {turn.n} /\ \A i \in 1..Len(log) : log[i].of \subseteq {turn.n}

PastInv ==
  /\ \A m \in 1..used.turns : (m = turn.n => turn.res = "done") /\ m \notin hist.left => Past(m)
  /\ turn.n # 0 => \A i \in 1..Len(log) : turn.n \in log[i].of /\ i < sub => i < cursor
  /\ turn.n # 0 /\ turn.res = "done" =>
       turn.stage = "call" /\ call.st \in {"host", "ok", "refused"} /\ call.kind # "spawn"

\* The end of turn after record i is that of n's message, or will be.
Answering(i, n) ==
  \/ n \in host.pend /\ \A j \in (i + 1)..Len(log) : ~Ending(j)
  \/ \E j \in (i + 1)..Len(log) : /\ Ending(j) /\ n \in log[j].of
                                  /\ \A x \in (i + 1)..(j - 1) : ~Ending(x)

HostOwn(n) ==
  /\ n \in host.pend => ~host.own
  /\ \A i \in 1..Len(log) : ~Ending(i) /\ n \in log[i].of => Answering(i, n)

\* The message of n was read, and no end of turn after it.
Heard(n) ==
  \E i \in 1..Len(log) : /\ i < sub /\ ~Ending(i) /\ n \in log[i].of
                         /\ \A x \in (i + 1)..(sub - 1) : ~Ending(x)

OwnInv ==
  turn.n # 0 /\ ~Misled(turn.n) =>
    /\ HostOwn(turn.n)
    /\ turn.started /\ turn.res = "open" => Heard(turn.n)
    /\ turn.res # "early"

EndInv == ShapeInv /\ PlaceInv /\ SpawnInv /\ PastInv /\ OwnInv /\ EndsOnOwn

-----------------------------------------------------------------------------
(* What the steps have in common.                                            *)

\* A message the host does not have appears nowhere.
LogKept ==
  \A m \in Turns : m \notin Messages(host) =>
    /\ m \notin Messages(host)'
    /\ \A i \in 1..Len(log') : m \in log'[i].of => i \in 1..Len(log) /\ m \in log[i].of

Prefix == \A i \in 1..Len(log) : i \in 1..Len(log') /\ log'[i] = log[i]

Advances ==
  \A i \in 1..Len(log) :
    i < cursor /\ (sub # 0 => i < sub) => i < cursor' /\ (sub' # 0 => i < sub')

HistGrows == hist.left \subseteq hist'.left /\ hist.during \subseteq hist'.during

Closes(r) ==
  /\ hist'.during = hist.during
  /\ IF turn.n = 0 THEN hist'.out = hist.out /\ hist'.left = hist.left
     ELSE /\ hist'.out = [hist.out EXCEPT ![turn.n] = r]
          /\ hist'.left = IF r = "done" THEN hist.left ELSE hist.left \cup ({turn.n} \cap ToCome)

\* The request is answered, or stays as it is.
CallOn ==
  /\ call'.kind = call.kind
  /\ call'.st = call.st \/ (call.st = "host" /\ call'.st \in {"ok", "refused"})

LEMMA SizesAre ==
  ASSUME Typed
  PROVE  /\ Len(log) \in Nat /\ sub \in Nat /\ sub <= Len(log) + 1 /\ cursor \in Nat
         /\ used.turns \in Nat /\ used.turns <= MaxTurns /\ MaxTurns \in Nat
         /\ turn.n \in 0..MaxTurns /\ (turn.n # 0 => turn.n \in Turns)
         /\ \A m \in 1..used.turns : m \in Turns
<1>1. Len(log) \in Nat /\ sub \in 0..(Len(log) + 1) /\ cursor \in Nat
  BY LenProperties DEF Typed
<1>2. used.turns \in 0..MaxTurns /\ MaxTurns \in Nat /\ turn.n \in 0..MaxTurns
  BY BoundsAssumption DEF Typed, UsedType, TurnType
<1> QED BY <1>1, <1>2 DEF Turns

LEMMA RecordsAre ==
  ASSUME Typed
  PROVE  /\ \A i \in 1..Len(log) : log[i] \in LogRecord /\ log[i].of \subseteq Turns
         /\ Messages(host) \subseteq Turns /\ Range(host.q) \subseteq Messages(host)
         /\ host.pend \subseteq Messages(host)
<1>1. \A i \in 1..Len(log) : log[i] \in LogRecord
  BY DEF Typed
<1>2. Range(host.q) \subseteq Turns /\ host.pend \subseteq Turns
  BY DEF Range, Typed, HostType
<1> QED BY <1>1, <1>2 DEF LogRecord, Messages

LEMMA MisledStays ==
  ASSUME HistGrows, NEW n, Misled(n)
  PROVE  Misled(n)'
BY DEF HistGrows, Misled

LEMMA NowhereStays ==
  ASSUME LogKept, NEW m \in Turns, Nowhere(m)
  PROVE  Nowhere(m)'
BY DEF LogKept, Nowhere

LEMMA PastStays ==
  ASSUME LogKept, Advances, NEW m \in Turns, Past(m)
  PROVE  Past(m)'
BY DEF LogKept, Advances, Past

\* A turn given up whose message is not to come is past.
LEMMA GivenUp ==
  ASSUME Typed, EndInv, turn.n # 0, turn.n \notin ToCome
  PROVE  Past(turn.n)
<1>1. turn.n \notin Messages(host)
  BY DEF ToCome
<1>2. ASSUME NEW i \in 1..Len(log), turn.n \in log[i].of
      PROVE  i < sub
  BY <1>2, SizesAre DEF ToCome, Unread
<1>3. \A i \in 1..Len(log) : turn.n \in log[i].of /\ i < sub => i < cursor
  BY DEF EndInv, PastInv
<1> QED BY <1>1, <1>2, <1>3 DEF Past

LEMMA EndedCloses ==
  ASSUME Typed, NEW r \in {"forgotten"} \cup Results, hist' = Ended(hist, turn, r)
  PROVE  Closes(r)
<1>1. CASE turn.n = 0
  BY <1>1 DEF Ended, Closes
<1>2. CASE turn.n # 0
  <2> DEFINE l == IF r = "done" THEN hist.left ELSE hist.left \cup ({turn.n} \cap ToCome)
             o == [hist.out EXCEPT ![turn.n] = r]
  <2>1. hist' = [hist EXCEPT !.out = o, !.left = l]
    BY <1>2 DEF Ended, Typed, HistType
  <2> HIDE DEF l, o
  <2>2. hist'.out = o /\ hist'.left = l /\ hist'.during = hist.during
    BY <2>1 DEF Typed, HistType
  <2> QED BY <1>2, <2>2 DEF Closes, l, o
<1> QED BY <1>1, <1>2

LEMMA ClosesGrows ==
  ASSUME NEW r, Closes(r)
  PROVE  HistGrows
BY DEF Closes, HistGrows

LEMMA EndsOnOwnStays ==
  ASSUME HistGrows, hist'.out = hist.out, EndsOnOwn
  PROVE  EndsOnOwn'
<1> SUFFICES ASSUME NEW n \in Turns, hist'.out[n] = "early"
             PROVE  Misled(n)'
  BY DEF EndsOnOwn, Misled
<1>1. Misled(n)
  BY DEF EndsOnOwn, Misled
<1> QED BY <1>1, MisledStays

\* The turn ends as r, or there is none.
LEMMA OverKeeps ==
  ASSUME Typed, EndInv, ShapeInv', LogKept, used'.turns = used.turns,
         turn'.n = 0, call'.kind # "spawn", NEW r, Closes(r),
         \A m \in Turns : m # turn.n /\ Past(m) => Past(m)',
         \A m \in Turns : m = turn.n /\ m \notin hist'.left /\ (r = "done" \/ m \notin ToCome) => Past(m)',
         turn.n # 0 /\ r = "early" => Misled(turn.n)
  PROVE  EndInv'
<1>1. PlaceInv'
  <2>1. \A m \in Turns : m > used.turns => Nowhere(m)'
    BY NowhereStays DEF EndInv, PlaceInv
  <2> QED BY <2>1 DEF PlaceInv
<1>2. SpawnInv'
  BY DEF SpawnInv
<1>3. PastInv'
  <2> SUFFICES ASSUME NEW m \in 1..used.turns, m \notin hist'.left
               PROVE  Past(m)'
    BY DEF PastInv
  <2>1. m \in Turns /\ m # 0
    BY SizesAre
  <2>2. CASE m = turn.n
    <3>1. r = "done" \/ m \notin ToCome
      BY <2>1, <2>2 DEF Closes
    <3> QED BY <2>1, <2>2, <3>1
  <2>3. CASE m # turn.n
    <3>1. m \notin hist.left
      BY DEF Closes
    <3>2. Past(m)
      BY <2>3, <3>1 DEF EndInv, PastInv
    <3> QED BY <2>1, <2>3, <3>2
  <2> QED BY <2>2, <2>3
<1>4. OwnInv'
  BY DEF OwnInv
<1>5. EndsOnOwn'
  <2>0. HistGrows
    BY ClosesGrows
  <2>1. CASE turn.n = 0
    <3>1. hist'.out = hist.out
      BY <2>1 DEF Closes
    <3> QED BY <2>0, <3>1, EndsOnOwnStays DEF EndInv
  <2>2. CASE turn.n # 0
    <3> SUFFICES ASSUME NEW n \in Turns, hist'.out[n] = "early"
                 PROVE  Misled(n)'
      BY DEF EndsOnOwn, Misled
    <3>1. hist'.out = [hist.out EXCEPT ![turn.n] = r] /\ hist.out \in [Turns -> {"none", "forgotten"} \cup Results]
      BY <2>2 DEF Closes, Typed, HistType
    <3>2. Misled(n)
      <4>1. CASE n = turn.n
        BY <2>2, <3>1, <4>1
      <4>2. CASE n # turn.n
        <5>1. hist.out[n] = "early"
          BY <3>1, <4>2
        <5> QED BY <5>1 DEF EndInv, EndsOnOwn, Misled
      <4> QED BY <4>1, <4>2
    <3> QED BY <2>0, <3>2, MisledStays
  <2> QED BY <2>1, <2>2
<1> QED BY <1>1, <1>2, <1>3, <1>4, <1>5 DEF EndInv

\* The same, as reading advances.
LEMMA OverAdvances ==
  ASSUME Typed, EndInv, ShapeInv', LogKept, Advances, used'.turns = used.turns,
         turn'.n = 0, call'.kind # "spawn", NEW r, Closes(r),
         \A m \in Turns : m = turn.n /\ m \notin hist'.left /\ r = "done" => Past(m) \/ Past(m)',
         turn.n # 0 /\ r = "early" => Misled(turn.n)
  PROVE  EndInv'
<1>1. \A m \in Turns : Past(m) => Past(m)'
  BY PastStays
<1>2. ASSUME NEW m \in Turns, m = turn.n, m \notin hist'.left, r = "done" \/ m \notin ToCome
      PROVE  Past(m)'
  <2>1. CASE r = "done"
    BY <1>1, <1>2, <2>1
  <2>2. CASE m \notin ToCome
    <3>1. m # 0
      BY DEF Turns
    <3>2. Past(m)
      BY <1>2, <2>2, <3>1, GivenUp
    <3> QED BY <1>1, <3>2
  <2> QED BY <1>2, <2>1, <2>2
<1> QED BY <1>1, <1>2, OverKeeps

\* A turn nothing misleads has the host to itself.
LEMMA OnlyOwn ==
  ASSUME Typed, EndInv, turn.n # 0, ~Misled(turn.n)
  PROVE  /\ Messages(host) \subseteq {turn.n}
         /\ \A i \in 1..Len(log), m \in Turns :
              m \in log[i].of /\ m # turn.n => i < cursor /\ (sub # 0 => i < sub)
<1>1. ASSUME NEW m \in Turns, m # turn.n, ~Nowhere(m)
      PROVE  Past(m)
  <2>1. m \in 1..used.turns
    <3>1. ~(m > used.turns)
      BY <1>1 DEF EndInv, PlaceInv
    <3> QED BY <3>1, SizesAre DEF Turns
  <2>2. turn.n = used.turns
    BY DEF EndInv, PlaceInv
  <2>3. m \in 1..(turn.n - 1)
    BY <1>1, <2>1, <2>2, SizesAre
  <2>4. m \notin hist.left
    BY <2>3 DEF Misled
  <2> QED BY <1>1, <2>1, <2>4 DEF EndInv, PastInv
<1>2. ASSUME NEW m \in Messages(host), m # turn.n
      PROVE  FALSE
  <2>1. m \in Turns
    BY RecordsAre
  <2> QED BY <1>1, <1>2, <2>1 DEF Nowhere, Past
<1>3. ASSUME NEW i \in 1..Len(log), NEW m \in Turns, m \in log[i].of, m # turn.n
      PROVE  i < cursor /\ (sub # 0 => i < sub)
  BY <1>1, <1>3 DEF Nowhere, Past
<1> QED BY <1>2, <1>3

LEMMA HeardStays ==
  ASSUME Typed, Prefix, sub' = sub, NEW n, Heard(n)
  PROVE  Heard(n)'
<1>1. PICK i \in 1..Len(log) : /\ i < sub /\ ~Ending(i) /\ n \in log[i].of
                               /\ \A x \in (i + 1)..(sub - 1) : ~Ending(x)
  BY DEF Heard
<1>2. i \in 1..Len(log') /\ log'[i] = log[i]
  BY DEF Prefix
<1>3. ASSUME NEW x \in (i + 1)..(sub - 1)
      PROVE  ~Ending(x)'
  <2>1. x \in 1..Len(log)
    BY SizesAre
  <2> QED BY <1>1, <2>1 DEF Prefix, Ending
<1>4. ~Ending(i)' /\ n \in log'[i].of /\ i < sub'
  BY <1>1, <1>2 DEF Ending
<1> QED BY <1>2, <1>3, <1>4 DEF Heard

LEMMA RecordsAreNext ==
  ASSUME Typed'
  PROVE  /\ Messages(host)' \subseteq Turns
         /\ \A i \in 1..Len(log') : log'[i].of \subseteq Turns
<1>1. \A i \in 1..Len(log') : log'[i] \in LogRecord
  BY DEF Typed
<1>2. Range(host'.q) \subseteq Turns /\ host'.pend \subseteq Turns
  BY DEF Range, Typed, HostType
<1> QED BY <1>1, <1>2 DEF LogRecord, Messages

\* The turn goes on where it stands, and the log with it.
LEMMA StaysKeeps ==
  ASSUME Typed, Typed', EndInv, ShapeInv', LogKept, Prefix, HistGrows, CallOn,
         used'.turns = used.turns, hist'.out = hist.out,
         turn'.n = turn.n, turn'.stage = turn.stage, turn'.started = turn.started,
         turn'.res = turn.res \/ turn'.res \in {"failed", "stopped"},
         cursor' = cursor, sub' \in {0, sub}, sub' # sub => turn'.res # "open",
         \A n \in Turns : n = turn.n /\ ~Misled(n)' /\ Messages(host) \subseteq {n} /\ HostOwn(n)
                          => HostOwn(n)'
  PROVE  EndInv'
<1>1. PlaceInv'
  <2>1. \A m \in Turns : m > used.turns => Nowhere(m)'
    BY NowhereStays DEF EndInv, PlaceInv
  <2>2. ASSUME turn.n # 0, ~Taken'
        PROVE  Nowhere(turn.n)'
    <3>1. ~Taken
      BY <2>2 DEF Taken, CallOn
    <3>2. Nowhere(turn.n) /\ turn.n \in Turns
      BY <2>2, <3>1, SizesAre DEF EndInv, PlaceInv
    <3> QED BY <3>2, NowhereStays
  <2> QED BY <2>1, <2>2 DEF EndInv, PlaceInv, Nowhere
<1>2. SpawnInv'
  <2> SUFFICES ASSUME call'.kind = "spawn"
               PROVE  /\ sub' = 0 /\ call'.st # "none"
                      /\ call'.st \in {"host", "ok"} =>
                           /\ Messages(host)' \subseteq {turn'.n}
                           /\ \A i \in 1..Len(log') : log'[i].of \subseteq {turn'.n}
    BY DEF SpawnInv, Messages
  <2>1. sub = 0 /\ call.st # "none" /\ call.kind = "spawn"
    BY DEF CallOn, EndInv, SpawnInv
  <2>2. ASSUME call'.st \in {"host", "ok"}
        PROVE  /\ Messages(host) \subseteq {turn.n}
               /\ \A i \in 1..Len(log) : log[i].of \subseteq {turn.n}
    BY <2>1, <2>2 DEF CallOn, EndInv, SpawnInv
  <2>3. ASSUME call'.st \in {"host", "ok"}, NEW m \in Messages(host)'
        PROVE  m = turn.n
    BY <2>2, <2>3, RecordsAreNext DEF LogKept
  <2>4. ASSUME call'.st \in {"host", "ok"}, NEW i \in 1..Len(log'), NEW m \in log'[i].of
        PROVE  m = turn.n
    <3>1. m \in Turns
      BY RecordsAreNext
    <3> QED BY <2>2, <2>4, <3>1 DEF LogKept
  <2> QED BY <2>1, <2>3, <2>4 DEF CallOn
<1>3. PastInv'
  <2>0. Advances
    BY DEF Advances
  <2>1. ASSUME NEW m \in 1..used.turns, m = turn.n => turn'.res = "done", m \notin hist'.left
        PROVE  Past(m)'
    <3>1. m \in Turns /\ Past(m)
      BY <2>1, SizesAre DEF HistGrows, EndInv, PastInv
    <3> QED BY <2>0, <3>1, PastStays
  <2>2. ASSUME turn.n # 0, NEW i \in 1..Len(log'), turn.n \in log'[i].of, i < sub'
        PROVE  i < cursor'
    <3>1. i \in 1..Len(log) /\ i < sub
      BY <2>2, SizesAre
    <3>2. turn.n \in log[i].of
      BY <2>2, <3>1 DEF Prefix
    <3> QED BY <2>2, <3>1, <3>2 DEF EndInv, PastInv
  <2>3. ASSUME turn.n # 0, turn'.res = "done"
        PROVE  turn'.stage = "call" /\ call'.st \in {"host", "ok", "refused"} /\ call'.kind # "spawn"
    BY <2>3 DEF CallOn, EndInv, PastInv
  <2> QED BY <2>1, <2>2, <2>3 DEF PastInv
<1>4. OwnInv'
  <2> SUFFICES ASSUME turn.n # 0, ~Misled(turn.n)'
               PROVE  /\ HostOwn(turn.n)'
                      /\ turn'.started /\ turn'.res = "open" => Heard(turn.n)'
                      /\ turn'.res # "early"
    BY DEF OwnInv, Misled, HostOwn, Heard, Answering
  <2>0. turn.n \in Turns
    BY SizesAre
  <2>1. ~Misled(turn.n)
    BY MisledStays
  <2>2. /\ HostOwn(turn.n) /\ turn.res # "early"
        /\ turn.started /\ turn.res = "open" => Heard(turn.n)
    BY <2>1 DEF EndInv, OwnInv
  <2>3. HostOwn(turn.n)'
    BY <2>0, <2>1, <2>2, OnlyOwn
  <2>4. ASSUME turn'.started, turn'.res = "open"
        PROVE  Heard(turn.n)'
    <3>1. Heard(turn.n) /\ sub' = sub
      BY <2>2, <2>4
    <3> QED BY <3>1, HeardStays
  <2> QED BY <2>2, <2>3, <2>4
<1>5. EndsOnOwn'
  BY EndsOnOwnStays DEF EndInv
<1> QED BY <1>1, <1>2, <1>3, <1>4, <1>5 DEF EndInv

\* The turn goes on, and the host still knows nothing of it.
LEMMA UntakenKeeps ==
  ASSUME Typed, EndInv, ShapeInv', LogKept, Advances, HistGrows,
         used'.turns = used.turns, hist'.out = hist.out,
         turn.n # 0, ~Taken, turn'.n = turn.n, turn'.started = turn.started, turn'.res = turn.res,
         call'.kind = "spawn" => sub' = 0 /\ call'.st \in {"wire", "unknown", "exists"}
  PROVE  EndInv'
<1>0. turn.n \in Turns /\ Nowhere(turn.n) /\ turn.res # "done" /\ turn.n = used.turns
  BY SizesAre DEF EndInv, PlaceInv, PastInv, Taken
<1>1. Nowhere(turn.n)'
  BY <1>0, NowhereStays
<1>2. PlaceInv'
  <2>1. \A m \in Turns : m > used.turns => Nowhere(m)'
    BY NowhereStays DEF EndInv, PlaceInv
  <2> QED BY <1>0, <1>1, <2>1 DEF PlaceInv, Nowhere
<1>3. SpawnInv'
  BY DEF SpawnInv
<1>4. PastInv'
  <2>1. ASSUME NEW m \in 1..used.turns, m = turn.n => turn'.res = "done", m \notin hist'.left
        PROVE  Past(m)'
    <3>1. m \in Turns /\ Past(m)
      BY <1>0, <2>1, SizesAre DEF HistGrows, EndInv, PastInv
    <3> QED BY <3>1, PastStays
  <2>2. \A i \in 1..Len(log') : turn.n \notin log'[i].of
    BY <1>1 DEF Nowhere
  <2> QED BY <1>0, <2>1, <2>2 DEF PastInv
<1>5. OwnInv'
  <2> SUFFICES ASSUME ~Misled(turn.n)'
               PROVE  /\ HostOwn(turn.n)'
                      /\ ~(turn'.started /\ turn'.res = "open")
                      /\ turn'.res # "early"
    BY DEF OwnInv, Misled, HostOwn, Heard, Answering
  <2>1. ~Misled(turn.n)
    BY MisledStays
  <2>2. HostOwn(turn.n)'
    BY <1>1 DEF HostOwn, Nowhere, Messages
  <2>3. ~Heard(turn.n)
    BY <1>0 DEF Heard, Nowhere
  <2> QED BY <2>1, <2>2, <2>3 DEF EndInv, OwnInv
<1>6. EndsOnOwn'
  BY EndsOnOwnStays DEF EndInv
<1> QED BY <1>2, <1>3, <1>4, <1>5, <1>6 DEF EndInv

-----------------------------------------------------------------------------
(* The host's steps.                                                         *)
LEMMA OnceIs ==
  ASSUME NEW q \in Seq(Turns), Once(q)
  PROVE  /\ Once(<<>>)
         /\ q # <<>> => /\ Once(Tail(q)) /\ Head(q) \in Turns
                        /\ Head(q) \in Range(q) /\ Head(q) \notin Range(Tail(q))
                        /\ Range(q) = {Head(q)} \cup Range(Tail(q))
         /\ \A m \in Turns : Once(<<m>>) /\ (m \notin Range(q) => Once(Append(q, m)))
<1>0. Len(q) \in Nat /\ DOMAIN q = 1..Len(q)
  BY LenProperties
<1>1. Once(<<>>)
  BY DEF Once
<1>2. ASSUME q # <<>>
      PROVE  /\ Once(Tail(q)) /\ Head(q) \in Turns
             /\ Head(q) \in Range(q) /\ Head(q) \notin Range(Tail(q))
             /\ Range(q) = {Head(q)} \cup Range(Tail(q))
  <2>1. Len(q) # 0 /\ Head(q) = q[1] /\ 1 \in DOMAIN q
    BY <1>0, <1>2, EmptySeq, LenProperties
  <2>2. /\ Len(Tail(q)) = Len(q) - 1 /\ DOMAIN Tail(q) = 1..(Len(q) - 1)
        /\ \A i \in 1..(Len(q) - 1) : Tail(q)[i] = q[i + 1]
    BY <1>2, <2>1, HeadTailProperties, LenProperties
  <2>3. \A i \in 1..(Len(q) - 1) : i + 1 \in 1..Len(q)
    BY <1>0
  <2>4. Once(Tail(q))
    <3> SUFFICES ASSUME NEW i \in 1..(Len(q) - 1), NEW j \in 1..(Len(q) - 1), Tail(q)[i] = Tail(q)[j]
                 PROVE  i = j
      BY <2>2 DEF Once
    <3>1. i + 1 \in 1..Len(q) /\ j + 1 \in 1..Len(q) /\ q[i + 1] = q[j + 1]
      BY <2>2, <2>3
    <3>2. i + 1 = j + 1
      BY <3>1 DEF Once
    <3> QED BY <3>2
  <2>5. Head(q) \notin Range(Tail(q))
    <3> SUFFICES ASSUME NEW i \in 1..(Len(q) - 1), Tail(q)[i] = Head(q)
                 PROVE  FALSE
      BY <2>2 DEF Range
    <3>1. i + 1 \in 1..Len(q) /\ 1 \in 1..Len(q) /\ q[i + 1] = q[1]
      BY <1>0, <2>1, <2>2, <2>3
    <3>2. i + 1 = 1
      BY <3>1 DEF Once
    <3> QED BY <3>2
  <2>6. Range(q) = {Head(q)} \cup Range(Tail(q))
    <3>1. Range(Tail(q)) \subseteq Range(q)
      BY <1>2, RangeOfQueue
    <3>2. ASSUME NEW i \in 1..Len(q)
          PROVE  q[i] \in {Head(q)} \cup Range(Tail(q))
      <4>1. CASE i = 1
        BY <2>1, <4>1
      <4>2. CASE i # 1
        <5>1. i - 1 \in 1..(Len(q) - 1) /\ (i - 1) + 1 = i
          BY <1>0, <4>2
        <5>2. Tail(q)[i - 1] = q[i]
          BY <2>2, <5>1
        <5> QED BY <2>2, <5>1, <5>2 DEF Range
      <4> QED BY <4>1, <4>2
    <3> QED BY <1>0, <2>1, <3>1, <3>2 DEF Range
  <2>7. Head(q) \in Turns /\ Head(q) \in Range(q)
    BY <2>1 DEF Range
  <2> QED BY <2>4, <2>5, <2>6, <2>7
<1>3. ASSUME NEW m \in Turns
      PROVE  Once(<<m>>)
  BY DEF Once
<1>4. ASSUME NEW m \in Turns, m \notin Range(q)
      PROVE  Once(Append(q, m))
  <2> DEFINE p == Append(q, m)
  <2>1. /\ Len(p) = Len(q) + 1 /\ p[Len(q) + 1] = m
        /\ \A i \in 1..Len(q) : p[i] = q[i]
    BY AppendProperties, LenProperties
  <2>2. \A i \in 1..Len(q) : q[i] # m
    BY <1>0, <1>4 DEF Range
  <2> HIDE DEF p
  <2> SUFFICES ASSUME NEW i \in 1..(Len(q) + 1), NEW j \in 1..(Len(q) + 1), p[i] = p[j]
               PROVE  i = j
    BY <2>1 DEF Once, p
  <2>3. CASE i \in 1..Len(q) /\ j \in 1..Len(q)
    BY <2>1, <2>3 DEF Once
  <2>4. CASE i = Len(q) + 1 \/ j = Len(q) + 1
    BY <1>0, <2>1, <2>2, <2>4
  <2> QED BY <1>0, <2>3, <2>4
<1> QED BY <1>1, <1>2, <1>3, <1>4

LEMMA AppendIs ==
  ASSUME Typed, NEW r \in LogRecord, log' = Append(log, r)
  PROVE  /\ Len(log) \in Nat /\ Len(log') = Len(log) + 1 /\ log'[Len(log) + 1] = r
         /\ \A i \in 1..Len(log) : i \in 1..Len(log') /\ log'[i] = log[i]
         /\ \A i \in 1..Len(log') : i \in 1..Len(log) \/ i = Len(log) + 1
<1>1. Len(log) \in Nat /\ Len(log') = Len(log) + 1 /\ log'[Len(log) + 1] = r
  BY LenProperties, AppendProperties DEF Typed
<1>2. \A i \in 1..Len(log) : log'[i] = log[i]
  BY LenProperties, AppendProperties DEF Typed
<1> QED BY <1>1, <1>2

\* What the host's steps keep of a turn that has the host to itself.
OwnKept == \A n \in Turns : n = turn.n /\ ~Misled(n)' /\ Messages(host) \subseteq {n} /\ HostOwn(n) => HostOwn(n)'

\* An end of turn, or of the process, is logged.
LEMMA AnswerKeeps ==
  ASSUME Typed, Typed', EndInv, NEW k \in {"result", "invalid", "exited"}, NEW of \in SUBSET host.pend,
         log' = Append(log, [k |-> k, of |-> of]),
         host'.pend = host.pend \ of, ~host'.own, host'.q \in {host.q, <<>>},
         host'.st # "working" => of = host.pend,
         of # {} \/ host.own \/ of = host.pend
  PROVE  ShapeInv' /\ LogKept /\ Prefix /\ OwnKept
<1> DEFINE r == [k |-> k, of |-> of]
<1>0. PICK last \in Nat : last = Len(log) + 1
  BY LenProperties DEF Typed
<1>1. r \in LogRecord /\ r.k # "message" /\ r.of = of /\ of \subseteq Messages(host)
  BY DEF LogRecord, Typed, HostType, Messages
<1> HIDE DEF r
<1>2. /\ Len(log) \in Nat /\ Len(log') = last /\ log'[last] = r
      /\ \A i \in 1..Len(log) : i \in 1..Len(log') /\ log'[i] = log[i]
      /\ \A i \in 1..Len(log') : i \in 1..Len(log) \/ i = last
  BY <1>0, <1>1, AppendIs DEF r
<1>3. Range(host'.q) \subseteq Range(host.q) /\ Once(host'.q)
  BY OnceIs, RangeOfQueue DEF EndInv, ShapeInv, Typed, HostType
<1>4. Messages(host)' \subseteq Messages(host) /\ Messages(host)' = Range(host'.q) \cup (host.pend \ of)
  BY <1>3 DEF Messages
<1>5. Prefix
  BY <1>2 DEF Prefix
<1>6. LogKept
  BY <1>1, <1>2, <1>4 DEF LogKept
<1>7. /\ \A i \in 1..Len(log) : (Ending(i)' <=> Ending(i))
      /\ Ending(last)'
  <2>1. ASSUME NEW i \in 1..Len(log)
        PROVE  Ending(i)' <=> Ending(i)
    BY <1>2 DEF Ending
  <2>2. Ending(last)'
    BY <1>1, <1>2 DEF Ending
  <2> QED BY <2>1, <2>2
<1>8. ShapeInv'
  <2>1. Range(host'.q) \cap host'.pend = {}
    BY <1>3 DEF EndInv, ShapeInv
  <2>2. host'.st # "working" => host'.pend = {} /\ ~host'.own
    OBVIOUS
  <2>3. ASSUME NEW m \in Range(host'.q), NEW i \in 1..Len(log')
        PROVE  m \notin log'[i].of
    <3>1. CASE i \in 1..Len(log)
      BY <1>2, <1>3, <2>3, <3>1 DEF EndInv, ShapeInv
    <3>2. CASE i = last
      BY <1>1, <1>2, <1>3, <3>2 DEF EndInv, ShapeInv
    <3> QED BY <1>2, <3>1, <3>2
  <2>4. ASSUME NEW i \in 1..Len(log'), Ending(i)', NEW m \in log'[i].of
        PROVE  m \notin Messages(host)' /\ \A j \in (i + 1)..Len(log') : m \notin log'[j].of
    <3>1. CASE i \in 1..Len(log)
      <4>1. Ending(i) /\ m \in log[i].of
        BY <1>2, <1>7, <2>4, <3>1
      <4>2. m \notin Messages(host) /\ \A j \in (i + 1)..Len(log) : m \notin log[j].of
        BY <3>1, <4>1 DEF EndInv, ShapeInv
      <4>3. ASSUME NEW j \in (i + 1)..Len(log')
            PROVE  m \notin log'[j].of
        <5>1. CASE j = last
          BY <1>1, <1>2, <4>2, <5>1
        <5>2. CASE j # last
          <6>1. j \in (i + 1)..Len(log) /\ j \in 1..Len(log)
            BY <1>2, <3>1, <5>2
          <6> QED BY <1>2, <4>2, <6>1
        <5> QED BY <5>1, <5>2
      <4> QED BY <1>4, <4>2, <4>3
    <3>2. CASE i = last
      <4>1. m \in of
        BY <1>1, <1>2, <2>4, <3>2
      <4>2. m \notin Range(host.q)
        BY <4>1 DEF EndInv, ShapeInv
      <4> QED BY <1>2, <1>3, <1>4, <3>2, <4>1, <4>2
    <3> QED BY <1>2, <3>1, <3>2
  <2>5. ASSUME NEW i \in 1..Len(log'), ~Ending(i)'
        PROVE  log'[i].of # {}
    <3>1. i \in 1..Len(log) /\ ~Ending(i)
      BY <1>2, <1>7, <2>5
    <3> QED BY <1>2, <3>1 DEF EndInv, ShapeInv
  <2> QED BY <1>3, <2>1, <2>2, <2>3, <2>4, <2>5 DEF ShapeInv
<1>9. OwnKept
  <2> SUFFICES ASSUME NEW n \in Turns, Messages(host) \subseteq {n}, HostOwn(n)
               PROVE  HostOwn(n)'
    BY DEF OwnKept, HostOwn, Answering, Misled
  <2> SUFFICES ASSUME NEW i \in 1..Len(log'), ~Ending(i)', n \in log'[i].of
               PROVE  Answering(i, n)'
    BY DEF HostOwn
  <2>1. i \in 1..Len(log) /\ ~Ending(i) /\ n \in log[i].of
    BY <1>2, <1>7
  <2>2. Answering(i, n)
    BY <2>1 DEF HostOwn
  <2>3. CASE n \in host.pend /\ \A j \in (i + 1)..Len(log) : ~Ending(j)
    <3>1. n \in of
      <4>1. ~host.own
        BY <2>3 DEF HostOwn
      <4>2. of \subseteq {n}
        BY <1>1
      <4> QED BY <2>3, <4>1, <4>2
    <3>2. last \in (i + 1)..Len(log') /\ Ending(last)' /\ n \in log'[last].of
      BY <1>1, <1>2, <1>7, <2>1, <3>1
    <3>3. ASSUME NEW x \in (i + 1)..(last - 1)
          PROVE  ~Ending(x)'
      <4>1. x \in (i + 1)..Len(log) /\ x \in 1..Len(log)
        BY <1>2, <2>1
      <4> QED BY <1>7, <2>3, <4>1
    <3>4. \E j \in (i + 1)..Len(log') : /\ Ending(j)' /\ n \in log'[j].of
                                        /\ \A x \in (i + 1)..(j - 1) : ~Ending(x)'
      BY <3>2, <3>3
    <3> QED BY <3>4 DEF Answering
  <2>4. CASE \E j \in (i + 1)..Len(log) : /\ Ending(j) /\ n \in log[j].of
                                          /\ \A x \in (i + 1)..(j - 1) : ~Ending(x)
    <3>1. PICK j \in (i + 1)..Len(log) : /\ Ending(j) /\ n \in log[j].of
                                         /\ \A x \in (i + 1)..(j - 1) : ~Ending(x)
      BY <2>4
    <3>2. j \in (i + 1)..Len(log') /\ j \in 1..Len(log)
      BY <1>2, <2>1
    <3>3. Ending(j)' /\ n \in log'[j].of
      BY <1>2, <1>7, <3>1, <3>2
    <3>4. ASSUME NEW x \in (i + 1)..(j - 1)
          PROVE  ~Ending(x)'
      <4>1. x \in 1..Len(log)
        BY <1>2, <2>1
      <4> QED BY <1>7, <3>1, <4>1
    <3> QED BY <3>2, <3>3, <3>4 DEF Answering
  <2> QED BY <2>2, <2>3, <2>4 DEF Answering
<1> QED BY <1>5, <1>6, <1>8, <1>9

\* Messages are dropped, or the CLI goes on by itself: the log says nothing.
LEMMA DropKeeps ==
  ASSUME Typed, EndInv, log' = log, host'.pend = host.pend,
         host'.own = host.own \/ (host.pend = {} /\ host'.st = "working"),
         host'.st = host.st \/ host'.st = "working",
         Range(host'.q) \subseteq Range(host.q), Once(host'.q)
  PROVE  ShapeInv' /\ LogKept /\ Prefix /\ OwnKept
<1>1. Messages(host)' \subseteq Messages(host)
  BY DEF Messages
<1>2. LogKept /\ Prefix
  BY <1>1 DEF LogKept, Prefix
<1>3. ShapeInv'
  <2>1. host'.st # "working" => host'.pend = {} /\ ~host'.own
    BY DEF EndInv, ShapeInv
  <2>2. Range(host'.q) \cap host'.pend = {} /\ \A m \in Range(host'.q) : \A i \in 1..Len(log) : m \notin log[i].of
    BY DEF EndInv, ShapeInv
  <2>3. \A i \in 1..Len(log) : Ending(i) =>
          \A m \in log[i].of : m \notin Messages(host)' /\ \A j \in (i + 1)..Len(log) : m \notin log[j].of
    BY <1>1 DEF EndInv, ShapeInv
  <2>4. \A i \in 1..Len(log) : ~Ending(i) => log[i].of # {}
    BY DEF EndInv, ShapeInv
  <2> QED BY <2>1, <2>2, <2>3, <2>4 DEF ShapeInv, Ending
<1>4. OwnKept
  BY DEF OwnKept, HostOwn, Answering, Ending, Misled
<1> QED BY <1>2, <1>3, <1>4

\* The agent is forgotten, and its log with it.
LEMMA ForgetKeeps ==
  ASSUME host' = NoAgent, log' = <<>>
  PROVE  ShapeInv' /\ LogKept /\ OwnKept /\ (log = <<>> => Prefix)
<1>1. /\ Range(host'.q) = {} /\ host'.pend = {} /\ ~host'.own /\ Messages(host)' = {} /\ Once(host'.q)
      /\ Len(log') = 0
  BY DEF NoAgent, Messages, Range, Once
<1>2. \A i \in 1..Len(log') : FALSE
  BY <1>1
<1> QED BY <1>1, <1>2 DEF ShapeInv, LogKept, OwnKept, HostOwn, Prefix

-----------------------------------------------------------------------------
(* The steps that end the turn, or leave it.                                 *)
LEMMA OverIs ==
  ASSUME Typed, NEW r \in Results, EndTurn(r)
  PROVE  turn'.n = 0 /\ call'.kind # "spawn" /\ Closes(r)
BY EndedCloses DEF EndTurn, NoTurn, NoCall

\* A turn that ends on no record is misled by none.
LEMMA EndedKeeps ==
  ASSUME Typed, EndInv, ShapeInv', LogKept, Advances, used'.turns = used.turns,
         NEW r \in {"failed", "stopped"}, EndTurn(r)
  PROVE  EndInv'
<1>1. r \in Results /\ r # "done" /\ r # "early"
  BY DEF Results
<1> QED BY <1>1, OverIs, OverAdvances

\* Without a turn of the session's own, nothing ends but reading advances.
LEMMA NoneKeeps ==
  ASSUME Typed, EndInv, ShapeInv', LogKept, Advances, used'.turns = used.turns,
         turn.n = 0, turn'.n = 0, call'.kind # "spawn",
         hist'.out = hist.out, hist'.left = hist.left, hist'.during = hist.during
  PROVE  EndInv'
<1>1. Closes("open")
  BY DEF Closes
<1>2. \A m \in Turns : m # turn.n
  BY DEF Turns
<1> QED BY <1>1, <1>2, OverAdvances

LEMMA SameHost ==
  ASSUME Typed, EndInv, host' = host, log' = log
  PROVE  ShapeInv' /\ LogKept /\ Prefix /\ OwnKept
<1>1. Once(host'.q)
  BY DEF EndInv, ShapeInv
<1> QED BY <1>1, DropKeeps DEF EndInv, ShapeInv

\* The turn is ended, or its end kept until its request is answered.
LEMMA SettledKeeps ==
  ASSUME Typed, Typed', EndInv, host' = host, log' = log, used' = used, cursor' = cursor,
         sub' \in {0, sub}, NEW r \in {"failed", "stopped"}, Settle(r)
  PROVE  EndInv'
<1>1. ShapeInv' /\ LogKept /\ Prefix /\ OwnKept
  BY SameHost
<1>2. Advances
  BY DEF Advances
<1>3. CASE EndTurn(r)
  BY <1>1, <1>2, <1>3, EndedKeeps
<1>4. CASE turn.res # "open" /\ UNCHANGED <<turn, call, hist>>
  <2>1. turn'.res # "open" /\ CallOn /\ HistGrows
    BY <1>4 DEF CallOn, HistGrows
  <2> QED BY <1>1, <1>4, <2>1, StaysKeeps DEF OwnKept
<1>5. CASE turn' = [turn EXCEPT !.res = r] /\ UNCHANGED <<call, hist>>
  <2>1. /\ turn'.n = turn.n /\ turn'.stage = turn.stage /\ turn'.started = turn.started
        /\ turn'.res = r /\ CallOn /\ HistGrows /\ hist'.out = hist.out
    BY <1>5 DEF Typed, TurnType, CallOn, HistGrows
  <2>2. turn'.res \in {"failed", "stopped"} /\ turn'.res # "open"
    BY <2>1
  <2> QED BY <1>1, <2>1, <2>2, StaysKeeps DEF OwnKept
<1> QED BY <1>3, <1>4, <1>5 DEF Settle

LEMMA QuietKeepsEnd ==
  ASSUME Typed, Typed', EndInv, UNCHANGED <<turn, call, hist, cursor, sub, host, log>>,
         used'.turns = used.turns
  PROVE  EndInv'
<1>1. CallOn /\ HistGrows
  BY DEF CallOn, HistGrows
<1> QED BY <1>1, SameHost, StaysKeeps DEF OwnKept

LEMMA StopKeepsEnd ==
  ASSUME Typed, Typed', EndInv, Stop
  PROVE  EndInv'
<1>0. UNCHANGED <<sub, cursor, host, log, used>>
  BY DEF Stop
<1>1. ShapeInv' /\ LogKept /\ Prefix /\ OwnKept /\ Advances
  BY <1>0, SameHost DEF Advances
<1>2. CASE up
  <2>1. /\ turn' = [turn EXCEPT !.stop = TRUE, !.ask = TRUE] /\ call' = call
        /\ hist' = [hist EXCEPT !.unsent = @ \cup ({turn.n} \ (hist.issued \cup {0}))]
    BY <1>2 DEF Stop
  <2>2. /\ turn'.n = turn.n /\ turn'.stage = turn.stage /\ turn'.started = turn.started
        /\ turn'.res = turn.res
    BY <2>1 DEF Typed, TurnType
  <2>3. hist'.out = hist.out /\ CallOn /\ HistGrows
    BY <2>1 DEF Typed, HistType, CallOn, HistGrows
  <2> QED BY <1>0, <1>1, <2>2, <2>3, StaysKeeps DEF OwnKept
<1>3. CASE ~up /\ Waiting
  <2>1. EndTurn("stopped")
    BY <1>3 DEF Stop
  <2> QED BY <1>0, <1>1, <2>1, EndedKeeps
<1>4. CASE ~up /\ ~Waiting
  <2>1. turn' = [turn EXCEPT !.stop = TRUE, !.res = "stopped"] /\ UNCHANGED <<call, hist>>
    BY <1>4 DEF Stop
  <2>2. /\ turn'.n = turn.n /\ turn'.stage = turn.stage /\ turn'.started = turn.started
        /\ turn'.res = "stopped" /\ CallOn /\ HistGrows /\ hist'.out = hist.out
    BY <2>1 DEF Typed, TurnType, CallOn, HistGrows
  <2> QED BY <1>0, <1>1, <2>2, StaysKeeps DEF OwnKept
<1> QED BY <1>2, <1>3, <1>4 DEF Typed

LEMMA InterruptedKeepsEnd ==
  ASSUME Typed, Typed', EndInv, Interrupted
  PROVE  EndInv'
<1> DEFINE idle == host.st # "working" /\ ~turn.started /\ turn.res = "open"
<1>0. UNCHANGED <<sub, cursor, host, log, used>>
  BY DEF Interrupted
<1>1. ShapeInv' /\ LogKept /\ Prefix /\ OwnKept /\ Advances
  BY <1>0, SameHost DEF Advances
<1>2. CASE idle /\ Waiting
  <2>1. EndTurn("stopped")
    BY <1>2 DEF Interrupted
  <2> QED BY <1>0, <1>1, <2>1, EndedKeeps
<1>3. CASE ~(idle /\ Waiting)
  <2>1. /\ turn' = [turn EXCEPT !.ask = FALSE, !.res = IF idle THEN "stopped" ELSE @]
        /\ UNCHANGED <<call, hist>>
    BY <1>3 DEF Interrupted
  <2>2. /\ turn'.n = turn.n /\ turn'.stage = turn.stage /\ turn'.started = turn.started
        /\ turn'.res = turn.res \/ turn'.res \in {"failed", "stopped"}
        /\ CallOn /\ HistGrows /\ hist'.out = hist.out
    BY <2>1 DEF Typed, TurnType, CallOn, HistGrows
  <2> QED BY <1>0, <1>1, <2>2, StaysKeeps DEF OwnKept
<1> QED BY <1>2, <1>3

\* The connection is lost, and with it what was asked.
LEMMA RejectedKeeps ==
  ASSUME Typed, Typed', EndInv, ShapeInv', LogKept, OwnKept, Rejected,
         Prefix \/ turn.stage = "remove",
         used'.turns = used.turns, sub' = sub, cursor' = cursor
  PROVE  EndInv'
<1>1. Advances
  BY DEF Advances
<1>2. CASE EndTurn("failed") \/ EndTurn("stopped")
  BY <1>1, <1>2, EndedKeeps
<1>3. CASE /\ turn.stage # "remove"
           /\ turn' = [turn EXCEPT !.ask = FALSE, !.res = "stopped"] /\ UNCHANGED <<call, hist>>
  <2>1. /\ turn'.n = turn.n /\ turn'.stage = turn.stage /\ turn'.started = turn.started
        /\ turn'.res = "stopped" /\ CallOn /\ HistGrows /\ hist'.out = hist.out
    BY <1>3 DEF Typed, TurnType, CallOn, HistGrows
  <2> QED BY <1>3, <2>1, StaysKeeps DEF OwnKept
<1>4. CASE turn.stage # "remove" /\ UNCHANGED <<turn, call, hist>>
  <2>1. CallOn /\ HistGrows
    BY <1>4 DEF CallOn, HistGrows
  <2> QED BY <1>4, <2>1, StaysKeeps DEF OwnKept
<1> QED BY <1>2, <1>3, <1>4 DEF Rejected

LEMMA GoneIs ==
  ASSUME Typed
  PROVE  /\ Gone(host).pend = {} /\ ~Gone(host).own /\ Gone(host).q = host.q /\ Gone(host).st = "down"
         /\ [Gone(host) EXCEPT !.q = <<>>].pend = {} /\ ~[Gone(host) EXCEPT !.q = <<>>].own
         /\ [Gone(host) EXCEPT !.q = <<>>].q = <<>> /\ [Gone(host) EXCEPT !.q = <<>>].st = "down"
BY DEF Gone, Typed, HostType

\* The agent's process is gone, whether or not what waits for it is too.
LEMMA ProcessGoneKeeps ==
  ASSUME Typed, Typed', EndInv, ProcessGone, host.st \in {"down", "idle", "working"},
         host'.pend = {}, ~host'.own, host'.q \in {host.q, <<>>}, host'.st = "down"
  PROVE  ShapeInv' /\ LogKept /\ Prefix /\ OwnKept
<1>1. CASE host.st \in {"idle", "working"}
  <2>1. log' = Append(log, [k |-> "exited", of |-> host.pend])
    BY <1>1 DEF ProcessGone
  <2>2. host'.pend = host.pend \ host.pend
    OBVIOUS
  <2> QED BY <2>1, <2>2, AnswerKeeps
<1>2. CASE host.st = "down"
  <2>1. host.pend = {} /\ ~host.own /\ host.own \in BOOLEAN /\ host'.own \in BOOLEAN
    BY <1>2 DEF EndInv, ShapeInv, Typed, HostType
  <2>2. Range(host'.q) \subseteq Range(host.q) /\ Once(host'.q)
    BY OnceIs, RangeOfQueue DEF EndInv, ShapeInv, Typed, HostType
  <2>3. log' = log
    BY <1>2 DEF ProcessGone
  <2> QED BY <1>2, <2>1, <2>2, <2>3, DropKeeps
<1> QED BY <1>1, <1>2

LEMMA LossKeepsEnd ==
  ASSUME Typed, Typed', EndInv, ConnLost \/ HostRestarts
  PROVE  EndInv'
<1>1. Rejected /\ used'.turns = used.turns /\ sub' = sub /\ cursor' = cursor
  BY FaultTyped DEF ConnLost, HostRestarts
<1>2. ShapeInv' /\ LogKept /\ OwnKept /\ (Prefix \/ turn.stage = "remove")
  <2>1. CASE host' = host /\ log' = log
    BY <2>1, SameHost
  <2>2. CASE host' = NoAgent /\ log' = <<>> /\ (log = <<>> \/ turn.stage = "remove")
    BY <2>2, ForgetKeeps
  <2>3. CASE /\ host.st \notin {"new", "absent"}
             /\ host' = [Gone(host) EXCEPT !.q = <<>>] /\ ProcessGone
    <3>1. host.st \in {"down", "idle", "working"}
      BY <2>3 DEF Typed, HostType
    <3> QED BY <2>3, <3>1, GoneIs, ProcessGoneKeeps
  <2> QED BY <2>1, <2>2, <2>3 DEF ConnLost, HostRestarts, RemoveAgent, Typed, Placed
<1> QED BY <1>1, <1>2, RejectedKeeps

LEMMA ShortEndsKeepEnd ==
  ASSUME Typed, Typed', EndInv, NotConnected \/ TimesOut \/ StreamClosed \/ AgentState
  PROVE  EndInv'
<1>1. CASE NotConnected \/ TimesOut
  <2>1. EndTurn("failed") /\ UNCHANGED <<sub, cursor, host, log>> /\ used'.turns = used.turns
    BY <1>1, FaultTyped DEF NotConnected, TimesOut
  <2>2. Advances
    BY <2>1 DEF Advances
  <2> QED BY <2>1, <2>2, SameHost, EndedKeeps
<1>2. CASE StreamClosed
  BY <1>2, SettledKeeps DEF StreamClosed
<1>3. CASE AgentState
  <2>1. UNCHANGED <<sub, cursor, host, log, used>>
    BY <1>3 DEF AgentState
  <2>2. CASE Settle("failed") \/ Settle("stopped")
    BY <2>1, <2>2, SettledKeeps
  <2>3. CASE UNCHANGED <<turn, call, hist>>
    BY <2>1, <2>3, QuietKeepsEnd
  <2> QED BY <1>3, <2>2, <2>3 DEF AgentState
<1> QED BY <1>1, <1>2, <1>3

\* A request is issued, or sendTurn goes on to its next wait.
LEMMA GoesIs ==
  ASSUME Typed, NEW stage \in Stages, NEW tries \in 0..2,
         turn' = [turn EXCEPT !.stage = stage, !.tries = tries], hist' = hist
  PROVE  /\ turn'.n = turn.n /\ turn'.started = turn.started /\ turn'.res = turn.res
         /\ HistGrows /\ hist'.out = hist.out
BY DEF Typed, TurnType, HistGrows

LEMMA IssuedIs ==
  ASSUME Typed, NEW kind \in {"send", "spawn"}, Issue(kind, turn)
  PROVE  /\ turn'.n = turn.n /\ turn'.started = turn.started /\ turn'.res = turn.res
         /\ HistGrows /\ hist'.out = hist.out /\ call'.kind = kind /\ call'.st = "wire"
BY DEF Issue, Typed, TurnType, HistType, HistGrows

LEMMA ConnectedKeepsEnd ==
  ASSUME Typed, Typed', EndInv, Connected
  PROVE  EndInv'
<1>1. /\ turn.stage = "connect" /\ sub' \in {0, sub} /\ UNCHANGED <<cursor, host, log, used>>
  BY DEF Connected
<1>2. turn.n # 0 /\ ~Taken /\ Advances /\ call.st = "none"
  BY <1>1 DEF Typed, Placed, Taken, Advances
<1>3. ShapeInv' /\ LogKept
  BY <1>1, SameHost
<1>4. CASE EndTurn("stopped")
  BY <1>1, <1>2, <1>3, <1>4, EndedKeeps
<1>5. CASE \E stage \in {"remove", "ask"} : turn' = [turn EXCEPT !.stage = stage] /\ UNCHANGED <<call, hist>>
  <2>1. PICK stage \in {"remove", "ask"} : turn' = [turn EXCEPT !.stage = stage] /\ UNCHANGED <<call, hist>>
    BY <1>5
  <2>2. turn' = [turn EXCEPT !.stage = stage, !.tries = turn.tries] /\ turn.tries \in 0..2 /\ stage \in Stages
    BY <2>1 DEF Typed, TurnType, Stages
  <2>3. call'.kind # "spawn"
    BY <1>2, <2>1 DEF EndInv, SpawnInv
  <2> QED BY <1>1, <1>2, <1>3, <2>1, <2>2, <2>3, GoesIs, UntakenKeeps
<1> QED BY <1>4, <1>5 DEF Connected

LEMMA RemovedKeepsEnd ==
  ASSUME Typed, Typed', EndInv, Removed
  PROVE  EndInv'
<1>1. /\ turn.stage = "remove" /\ host' = NoAgent /\ log' = <<>> /\ UNCHANGED <<sub, cursor, used>>
  BY DEF Removed, RemoveAgent
<1>2. turn.n # 0 /\ ~Taken /\ Advances /\ call.st = "none"
  BY <1>1 DEF Typed, Placed, Taken, Advances
<1>3. ShapeInv' /\ LogKept
  BY <1>1, ForgetKeeps
<1>4. CASE EndTurn("stopped")
  BY <1>1, <1>2, <1>3, <1>4, EndedKeeps
<1>5. CASE turn' = [turn EXCEPT !.stage = "ask"] /\ UNCHANGED <<call, hist>>
  <2>1. turn' = [turn EXCEPT !.stage = "ask", !.tries = turn.tries] /\ turn.tries \in 0..2 /\ "ask" \in Stages
    BY <1>5 DEF Typed, TurnType, Stages
  <2>2. call'.kind # "spawn"
    BY <1>2, <1>5 DEF EndInv, SpawnInv
  <2> QED BY <1>1, <1>2, <1>3, <1>5, <2>1, <2>2, GoesIs, UntakenKeeps
<1> QED BY <1>4, <1>5 DEF Removed

LEMMA AskKeepsEnd ==
  ASSUME Typed, Typed', EndInv, Ask
  PROVE  EndInv'
<1> DEFINE known == sub # 0 \/ host.st # "absent"
<1>1. /\ turn.stage = "ask" /\ UNCHANGED <<cursor, host, log, used>>
      /\ sub' = IF sub # 0 \/ ~known THEN sub ELSE Len(log) + 1
  BY DEF Ask
<1>2. turn.n # 0 /\ ~Taken /\ call.st = "none"
  BY <1>1 DEF Typed, Placed, Taken
<1>3. Advances
  BY <1>1, SizesAre DEF Advances
<1>4. ShapeInv' /\ LogKept
  BY <1>1, SameHost
<1>5. CASE EndTurn("stopped")
  BY <1>1, <1>3, <1>4, <1>5, EndedKeeps
<1>6. CASE Issue(IF known THEN "send" ELSE "spawn", turn)
  <2>1. PICK kind \in {"send", "spawn"} : Issue(kind, turn) /\ (kind = "spawn" => ~known)
    BY <1>6
  <2>2. call'.kind = "spawn" => sub' = 0 /\ call'.st \in {"wire", "unknown", "exists"}
    BY <1>1, <2>1, IssuedIs
  <2> QED BY <1>1, <1>2, <1>3, <1>4, <2>1, <2>2, IssuedIs, UntakenKeeps
<1> QED BY <1>5, <1>6 DEF Ask

LEMMA RefusedKeepsEnd ==
  ASSUME Typed, Typed', EndInv, Refused
  PROVE  EndInv'
<1>1. /\ call.st \in {"unknown", "exists", "refused"} /\ UNCHANGED <<cursor, host, log, used>>
      /\ sub' = IF call.st = "unknown" THEN 0 ELSE sub
  BY DEF Refused
<1>2. turn.n # 0 /\ Advances /\ turn.stage = "call"
  BY <1>1 DEF Typed, Placed, Advances
<1>3. ShapeInv' /\ LogKept
  BY <1>1, SameHost
<1>4. CASE EndTurn("failed") \/ EndTurn("stopped")
  BY <1>1, <1>2, <1>3, <1>4, EndedKeeps
<1>5. CASE call.st = "unknown" /\ Issue("spawn", turn)
  <2>1. ~Taken
    BY <1>2, <1>5 DEF Taken
  <2> QED BY <1>1, <1>2, <1>3, <1>5, <2>1, IssuedIs, UntakenKeeps
<1>6. CASE /\ call.st = "exists" /\ turn.tries = 0
           /\ turn' = [turn EXCEPT !.stage = "ask", !.tries = @ + 1] /\ call' = NoCall /\ hist' = hist
  <2>1. ~Taken /\ call'.kind # "spawn"
    BY <1>2, <1>6 DEF Taken, NoCall
  <2>2. turn' = [turn EXCEPT !.stage = "ask", !.tries = 1] /\ 1 \in 0..2 /\ "ask" \in Stages
    BY <1>6 DEF Typed, TurnType, Stages
  <2>3. /\ turn'.n = turn.n /\ turn'.started = turn.started /\ turn'.res = turn.res
        /\ HistGrows /\ hist'.out = hist.out
    BY <1>6, <2>2, GoesIs
  <2> QED BY <1>1, <1>2, <1>3, <2>1, <2>3, UntakenKeeps
<1> QED BY <1>1, <1>4, <1>5, <1>6 DEF Refused, Typed, TurnType

\* An agent just created is read from the start of its log: it says nothing
\* but of the turn it was created for.
LEMMA DeliveredKeepsEnd ==
  ASSUME Typed, Typed', EndInv, Delivered
  PROVE  EndInv'
<1>1. /\ call.st = "ok" /\ UNCHANGED <<cursor, host, log, used>>
      /\ sub' = IF call.kind = "spawn" THEN 1 ELSE sub
  BY DEF Delivered, StartOfLog
<1>2. turn.n # 0 /\ turn.n \in Turns /\ turn.stage = "call" /\ turn.n = used.turns
  BY <1>1, SizesAre DEF Typed, Placed, EndInv, PlaceInv
<1>0. PICK n \in Turns : n = turn.n
  BY <1>2
<1>3. ShapeInv' /\ LogKept /\ Prefix
  BY <1>1, SameHost
<1>4. ASSUME call.kind = "spawn", NEW m \in Turns, m # turn.n
      PROVE  Past(m)'
  BY <1>1, <1>4 DEF EndInv, SpawnInv, Past, Messages
<1>5. ASSUME NEW m \in Turns, m # turn.n, Past(m)
      PROVE  Past(m)'
  <2>1. CASE call.kind = "spawn"
    BY <1>4, <1>5, <2>1
  <2>2. CASE call.kind # "spawn"
    BY <1>1, <1>5, <2>2 DEF Past, Messages
  <2> QED BY <2>1, <2>2
<1>6. CASE EndTurn(turn.res) /\ turn.res # "open"
  <2>1. turn.res \in Results
    BY DEF Typed, TurnType
  <2>2. turn'.n = 0 /\ call'.kind # "spawn" /\ Closes(turn.res)
    BY <1>6, <2>1, OverIs
  <2>3. turn.res = "early" => Misled(turn.n)
    BY <1>2 DEF EndInv, OwnInv
  <2>4. ASSUME n \notin hist'.left, turn.res = "done" \/ n \notin ToCome
        PROVE  Past(n)'
    <3>1. Past(n)
      <4>1. CASE turn.res = "done"
        <5>1. turn.n \notin hist.left /\ turn.n \in 1..used.turns
          BY <1>0, <1>2, <2>2, <2>4, <4>1, SizesAre DEF Closes, Turns
        <5> QED BY <1>0, <4>1, <5>1 DEF EndInv, PastInv
      <4>2. CASE n \notin ToCome
        BY <1>0, <1>2, <4>2, GivenUp
      <4> QED BY <2>4, <4>1, <4>2
    <3>2. CASE call.kind # "spawn"
      BY <1>1, <3>1, <3>2 DEF Past, Messages
    <3>3. CASE call.kind = "spawn"
      <4>1. turn.res # "done" /\ sub = 0
        BY <1>2, <3>3 DEF EndInv, PastInv, SpawnInv
      <4>2. Nowhere(n)
        BY <2>4, <4>1, SizesAre DEF ToCome, Unread, Nowhere
      <4> QED BY <1>1, <4>2 DEF Nowhere, Past, Messages
    <3> QED BY <3>2, <3>3
  <2> QED BY <1>0, <1>1, <1>2, <1>3, <1>5, <2>2, <2>3, <2>4, OverKeeps
<1>7. CASE turn.res = "open" /\ turn' = [turn EXCEPT !.stage = "wait"] /\ call' = NoCall /\ UNCHANGED hist
  <2>1. /\ turn'.n = turn.n /\ turn'.stage = "wait" /\ turn'.started = turn.started
        /\ turn'.res = "open" /\ call'.kind # "spawn" /\ HistGrows
    BY <1>7 DEF Typed, TurnType, NoCall, HistGrows
  <2>2. PlaceInv'
    BY <1>1, <2>1 DEF EndInv, PlaceInv, Taken, Nowhere, Messages
  <2>3. PastInv'
    <3>1. ASSUME NEW m \in 1..used.turns, m # turn.n, m \notin hist.left
          PROVE  Past(m)'
      <4>1. m \in Turns /\ Past(m)
        BY <3>1, SizesAre DEF EndInv, PastInv
      <4> QED BY <1>5, <3>1, <4>1
    <3>2. \A i \in 1..Len(log) : turn.n \in log[i].of /\ i < sub' => i < cursor
      BY <1>1, <1>2, SizesAre DEF EndInv, PastInv
    <3> QED BY <1>1, <1>7, <2>1, <3>1, <3>2 DEF PastInv
  <2>4. OwnInv'
    <3> SUFFICES ASSUME ~Misled(turn.n)
                 PROVE  HostOwn(n)' /\ (turn.started => Heard(n)')
      BY <1>0, <1>7, <2>1 DEF OwnInv, Misled, HostOwn, Heard, Answering
    <3>1. HostOwn(n) /\ (turn.started => Heard(n))
      BY <1>0, <1>2, <1>7 DEF EndInv, OwnInv
    <3>2. HostOwn(n)'
      BY <1>1, <3>1 DEF HostOwn, Answering, Ending
    <3>3. ASSUME turn.started
          PROVE  Heard(n)'
      <4>1. Heard(n)
        BY <3>1, <3>3
      <4>2. sub # 0
        BY <4>1 DEF Heard
      <4>3. sub' = sub
        BY <1>1, <4>2 DEF EndInv, SpawnInv
      <4> QED BY <1>3, <4>1, <4>3, HeardStays
    <3> QED BY <3>2, <3>3
  <2>5. EndsOnOwn'
    BY <1>7 DEF EndInv, EndsOnOwn
  <2> QED BY <1>3, <2>1, <2>2, <2>3, <2>4, <2>5 DEF EndInv, SpawnInv
<1> QED BY <1>6, <1>7 DEF Delivered

-----------------------------------------------------------------------------
\* No turn: no request either.
LEMMA IdleIs ==
  ASSUME Typed, EndInv, ~Active
  PROVE  turn.n = 0 /\ call.kind # "spawn"
BY DEF Typed, Placed, EndInv, SpawnInv, Active

LEMMA SendTurnKeepsEnd ==
  ASSUME Typed, Typed', EndInv, SendTurn
  PROVE  EndInv'
<1> DEFINE since == IF hist.forgot THEN 0 ELSE hist.cleared
<1>0. PICK n \in Nat : n = used.turns + 1
  BY SizesAre
<1>1. /\ turn' = [NoTurn EXCEPT !.n = n, !.stage = "connect"]
      /\ used' = [used EXCEPT !.turns = n]
      /\ hist' = [hist EXCEPT !.since[n] = since]
      /\ UNCHANGED <<sub, cursor, call, host, log>>
      /\ ~Active /\ used.turns < MaxTurns
  BY <1>0 DEF SendTurn
<1>2. n \in Turns /\ n > used.turns /\ turn.n = 0 /\ call.kind # "spawn"
  BY <1>0, <1>1, SizesAre, IdleIs DEF Turns
<1>3. used'.turns = n /\ turn'.n = n /\ turn'.res = "open" /\ ~turn'.started
  BY <1>1 DEF Typed, UsedType, NoTurn
<1>4. hist'.out = hist.out /\ hist'.left = hist.left /\ hist'.during = hist.during
  BY <1>1 DEF Typed, HistType
<1>5. Nowhere(n)
  BY <1>2 DEF EndInv, PlaceInv
<1>6. ShapeInv'
  BY <1>1, SameHost
<1>7. PlaceInv'
  <2>1. \A m \in Turns : m > n => Nowhere(m)
    <3> SUFFICES ASSUME NEW m \in Turns, m > n
                 PROVE  m > used.turns
      BY DEF EndInv, PlaceInv
    <3> QED BY <1>0, SizesAre DEF Turns
  <2> QED BY <1>1, <1>3, <1>5, <2>1 DEF PlaceInv, Nowhere, Messages
<1>8. PastInv'
  <2>1. ASSUME NEW m \in 1..n, m # n, m \notin hist.left
        PROVE  Past(m)
    <3>1. m \in 1..used.turns /\ m # turn.n
      BY <1>0, <1>2, <2>1, SizesAre
    <3> QED BY <2>1, <3>1 DEF EndInv, PastInv
  <2>2. \A i \in 1..Len(log) : n \notin log[i].of
    BY <1>5 DEF Nowhere
  <2> QED BY <1>1, <1>3, <1>4, <2>1, <2>2 DEF PastInv, Past, Messages
<1>9. OwnInv'
  <2>1. HostOwn(n)'
    BY <1>1, <1>5 DEF HostOwn, Nowhere, Messages
  <2> QED BY <1>3, <2>1 DEF OwnInv, HostOwn, Answering
<1>10. EndsOnOwn'
  BY <1>4 DEF EndInv, EndsOnOwn
<1> QED BY <1>1, <1>2, <1>6, <1>7, <1>8, <1>9, <1>10 DEF EndInv, SpawnInv

\* A turn that was followed is over: it has no number.
LEMMA FollowedIdleKeepsEnd ==
  ASSUME Typed, Typed', EndInv, FollowedIdle
  PROVE  EndInv'
<1>1. Settle("done") /\ turn.n = 0 /\ UNCHANGED <<sub, cursor, host, log, used>>
  BY DEF FollowedIdle, Follows
<1>2. call.kind # "spawn" /\ turn'.n = 0 /\ call'.kind # "spawn" /\ hist' = hist
  BY <1>1 DEF EndInv, SpawnInv, Settle, EndTurn, Ended, NoTurn, NoCall, Typed, Placed, TurnType
<1>3. Advances
  BY <1>1 DEF Advances
<1> QED BY <1>1, <1>2, <1>3, SameHost, NoneKeeps

LEMMA ClearKeepsEnd ==
  ASSUME Typed, Typed', EndInv, Clear
  PROVE  EndInv'
<1>1. /\ used' = [used EXCEPT !.clears = @ + 1] /\ sub' = 0
      /\ hist' = [hist EXCEPT !.cleared = used.convs, !.forgot = FALSE]
      /\ UNCHANGED <<turn, cursor, call, host, log>> /\ ~Active
  BY DEF Clear
<1>2. used'.turns = used.turns
  BY <1>1 DEF Typed, UsedType
<1>3. hist'.out = hist.out /\ hist'.left = hist.left /\ hist'.during = hist.during
  BY <1>1 DEF Typed, HistType
<1>4. Advances
  BY <1>1 DEF Advances
<1> QED BY <1>1, <1>2, <1>3, <1>4, SameHost, IdleIs, NoneKeeps

LEMMA FollowKeepsEnd ==
  ASSUME Typed, Typed', EndInv, Follow
  PROVE  EndInv'
<1>1. /\ turn' = [NoTurn EXCEPT !.stage = "wait", !.started = TRUE]
      /\ hist' = [hist EXCEPT !.forgot = @ \/ (reset /\ sid' # sid)]
      /\ used' = [used EXCEPT !.follow = FALSE]
      /\ sub' = Len(log) + 1 \/ sub' = cursor
      /\ UNCHANGED <<cursor, call, host, log>> /\ ~Active
  BY DEF Follow
<1>2. used'.turns = used.turns /\ turn'.n = 0
  BY <1>1 DEF Typed, UsedType, NoTurn
<1>3. hist'.out = hist.out /\ hist'.left = hist.left /\ hist'.during = hist.during
  BY <1>1 DEF Typed, HistType
<1>4. Advances
  BY <1>1, SizesAre DEF Advances
<1> QED BY <1>1, <1>2, <1>3, <1>4, SameHost, IdleIs, NoneKeeps

LEMMA RelayRestartsKeepsEnd ==
  ASSUME Typed, Typed', EndInv, RelayRestarts
  PROVE  EndInv'
<1>1. /\ turn' = NoTurn /\ call' = NoCall /\ sub' = 0 /\ used'.turns = used.turns
      /\ hist' = [Ended(hist, turn, "forgotten") EXCEPT !.forgot = @ \/ reset]
      /\ UNCHANGED <<cursor, host, log>>
  BY FaultTyped DEF RelayRestarts
<1>2. turn'.n = 0 /\ call'.kind # "spawn" /\ Advances
  BY <1>1 DEF NoTurn, NoCall, Advances
<1>3. Closes("forgotten")
  <2>1. CASE turn.n = 0
    BY <1>1, <2>1 DEF Ended, Closes, Typed, HistType
  <2>2. CASE turn.n # 0
    <3> DEFINE l == hist.left \cup ({turn.n} \cap ToCome)
               o == [hist.out EXCEPT ![turn.n] = "forgotten"]
               g == hist.forgot \/ reset
    <3>1. hist' = [hist EXCEPT !.out = o, !.left = l, !.forgot = g]
      BY <1>1, <2>2 DEF Ended, Typed, HistType
    <3> HIDE DEF l, o, g
    <3>2. hist'.out = o /\ hist'.left = l /\ hist'.during = hist.during
      BY <3>1 DEF Typed, HistType
    <3> QED BY <2>2, <3>2 DEF Closes, l, o
  <2> QED BY <2>1, <2>2
<1>4. ShapeInv' /\ LogKept
  BY <1>1, SameHost
<1> QED BY <1>1, <1>2, <1>3, <1>4, OverAdvances

\* The first end of turn after an unmisled turn's message is its own.
LEMMA EndIsOwn ==
  ASSUME Typed, EndInv, turn.n # 0, ~Misled(turn.n), turn.started, turn.res = "open",
         sub \in 1..Len(log), Ending(sub)
  PROVE  turn.n \in log[sub].of
<1> DEFINE n == turn.n
<1>1. HostOwn(n) /\ Heard(n)
  BY DEF EndInv, OwnInv
<1>2. PICK i \in 1..Len(log) : /\ i < sub /\ ~Ending(i) /\ n \in log[i].of
                               /\ \A x \in (i + 1)..(sub - 1) : ~Ending(x)
  BY <1>1 DEF Heard
<1>3. Answering(i, n)
  BY <1>1, <1>2 DEF HostOwn
<1>4. sub \in (i + 1)..Len(log)
  BY <1>2, SizesAre
<1>5. PICK j \in (i + 1)..Len(log) : /\ Ending(j) /\ n \in log[j].of
                                     /\ \A x \in (i + 1)..(j - 1) : ~Ending(x)
  BY <1>3, <1>4 DEF Answering
<1>6. ~(j \in (i + 1)..(sub - 1)) /\ ~(sub \in (i + 1)..(j - 1))
  BY <1>2, <1>5
<1>7. j = sub
  BY <1>4, <1>6, SizesAre
<1> QED BY <1>5, <1>7

\* Reading past a record that ends nothing.
LEMMA PassesKeeps ==
  ASSUME Typed, Typed', EndInv, UNCHANGED <<call, hist, host, log, used>>,
         sub \in 1..Len(log), cursor' = sub + 1, sub' = sub + 1,
         turn.n # 0, turn'.n = turn.n, turn'.stage = turn.stage, turn'.res = turn.res,
         turn'.started <=> turn.started \/ (turn.res = "open" /\ ~Ending(sub)),
         turn.started /\ turn.res = "open" => ~Ending(sub)
  PROVE  EndInv'
<1>0. /\ ShapeInv' /\ LogKept /\ turn.n \in Turns /\ call.kind # "spawn"
      /\ Len(log) \in Nat /\ sub \in Nat
  BY SameHost, SizesAre DEF EndInv, SpawnInv
<1>1. Advances
  BY <1>0 DEF Advances
<1>2. PlaceInv'
  BY DEF EndInv, PlaceInv, Taken, Nowhere, Messages
<1>3. PastInv'
  <2>1. ASSUME NEW m \in 1..used.turns, m = turn.n => turn.res = "done", m \notin hist.left
        PROVE  Past(m)'
    <3>1. m \in Turns /\ Past(m)
      BY <2>1, SizesAre DEF EndInv, PastInv
    <3> QED BY <1>0, <1>1, <3>1, PastStays
  <2>2. \A i \in 1..Len(log) : i < sub' => i < cursor'
    OBVIOUS
  <2>3. turn.n # 0 /\ turn.res = "done" =>
          turn.stage = "call" /\ call.st \in {"host", "ok", "refused"} /\ call.kind # "spawn"
    BY DEF EndInv, PastInv
  <2> QED BY <2>1, <2>2, <2>3 DEF PastInv
<1>4. OwnInv'
  <2>0. PICK n \in Turns : n = turn.n
    BY <1>0
  <2> SUFFICES ASSUME ~Misled(n)
               PROVE  /\ HostOwn(n)' /\ turn.res # "early"
                      /\ turn'.started /\ turn.res = "open" => Heard(n)'
    BY <2>0 DEF OwnInv, Misled, HostOwn, Heard, Answering
  <2>1. /\ HostOwn(n) /\ turn.res # "early"
        /\ turn.started /\ turn.res = "open" => Heard(n)
    BY <2>0 DEF EndInv, OwnInv
  <2>2. HostOwn(n)'
    BY <2>1 DEF HostOwn, Answering, Ending
  <2>3. ASSUME turn.started, turn.res = "open"
        PROVE  Heard(n)'
    <3>1. PICK i \in 1..Len(log) : /\ i < sub /\ ~Ending(i) /\ n \in log[i].of
                                   /\ \A x \in (i + 1)..(sub - 1) : ~Ending(x)
      BY <2>1, <2>3 DEF Heard
    <3>2. ~Ending(sub)
      BY <2>3
    <3>3. ASSUME NEW x \in (i + 1)..(sub' - 1)
          PROVE  ~Ending(x)'
      <4>1. x \in (i + 1)..(sub - 1) \/ x = sub
        BY <1>0
      <4> QED BY <3>1, <3>2, <4>1 DEF Ending
    <3>4. i < sub' /\ i \in 1..Len(log') /\ ~Ending(i)' /\ n \in log'[i].of
      BY <1>0, <3>1 DEF Ending
    <3> QED BY <3>3, <3>4 DEF Heard
  <2>4. ASSUME turn.res = "open", ~Ending(sub)
        PROVE  Heard(n)'
    <3>1. log[sub].of # {} /\ log[sub].of \subseteq Turns
      BY <2>4, RecordsAre DEF EndInv, ShapeInv
    <3>2. n \in log[sub].of
      <4> SUFFICES ASSUME NEW m \in log[sub].of, m # n
                   PROVE  FALSE
        BY <3>1
      <4>1. m \in Turns
        BY <3>1
      <4>2. sub < sub
        BY <2>0, <4>1, OnlyOwn
      <4> QED BY <1>0, <4>2
    <3>3. PICK i \in 1..Len(log) : i = sub
      OBVIOUS
    <3>4. i < sub' /\ i \in 1..Len(log') /\ ~Ending(i)' /\ n \in log'[i].of
      BY <1>0, <2>4, <3>2, <3>3 DEF Ending
    <3>5. \A x \in (i + 1)..(sub' - 1) : FALSE
      BY <1>0, <3>3
    <3> QED BY <3>4, <3>5 DEF Heard
  <2> QED BY <2>1, <2>2, <2>3, <2>4
<1>5. EndsOnOwn'
  BY DEF EndInv, EndsOnOwn
<1> QED BY <1>0, <1>2, <1>3, <1>4, <1>5 DEF EndInv, SpawnInv

\* Reading the record that ends the turn, which sendTurn may still be sending.
LEMMA ClosedByRecord ==
  ASSUME Typed, Typed', EndInv, UNCHANGED <<host, log, used>>,
         sub \in 1..Len(log), Ending(sub), cursor' = sub + 1, sub' \in {0, sub + 1},
         log[sub].k = "result" => sub' = sub + 1,
         Active, turn.started, turn.res = "open", Settle(EndOf(turn, log[sub]))
  PROVE  EndInv'
<1> DEFINE r == EndOf(turn, log[sub])
<1>0. /\ ShapeInv' /\ LogKept /\ Prefix /\ OwnKept /\ call.kind # "spawn"
      /\ Len(log) \in Nat /\ sub \in Nat /\ (turn.n # 0 => turn.n \in Turns)
  BY SameHost, SizesAre DEF EndInv, SpawnInv
<1>1. Advances
  BY <1>0 DEF Advances
<1>2. /\ r \in Results /\ r # "open"
      /\ r = "early" => turn.n # 0 /\ turn.n \notin log[sub].of
      /\ r = "done" => log[sub].k = "result" /\ turn.n \in log[sub].of \cup {0}
  BY RecordsAre DEF EndOf, Results, Ending, LogRecord
<1>3. ASSUME turn.n # 0, r = "early"
      PROVE  Misled(turn.n)
  BY <1>2, <1>3, EndIsOwn
<1>4. ASSUME NEW n \in Turns, n = turn.n, r = "done"
      PROVE  Past(n)'
  <2>1. n \in log[sub].of /\ sub' = sub + 1
    BY <1>2, <1>4 DEF Turns
  <2>2. n \notin Messages(host) /\ \A j \in (sub + 1)..Len(log) : n \notin log[j].of
    BY <2>1 DEF EndInv, ShapeInv
  <2>3. ASSUME NEW i \in 1..Len(log), n \in log[i].of
        PROVE  i < cursor' /\ i < sub'
    <3>1. ~(i \in (sub + 1)..Len(log))
      BY <2>2, <2>3
    <3> QED BY <1>0, <2>1, <3>1
  <2> QED BY <2>2, <2>3 DEF Past, Messages
<1> HIDE DEF r
<1>5. CASE EndTurn(r)
  <2>1. turn'.n = 0 /\ call'.kind # "spawn" /\ Closes(r)
    BY <1>2, <1>5, OverIs
  <2> QED BY <1>0, <1>1, <1>3, <1>4, <2>1, OverAdvances
<1>6. CASE ~Waiting /\ turn' = [turn EXCEPT !.res = r] /\ UNCHANGED <<call, hist>>
  <2>0. turn.n # 0 /\ turn.stage # "wait"
    BY <1>6 DEF Waiting, Active, Typed, Placed
  <2>1. PICK n \in Turns : n = turn.n
    BY <1>0, <2>0
  <2>2. /\ turn'.n = n /\ turn'.stage = turn.stage /\ turn'.started = turn.started
        /\ turn'.res = r
    BY <1>6, <2>1 DEF Typed, TurnType
  <2>3. PlaceInv'
    BY <1>6, <2>1, <2>2 DEF EndInv, PlaceInv, Taken, Nowhere, Messages
  <2>4. PastInv'
    <3>1. ASSUME NEW m \in 1..used.turns, m = n => r = "done", m \notin hist.left
          PROVE  Past(m)'
      <4>1. CASE m = n
        BY <1>4, <2>1, <3>1, <4>1
      <4>2. CASE m # n
        <5>1. m \in Turns /\ Past(m)
          BY <2>1, <3>1, <4>2, SizesAre DEF EndInv, PastInv
        <5> QED BY <1>0, <1>1, <5>1, PastStays
      <4> QED BY <4>1, <4>2
    <3>2. \A i \in 1..Len(log) : i < sub' => i < cursor'
      BY <1>0
    <3>3. ASSUME r = "done"
          PROVE  turn.stage = "call" /\ call.st \in {"host", "ok", "refused"}
      <4>1. ~Nowhere(turn.n)
        BY <1>2, <2>0, <3>3 DEF Nowhere
      <4>2. Taken
        BY <2>0, <4>1 DEF EndInv, PlaceInv
      <4> QED BY <2>0, <4>2 DEF Taken, Typed, Placed
    <3> QED BY <1>0, <1>6, <2>1, <2>2, <3>1, <3>2, <3>3 DEF PastInv
  <2>5. OwnInv'
    <3> SUFFICES ASSUME ~Misled(n)
                 PROVE  HostOwn(n)' /\ r # "open" /\ r # "early"
      BY <1>6, <2>2 DEF OwnInv, Misled, HostOwn, Heard, Answering
    <3>1. HostOwn(n)
      BY <2>0, <2>1 DEF EndInv, OwnInv
    <3>2. HostOwn(n)'
      BY <3>1 DEF HostOwn, Answering, Ending
    <3> QED BY <1>2, <1>3, <2>0, <2>1, <3>2
  <2>6. EndsOnOwn'
    BY <1>6 DEF EndInv, EndsOnOwn
  <2> QED BY <1>0, <1>6, <2>3, <2>4, <2>5, <2>6 DEF EndInv, SpawnInv
<1> QED BY <1>5, <1>6 DEF Settle, r

LEMMA ReadKeepsEnd ==
  ASSUME Typed, Typed', EndInv, Read
  PROVE  EndInv'
<1> DEFINE r == log[sub]
           ends == Active /\ turn.res = "open" /\ turn.started /\ Ending(sub)
           invalid == ends /\ r.k = "invalid" /\ ~turn.stop
<1>1. /\ sub \in 1..Len(log) /\ cursor' = sub + 1
      /\ sub' = IF invalid THEN 0 ELSE sub + 1
      /\ UNCHANGED <<host, log, used>>
  BY DEF Read, Ending, Notices
<1>2. CASE ends
  <2>1. Settle(EndOf(turn, r))
    BY <1>2 DEF Read, Ending, Notices
  <2> QED BY <1>1, <1>2, <2>1, ClosedByRecord
<1>3. CASE ~ends
  <2>1. /\ turn' = [turn EXCEPT !.started = @ \/ (Active /\ @ = FALSE /\ turn.res = "open" /\ r.k = "message")]
        /\ UNCHANGED <<call, hist>>
    BY <1>3 DEF Read, Ending, Notices
  <2>2. /\ turn'.n = turn.n /\ turn'.stage = turn.stage /\ turn'.res = turn.res
        /\ turn'.started <=> turn.started \/ (Active /\ turn.res = "open" /\ ~Ending(sub))
    BY <2>1 DEF Typed, TurnType, Ending
  <2>3. sub' = sub + 1
    BY <1>1, <1>3
  <2>4. CASE turn.n # 0
    <3>1. Active
      BY <2>4 DEF Active, Typed, Placed
    <3> QED BY <1>1, <1>3, <2>1, <2>2, <2>3, <2>4, <3>1, PassesKeeps
  <2>5. CASE turn.n = 0
    <3>1. call.kind # "spawn" /\ Advances
      BY <1>1, <2>3, SizesAre DEF EndInv, SpawnInv, Advances
    <3> QED BY <1>1, <2>1, <2>2, <2>5, <3>1, SameHost, NoneKeeps
  <2> QED BY <2>4, <2>5
<1> QED BY <1>2, <1>3

-----------------------------------------------------------------------------
\* The host takes the message of a turn it knew nothing of.
LEMMA TakenKeeps ==
  ASSUME Typed, Typed', EndInv, UNCHANGED <<turn, sub, cursor, hist, log>>, used'.turns = used.turns,
         call.st = "wire", call'.st = "host", call'.kind = call.kind,
         call.kind = "spawn" => log = <<>> /\ Messages(host)' \subseteq {turn.n},
         Once(host'.q), Range(host'.q) \subseteq Range(host.q) \cup {turn.n}, turn.n \in Range(host'.q),
         host'.pend = host.pend, host'.own = host.own, host'.st = "working" <=> host.st = "working"
  PROVE  EndInv'
<1>1. turn.n # 0 /\ turn.n \in Turns /\ turn.stage = "call" /\ ~Taken
  BY SizesAre DEF Typed, Placed, Taken
<1>2. turn.n = used.turns /\ Nowhere(turn.n) /\ turn.res # "done"
  BY <1>1 DEF EndInv, PlaceInv, PastInv
<1>3. PICK n \in Turns : n = turn.n
  BY <1>1
<1>4. Messages(host)' \subseteq Messages(host) \cup {n}
  BY <1>3 DEF Messages
<1>5. n \notin Messages(host) /\ \A i \in 1..Len(log) : n \notin log[i].of
  BY <1>2, <1>3 DEF Nowhere
<1>6. ShapeInv'
  <2>1. Range(host'.q) \cap host'.pend = {}
    BY <1>3, <1>5 DEF EndInv, ShapeInv, Messages
  <2>2. host'.st # "working" => host'.pend = {} /\ ~host'.own
    BY DEF EndInv, ShapeInv
  <2>3. \A m \in Range(host'.q) : \A i \in 1..Len(log) : m \notin log[i].of
    BY <1>3, <1>5 DEF EndInv, ShapeInv
  <2>4. \A i \in 1..Len(log) : Ending(i) =>
          \A m \in log[i].of : m \notin Messages(host)' /\ \A j \in (i + 1)..Len(log) : m \notin log[j].of
    BY <1>4, <1>5 DEF EndInv, ShapeInv
  <2>5. \A i \in 1..Len(log) : ~Ending(i) => log[i].of # {}
    BY DEF EndInv, ShapeInv
  <2> QED BY <2>1, <2>2, <2>3, <2>4, <2>5 DEF ShapeInv, Ending
<1>7. PlaceInv'
  <2>1. ASSUME NEW m \in Turns, m > used.turns
        PROVE  Nowhere(m)'
    <3>1. m # n /\ Nowhere(m)
      BY <1>2, <1>3, <2>1, SizesAre DEF EndInv, PlaceInv
    <3> QED BY <1>4, <3>1 DEF Nowhere
  <2> QED BY <1>2, <2>1 DEF PlaceInv, Taken
<1>8. SpawnInv'
  <2> SUFFICES ASSUME call.kind = "spawn"
               PROVE  /\ sub = 0 /\ Messages(host)' \subseteq {n}
                      /\ \A i \in 1..Len(log) : log[i].of \subseteq {n}
    BY <1>3 DEF SpawnInv, Messages
  <2>1. \A i \in 1..Len(log) : FALSE
    BY NoAgentIs
  <2> QED BY <1>3, <2>1 DEF EndInv, SpawnInv
<1>9. PastInv'
  <2>1. ASSUME NEW m \in 1..used.turns, m = turn.n => turn.res = "done", m \notin hist.left
        PROVE  Past(m)'
    <3>1. m # n /\ Past(m)
      BY <1>2, <1>3, <2>1 DEF EndInv, PastInv
    <3> QED BY <1>4, <3>1 DEF Past
  <2> QED BY <1>2, <1>3, <1>5, <2>1 DEF PastInv
<1>10. OwnInv'
  <2> SUFFICES ASSUME ~Misled(n)
               PROVE  HostOwn(n)' /\ ~(turn.started /\ turn.res = "open") /\ turn.res # "early"
    BY <1>3 DEF OwnInv, Misled, HostOwn, Heard, Answering
  <2>1. HostOwn(n)'
    BY <1>5 DEF HostOwn, Messages
  <2>2. ~Heard(n)
    BY <1>5 DEF Heard
  <2> QED BY <1>1, <1>3, <2>1, <2>2 DEF EndInv, OwnInv
<1>11. EndsOnOwn'
  BY DEF EndInv, EndsOnOwn
<1> QED BY <1>6, <1>7, <1>8, <1>9, <1>10, <1>11 DEF EndInv

LEMMA HostTakesKeepsEnd ==
  ASSUME Typed, Typed', EndInv, HostTakes
  PROVE  EndInv'
<1>1. call.st = "wire" /\ UNCHANGED <<turn, sub, cursor, hist>> /\ used'.turns = used.turns
  BY DEF HostTakes, Typed, UsedType
<1>2. turn.n # 0 /\ turn.n \in Turns /\ turn.stage = "call" /\ ~Taken
  BY <1>1, SizesAre DEF Typed, Placed, Taken
<1>3. turn.n \notin Messages(host)
  BY <1>2 DEF EndInv, PlaceInv, Nowhere
<1>4. CASE call' = [call EXCEPT !.st = "unknown"] /\ UNCHANGED <<host, log>> /\ call.kind = "send"
  <2>1. call'.kind # "spawn" /\ Advances /\ HistGrows
    BY <1>1, <1>4 DEF Typed, CallType, Advances, HistGrows
  <2> QED BY <1>1, <1>2, <1>4, <2>1, SameHost, UntakenKeeps
<1>5. CASE call' = [call EXCEPT !.st = "exists"] /\ UNCHANGED <<host, log>>
  <2>1. call'.kind = call.kind /\ call'.st = "exists" /\ Advances /\ HistGrows
    BY <1>1, <1>5 DEF Typed, CallType, Advances, HistGrows
  <2>2. call'.kind = "spawn" => sub' = 0
    BY <1>1, <2>1 DEF EndInv, SpawnInv
  <2> QED BY <1>1, <1>2, <1>5, <2>1, <2>2, SameHost, UntakenKeeps
<1>6. CASE /\ call.kind = "send" /\ call' = [call EXCEPT !.st = "host"] /\ log' = log
           /\ host' = [host EXCEPT !.q = Append(@, turn.n)]
  <2>1. call'.st = "host" /\ call'.kind = call.kind
    BY <1>6 DEF Typed, CallType
  <2>2. /\ host'.q = Append(host.q, turn.n) /\ host'.pend = host.pend /\ host'.own = host.own
        /\ host'.st = host.st /\ host.q \in Seq(Turns) /\ Once(host.q)
    BY <1>6 DEF Typed, HostType, EndInv, ShapeInv
  <2>3. Range(host'.q) = Range(host.q) \cup {turn.n} /\ Once(host'.q)
    <3>1. Once(Append(host.q, turn.n))
      BY <1>2, <1>3, <2>2, OnceIs DEF Messages
    <3>2. Range(Append(host.q, turn.n)) = Range(host.q) \cup {turn.n}
      BY <1>2, <2>2, RangeOfQueue
    <3> QED BY <2>2, <3>1, <3>2
  <2> QED BY <1>1, <1>6, <2>1, <2>2, <2>3, TakenKeeps
<1>7. CASE /\ call' = [call EXCEPT !.st = "host"] /\ host.st = "absent" /\ log' = <<>>
           /\ host' = [NoAgent EXCEPT !.st = "new", !.q = <<turn.n>>,
                                      !.conv = IF sid = 0 THEN used.convs + 1 ELSE sid]
  <2>1. call'.st = "host" /\ call'.kind = call.kind /\ log = <<>>
    BY <1>7 DEF Typed, CallType, Placed
  <2>2. /\ host'.q = <<turn.n>> /\ host'.pend = {} /\ ~host'.own /\ host'.own = FALSE /\ host'.st = "new"
    BY <1>7 DEF NoAgent
  <2>3. host.pend = {} /\ host.own = FALSE
    BY <1>7 DEF EndInv, ShapeInv, Typed, HostType
  <2>4. Range(host'.q) = {turn.n} /\ Once(host'.q)
    <3>1. <<>> \in Seq(Turns) /\ Once(<<>>)
      BY EmptySeq DEF Once
    <3>2. Range(<<turn.n>>) = {turn.n} /\ Once(<<turn.n>>)
      BY <1>2, <3>1, RangeOfQueue, OnceIs
    <3> QED BY <2>2, <3>2
  <2>5. Messages(host)' = {turn.n}
    BY <2>2, <2>4 DEF Messages
  <2> QED BY <1>1, <1>7, <2>1, <2>2, <2>3, <2>4, <2>5, TakenKeeps
<1> QED BY <1>4, <1>5, <1>6, <1>7 DEF HostTakes

\* A message is written to the CLI.
LEMMA HostWritesKeepsEnd ==
  ASSUME Typed, Typed', EndInv, HostWrites
  PROVE  EndInv'
<1>1. host.q # <<>> /\ host.q \in Seq(Turns) /\ Once(host.q)
  BY DEF HostWrites, Typed, HostType, EndInv, ShapeInv
<1>2. PICK m \in Turns : m = Head(host.q)
  BY <1>1, OnceIs
<1>3. /\ host' = [host EXCEPT !.st = "working", !.q = Tail(@), !.pend = @ \cup {m}]
      /\ log' = Append(log, [k |-> "message", of |-> {m}])
      /\ UNCHANGED <<turn, sub, cursor, used>>
      /\ call' = call \/ (call.st = "host" /\ call' = [call EXCEPT !.st = "ok"])
  BY <1>2 DEF HostWrites, Reply
<1>4. /\ host'.st = "working" /\ host'.q = Tail(host.q) /\ host'.pend = host.pend \cup {m}
      /\ host'.own = host.own
  BY <1>3 DEF Typed, HostType
<1>5. /\ Once(host'.q) /\ m \in Range(host.q) /\ m \notin Range(host'.q)
      /\ Range(host.q) = {m} \cup Range(host'.q)
  BY <1>1, <1>2, <1>4, OnceIs
<1>6. Messages(host)' = Messages(host) /\ m \in Messages(host)
  BY <1>4, <1>5 DEF Messages
<1> DEFINE r == [k |-> "message", of |-> {m}]
<1>7. r \in LogRecord /\ r.k = "message" /\ r.of = {m}
  BY <1>2 DEF LogRecord
<1> HIDE DEF r
<1>8. PICK last \in Nat : last = Len(log) + 1
  BY LenProperties DEF Typed
<1>9. /\ Len(log) \in Nat /\ Len(log') = last /\ log'[last] = r
      /\ \A i \in 1..Len(log) : i \in 1..Len(log') /\ log'[i] = log[i]
      /\ \A i \in 1..Len(log') : i \in 1..Len(log) \/ i = last
  BY <1>3, <1>7, <1>8, AppendIs DEF r
<1>10. /\ \A i \in 1..Len(log) : (Ending(i)' <=> Ending(i))
       /\ ~Ending(last)'
  <2>1. ASSUME NEW i \in 1..Len(log)
        PROVE  Ending(i)' <=> Ending(i)
    BY <1>9 DEF Ending
  <2>2. ~Ending(last)'
    BY <1>7, <1>9 DEF Ending
  <2> QED BY <2>1, <2>2
<1>11. Prefix
  BY <1>9 DEF Prefix
<1>12. LogKept
  BY <1>6, <1>7, <1>9 DEF LogKept
<1>13. m \notin host.pend /\ \A i \in 1..Len(log) : m \notin log[i].of
  BY <1>5 DEF EndInv, ShapeInv
<1>14. ShapeInv'
  <2>1. Range(host'.q) \cap host'.pend = {}
    BY <1>4, <1>5 DEF EndInv, ShapeInv
  <2>2. ASSUME NEW x \in Range(host'.q), NEW i \in 1..Len(log')
        PROVE  x \notin log'[i].of
    <3>1. CASE i \in 1..Len(log)
      BY <1>5, <1>9, <2>2, <3>1 DEF EndInv, ShapeInv
    <3>2. CASE i = last
      BY <1>5, <1>7, <1>9, <3>2
    <3> QED BY <1>9, <3>1, <3>2
  <2>3. ASSUME NEW i \in 1..Len(log'), Ending(i)', NEW x \in log'[i].of
        PROVE  x \notin Messages(host)' /\ \A j \in (i + 1)..Len(log') : x \notin log'[j].of
    <3>1. i \in 1..Len(log)
      BY <1>9, <1>10, <2>3
    <3>2. Ending(i) /\ x \in log[i].of
      BY <1>9, <1>10, <2>3, <3>1
    <3>3. x \notin Messages(host) /\ \A j \in (i + 1)..Len(log) : x \notin log[j].of
      BY <3>1, <3>2 DEF EndInv, ShapeInv
    <3>4. ASSUME NEW j \in (i + 1)..Len(log')
          PROVE  x \notin log'[j].of
      <4>1. CASE j = last
        BY <1>6, <1>7, <1>9, <3>3, <4>1
      <4>2. CASE j # last
        <5>1. j \in (i + 1)..Len(log) /\ j \in 1..Len(log)
          BY <1>8, <1>9, <3>1, <4>2
        <5> QED BY <1>9, <3>3, <5>1
      <4> QED BY <4>1, <4>2
    <3> QED BY <1>6, <3>3, <3>4
  <2>4. ASSUME NEW i \in 1..Len(log'), ~Ending(i)'
        PROVE  log'[i].of # {}
    <3>1. CASE i \in 1..Len(log)
      <4>1. ~Ending(i)
        BY <1>10, <2>4, <3>1
      <4> QED BY <1>9, <3>1, <4>1 DEF EndInv, ShapeInv
    <3>2. CASE i = last
      BY <1>7, <1>9, <3>2
    <3> QED BY <1>9, <3>1, <3>2
  <2> QED BY <1>4, <1>5, <2>1, <2>2, <2>3, <2>4 DEF ShapeInv
<1>15. HistGrows /\ hist'.out = hist.out /\ (host.st = "working" => m \in hist'.during)
  <2>1. PICK d \in {hist.during, hist.during \cup {m}}, l \in {hist.late, hist.late \cup {m}},
             s \in {hist.stale, hist.stale \cup {m}} :
          /\ hist' = [hist EXCEPT !.during = d, !.late = l, !.stale = s]
          /\ host.st = "working" => m \in d
    BY <1>2 DEF HostWrites
  <2> QED BY <2>1 DEF HistGrows, Typed, HistType
<1>16. OwnKept
  <2> SUFFICES ASSUME NEW n \in Turns, ~Misled(n)', Messages(host) \subseteq {n}
               PROVE  HostOwn(n)'
    BY DEF OwnKept, HostOwn, Answering, Misled
  <2>1. m = n
    BY <1>6
  <2>2. ~host'.own
    BY <1>4, <1>15, <2>1 DEF Misled, EndInv, ShapeInv
  <2>3. ASSUME NEW i \in 1..Len(log'), n \in log'[i].of
        PROVE  Answering(i, n)'
    <3>1. i = last
      BY <1>9, <1>13, <2>1, <2>3
    <3>2. \A j \in (i + 1)..Len(log') : FALSE
      BY <1>8, <1>9, <3>1
    <3> QED BY <1>4, <2>1, <3>2 DEF Answering
  <2> QED BY <2>2, <2>3 DEF HostOwn
<1>17. CallOn
  BY <1>3 DEF CallOn, Typed, CallType
<1> QED BY <1>3, <1>11, <1>12, <1>14, <1>15, <1>16, <1>17, StaysKeeps DEF OwnKept

\* What else the host does.
LEMMA HostStepKeepsEnd ==
  ASSUME Typed, Typed', EndInv, HostRefuses \/ HostEnds \/ HostWorks \/ HostExit
  PROVE  EndInv'
<1>1. UNCHANGED <<turn, sub, cursor, hist>>
  BY DEF HostRefuses, HostEnds, HostWorks, HostExit
<1>2. used'.turns = used.turns
  BY FaultTyped, HostEndsIs DEF HostRefuses, HostWorks, HostExit
<1>3. CallOn /\ HistGrows
  BY <1>1 DEF HostRefuses, HostEnds, HostWorks, HostExit, Reply, CallOn, HistGrows, Typed, CallType
<1>4. ShapeInv' /\ LogKept /\ Prefix /\ OwnKept
  <2>1. CASE HostRefuses /\ host.st = "new"
    BY <2>1, ForgetKeeps DEF HostRefuses, RemoveAgent, Typed, Placed
  <2>2. CASE HostRefuses /\ host.st # "new"
    <3>1. host' = [host EXCEPT !.q = Tail(@)] /\ log' = log /\ host.q # <<>>
      BY <2>2 DEF HostRefuses, Starting
    <3>2. /\ host'.q = Tail(host.q) /\ host'.pend = host.pend /\ host'.own = host.own
          /\ host'.st = host.st /\ host.q \in Seq(Turns) /\ Once(host.q)
      BY <3>1 DEF Typed, HostType, EndInv, ShapeInv
    <3>3. Once(host'.q) /\ Range(host'.q) \subseteq Range(host.q)
      BY <3>1, <3>2, OnceIs
    <3> QED BY <3>1, <3>2, <3>3, DropKeeps
  <2>3. CASE HostEnds
    <3>1. PICK of \in SUBSET host.pend, k \in {"result", "invalid"} :
            /\ of # {} \/ host.own
            /\ log' = Append(log, [k |-> k, of |-> of])
            /\ host' = [host EXCEPT !.st = IF of = host.pend THEN "idle" ELSE "working",
                                    !.pend = @ \ of, !.own = FALSE]
      BY <2>3 DEF HostEnds
    <3>2. /\ host'.q = host.q /\ host'.pend = host.pend \ of /\ ~host'.own
          /\ host'.st # "working" => of = host.pend
      BY <3>1 DEF Typed, HostType
    <3> QED BY <3>1, <3>2, AnswerKeeps
  <2>4. CASE HostWorks
    <3>1. host.st = "idle" /\ log' = log /\ host' = [host EXCEPT !.st = "working", !.own = TRUE]
      BY <2>4 DEF HostWorks
    <3>2. /\ host'.q = host.q /\ host'.pend = host.pend /\ host'.st = "working" /\ host.pend = {}
          /\ Once(host'.q)
      BY <3>1 DEF Typed, HostType, EndInv, ShapeInv
    <3> QED BY <3>1, <3>2, DropKeeps
  <2>5. CASE HostExit
    <3>1. ProcessGone /\ host' = Gone(host) /\ host.st \in {"down", "idle", "working"}
      BY <2>5 DEF HostExit
    <3> QED BY <3>1, GoneIs, ProcessGoneKeeps
  <2> QED BY <2>1, <2>2, <2>3, <2>4, <2>5
<1> QED BY <1>1, <1>2, <1>3, <1>4, StaysKeeps DEF OwnKept

LEMMA NextKeepsEnd ==
  ASSUME Typed, Typed', EndInv, [Next]_vars
  PROVE  EndInv'
<1>1. CASE Relay
  <2>1. CASE Reconnect
    BY <2>1, QuietKeepsEnd DEF Reconnect, Typed, UsedType
  <2> QED BY <1>1, <2>1, ConnectedKeepsEnd, ShortEndsKeepEnd, RemovedKeepsEnd, AskKeepsEnd,
             DeliveredKeepsEnd, RefusedKeepsEnd, InterruptedKeepsEnd, ReadKeepsEnd, FollowedIdleKeepsEnd
             DEF Relay, Goes
<1>2. CASE Host
  BY <1>2, HostTakesKeepsEnd, HostWritesKeepsEnd, HostStepKeepsEnd DEF Host
<1>3. CASE Person
  BY <1>3, SendTurnKeepsEnd, StopKeepsEnd, ClearKeepsEnd, FollowKeepsEnd DEF Person
<1>4. CASE Wrong
  BY <1>4, ShortEndsKeepEnd, HostStepKeepsEnd, LossKeepsEnd, RelayRestartsKeepsEnd DEF Wrong
<1>5. CASE UNCHANGED vars
  BY <1>5, QuietKeepsEnd DEF vars
<1> QED BY <1>1, <1>2, <1>3, <1>4, <1>5 DEF Next

LEMMA InitEnds ==
  ASSUME Init
  PROVE  EndInv
<1>1. /\ Messages(host) = {} /\ Once(host.q) /\ Range(host.q) = {} /\ host.pend = {} /\ ~host.own
      /\ Len(log) = 0 /\ turn.n = 0 /\ call.kind = "none" /\ used.turns = 0
      /\ \A n \in Turns : hist.out[n] = "none"
  BY DEF Init, NoTurn, NoCall, NoAgent, Messages, Range, Once
<1>2. \A i \in 1..Len(log) : FALSE
  BY <1>1
<1>3. ShapeInv
  BY <1>1, <1>2 DEF ShapeInv
<1>4. PlaceInv /\ SpawnInv /\ OwnInv
  BY <1>1, <1>2 DEF PlaceInv, SpawnInv, OwnInv, Nowhere
<1>5. PastInv
  BY <1>1 DEF PastInv
<1>6. EndsOnOwn
  BY <1>1 DEF EndsOnOwn
<1> QED BY <1>3, <1>4, <1>5, <1>6 DEF EndInv

\* However many turns and failures: a turn that ends on a record of other
\* messages than its own had its message folded into a turn already running,
\* or follows one given up while the host still had its message.
THEOREM TurnsEndOnTheirOwn == Spec => []EndsOnOwn
<1>1. EndInv => EndsOnOwn
  BY DEF EndInv
<1> QED BY <1>1, InitTyped, InitEnds, NextTyped, NextKeepsEnd, PTL DEF Spec

=============================================================================
