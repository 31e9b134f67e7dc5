---------------------------- MODULE SharedSession ----------------------------
(***************************************************************************)
(* One session of the relay (session/sharedSession.ts): the queue that     *)
(* runs its turns one at a time, the questions it has open for a person    *)
(* (ChoiceMachine), the conversation it shows beside the one the agent     *)
(* resumes, edits and /clear, and what of it survives a relay that dies.   *)
(*                                                                         *)
(* A session is of one of two kinds, fixed for good: a worker of a room    *)
(* (`hosted`: its agent lives in the agent host, is refused the calls that *)
(* need approval and keeps its turn through a relay restart), or an        *)
(* ordinary one (a process per turn, blocked while it waits for approval,  *)
(* whose transcript an edit can rewind).                                   *)
(*                                                                         *)
(* A handler runs to its end before any other: it is one action.  The      *)
(* relay can still die inside one, between two writes to disk: `trail`     *)
(* holds every content the disk had during the last handler.               *)
(***************************************************************************)
EXTENDS ChoiceMachine

CONSTANTS
    MaxInputs,   \* turns, edits and clears queued and questions asked, in all
    MaxQueue,    \* what waits in the queue at once
    MaxTurns,    \* turns started
    MaxCrashes   \* deaths of the relay

ASSUME BoundsAssumption ==
    /\ MaxInputs \in Nat /\ MaxQueue \in Nat /\ MaxTurns \in Nat /\ MaxCrashes \in Nat

VARIABLES
    hosted,    \* the kind of session
    cm,        \* its choice machine
    queue,     \* what waits for its turn
    run,       \* the turn in flight
    turnSeq,   \* turns started by this process
    born,      \* turns ever started: names them in `hist` and `conv`
    hist,      \* the turns shown, and whether each is in the transcript
    conv,      \* the turns in the transcript the agent resumes
    sid,       \* whether the driver has a conversation to resume
    loaded,    \* historyLoad: the transcript was read
    cleared,   \* historyCleared
    hostTurn,  \* the host's agent is in a turn
    rejected,  \* turnQueue is a rejected promise
    told,      \* calls the model waits on, as it was told to
    disk,      \* the stored record
    trail,     \* what it was during the last handler
    inputs, crashes

vars == <<hosted, cm, queue, run, turnSeq, born, hist, conv, sid, loaded, cleared,
          hostTurn, rejected, told, disk, trail, inputs, crashes>>

\* What a handler of the conversation leaves alone, and one of the queue.
conversation == <<hist, conv, sid, loaded, cleared, born, turnSeq>>
outside == <<hosted, hostTurn, rejected, crashes>>

Kinds == {"person", "relay", "answer", "verdict", "edit", "clear", "follow"}

Item == [kind : Kinds, note : BOOLEAN, grants : SUBSET Calls, about : SUBSET Calls,
         before : Nat, dropped : BOOLEAN]

Plain(kind) == [kind |-> kind, note |-> FALSE, grants |-> {}, about |-> {}, before |-> 0,
                dropped |-> FALSE]

Idle == [turn |-> FALSE, kind |-> "clear", grants |-> {}, stop |-> FALSE]

Record(asked, s) == [asked |-> asked, sid |-> s]

\* A handler that takes the machine to `step.m`, with `s` on record.
Moves(step, s) ==
    /\ cm' = step.m
    /\ disk' = Record(LastOf(step.ds), s)
    /\ trail' = {Record(step.ds[i], s) : i \in DOMAIN step.ds}

Here == From(cm, disk.asked)

\* One that leaves it alone.
Quiet == Moves(Here, disk.sid)

Init ==
    /\ hosted \in BOOLEAN
    /\ cm = NothingAsked /\ queue = <<>> /\ run = Idle
    /\ turnSeq = 0 /\ born = 0 /\ hist = <<>> /\ conv = <<>>
    /\ sid = FALSE /\ loaded = FALSE /\ cleared = FALSE
    /\ hostTurn = FALSE /\ rejected = FALSE /\ told = {}
    /\ disk = Record(NothingStored, FALSE) /\ trail = {disk}
    /\ inputs = 0 /\ crashes = 0

Input == inputs < MaxInputs /\ inputs' = inputs + 1

Enqueue(item) ==
    /\ Len(queue) < MaxQueue
    /\ Input
    /\ queue' = Append(queue, item)

\* isBusy: a clear is not counted, nor what was dropped.
Busy == run.turn \/ \E i \in DOMAIN queue : queue[i].kind # "clear" /\ ~queue[i].dropped

(***************************************************************************)
(* discardAndNote: the person moves on.  What was open is gone, and the    *)
(* note for the model is owed if it was left waiting, now or before.       *)
(***************************************************************************)
MovesOn == Moves(TakeWithdrawn(DiscardStale(Here, turnSeq)), disk.sid)
NoteOwed == Held(cm) # {} \/ cm.withdrawn

StopsTurn == run' = [run EXCEPT !.stop = run.turn]

SubmitTurn ==
    /\ ~rejected
    /\ MovesOn
    /\ Enqueue([Plain("person") EXCEPT !.note = NoteOwed])
    /\ UNCHANGED <<run, told>> /\ UNCHANGED conversation /\ UNCHANGED outside

\* A wakeup, a finished job, a digest, another agent: nobody moved on.
SubmitOther ==
    /\ ~rejected
    /\ Enqueue(Plain("relay"))
    /\ Quiet
    /\ UNCHANGED <<run, told>> /\ UNCHANGED conversation /\ UNCHANGED outside

StopTurn ==
    /\ run.turn /\ ~run.stop
    /\ StopsTurn
    /\ Quiet
    /\ UNCHANGED <<queue, told, inputs>> /\ UNCHANGED conversation /\ UNCHANGED outside

MutEditMessage(k) ==
    /\ ~rejected
    /\ MovesOn
    /\ StopsTurn
    /\ Enqueue([Plain("edit") EXCEPT !.note = NoteOwed, !.before = k - 2])
    /\ UNCHANGED told /\ UNCHANGED conversation /\ UNCHANGED outside

\* The cut is found in the conversation as shown now.
EditMessage(k) ==
    /\ ~rejected
    /\ MovesOn
    /\ StopsTurn
    /\ Enqueue([Plain("edit") EXCEPT !.note = NoteOwed, !.before = k - 1])
    /\ UNCHANGED told /\ UNCHANGED conversation /\ UNCHANGED outside

\* /clear: the conversation is reset in its turn of the queue, what is open
\* is dismissed at once, and the new conversation is owed no note.
ClearConversation ==
    /\ ~rejected
    /\ MovesOn
    /\ Enqueue(Plain("clear"))
    /\ told' = {}
    /\ UNCHANGED run /\ UNCHANGED conversation /\ UNCHANGED outside

(***************************************************************************)
(* answerChoice.                                                           *)
(***************************************************************************)
AnswerChoice ==
    /\ ~rejected
    /\ cm.choice /\ cm.active = "choice"
    /\ Moves(ChoiceAnswered(Here), disk.sid)
    /\ Enqueue(Plain("answer"))
    /\ UNCHANGED <<run, told>> /\ UNCHANGED conversation /\ UNCHANGED outside

Waiting == cm.queued \cup StagedCalls(cm)

AnswerCard(yes) ==
    /\ ~rejected
    /\ cm.active = "approval"
    /\ Moves(CardAnswered(Here), disk.sid)
    /\ Enqueue([Plain("verdict") EXCEPT !.about = cm.card,
                                        !.grants = Granted(cm.card, yes, Waiting)])
    /\ UNCHANGED <<run, told>> /\ UNCHANGED conversation /\ UNCHANGED outside

\* The blocked call is released; nothing is queued.
AnswerBlocked ==
    /\ cm.live
    /\ Moves([Here EXCEPT !.m.live = FALSE], disk.sid)
    /\ UNCHANGED <<queue, run, told, inputs>>
    /\ UNCHANGED conversation /\ UNCHANGED outside

(***************************************************************************)
(* The room stops or removes the worker: what waits never runs (a clear,   *)
(* which is not numbered, does), and the turn is interrupted.  `told`      *)
(* forgets what only the dropped items would have told the model.          *)
(***************************************************************************)
ToldBy(q) == {c \in told : \E i \in DOMAIN q : ~q[i].dropped /\ (q[i].note \/ c \in q[i].about)}

Promised(m, q) == Held(m) \cup (IF m.withdrawn THEN told ELSE {}) \cup ToldBy(q)

Dropped(q) == [i \in DOMAIN q |->
                 [q[i] EXCEPT !.dropped = q[i].kind # "clear"]]

DiscardQueuedTurns ==
    /\ hosted /\ queue # <<>>
    /\ queue' = Dropped(queue)
    /\ StopsTurn
    /\ told' = told \cap Promised(cm, queue')
    /\ Quiet
    /\ UNCHANGED inputs /\ UNCHANGED conversation /\ UNCHANGED outside

\* After a restart: the turn the agent went on with is followed.
FollowTurnInFlight ==
    /\ hosted /\ hostTurn /\ ~Busy /\ ~rejected
    /\ Enqueue(Plain("follow"))
    /\ sid' \in {sid, TRUE}
    /\ Moves(Here, IF sid' # sid THEN TRUE ELSE disk.sid)
    /\ UNCHANGED <<run, told, hist, conv, loaded, cleared, born, turnSeq>> /\ UNCHANGED outside

(***************************************************************************)
(* The queue.                                                              *)
(***************************************************************************)
Lined(turn) == [turn |-> turn, lined |-> TRUE]

InTranscript == [i \in DOMAIN conv |-> Lined(conv[i])]

NeedsHistoryLoad(h, s) == h = <<>> /\ ~cleared /\ ~loaded /\ s

\* runTurn, to the moment the driver has the turn: the conversation so far
\* is read first, the turn is shown, and the model has the note or verdicts.
RunTurn(item, h, q) ==
    /\ born < MaxTurns
    /\ hist' = Append(IF NeedsHistoryLoad(h, sid') THEN InTranscript ELSE h,
                      [turn |-> born + 1, lined |-> FALSE])
    /\ loaded' = (loaded \/ NeedsHistoryLoad(h, sid'))
    /\ born' = born + 1 /\ turnSeq' = turnSeq + 1
    /\ run' = [turn |-> TRUE, kind |-> item.kind, grants |-> item.grants, stop |-> FALSE]
    /\ hostTurn' = hosted
    /\ told' = (IF item.note THEN told \cap (Held(cm) \cup ToldBy(q)) ELSE told \ item.about)

Ready == ~run.turn /\ ~rejected /\ queue # <<>>

\* An item dropped meanwhile leaves the queue without running.
Skip ==
    /\ Ready /\ Head(queue).dropped
    /\ queue' = Tail(queue)
    /\ Quiet
    /\ UNCHANGED <<run, told, inputs>> /\ UNCHANGED conversation /\ UNCHANGED outside

StartTurn ==
    /\ Ready
    /\ ~Head(queue).dropped /\ Head(queue).kind \notin {"edit", "clear"}
    /\ queue' = Tail(queue)
    /\ UNCHANGED <<inputs, conv, sid, cleared, hosted, rejected, crashes>>
    /\ RunTurn(Head(queue), hist, queue')
    /\ Quiet

MutRunClear ==
    /\ Ready /\ Head(queue).kind = "clear"
    /\ queue' = Tail(queue)
    /\ hist' = <<>> /\ cleared' = TRUE
    /\ Quiet
    /\ UNCHANGED <<run, told, inputs, loaded, born, turnSeq, sid, conv>> /\ UNCHANGED outside

RunClear ==
    /\ Ready /\ Head(queue).kind = "clear"
    /\ queue' = Tail(queue)
    /\ hist' = <<>> /\ conv' = <<>> /\ sid' = FALSE /\ cleared' = TRUE
    /\ Moves(Here, FALSE)
    /\ UNCHANGED <<run, told, inputs, loaded, born, turnSeq>> /\ UNCHANGED outside

AtEdit == Ready /\ ~Head(queue).dropped /\ Head(queue).kind = "edit"
CutAt == Head(queue).before

\* The driver of a worker cannot rewind; a transcript may not be readable.
EditFails ==
    /\ AtEdit /\ CutAt > 0 /\ sid
    /\ queue' = Tail(queue)
    /\ told' = told \cap Promised(cm, queue')
    /\ Quiet
    /\ UNCHANGED <<run, inputs>> /\ UNCHANGED conversation /\ UNCHANGED outside

\* The transcript keeps the lines of the turns before the cut.
Rewound == IF CutAt < Len(conv) THEN SubSeq(conv, 1, CutAt) ELSE conv

\* The rewind (or, before the first turn, the reset) is stored, the shown
\* conversation cut, and the edited text runs.  Cutting past the end of the
\* conversation throws out of the queue.
PerformEdit ==
    /\ AtEdit
    /\ (CutAt > 0 /\ sid) => ~hosted
    /\ queue' = Tail(queue)
    /\ conv' = Rewound
    /\ sid' = (sid /\ CutAt > 0)
    /\ Moves(Here, (sid \/ disk.sid) /\ CutAt > 0)
    /\ IF CutAt <= Len(hist)
       THEN RunTurn(Head(queue), SubSeq(hist, 1, CutAt), queue') /\ UNCHANGED rejected
       ELSE /\ rejected' = TRUE
            /\ told' = told \cap Promised(cm, queue')
            /\ UNCHANGED <<run, hist, loaded, born, turnSeq, hostTurn>>
    /\ UNCHANGED <<inputs, cleared, hosted, crashes>>

(***************************************************************************)
(* The turn in flight.                                                     *)
(***************************************************************************)

\* checkPermission of a worker: refused on the spot, unless the turn carries
\* a grant.  A native subagent in the background may ask between turns.
AskDeferred(call) ==
    /\ hosted /\ ~rejected /\ Input
    /\ ~Covered(run.grants, call)
    /\ Moves(DeferApproval(Here, call, turnSeq), disk.sid)
    /\ told' = told \cup {call}
    /\ UNCHANGED <<queue, run>> /\ UNCHANGED conversation /\ UNCHANGED outside

AskBlocking ==
    /\ ~hosted /\ run.turn /\ ~cm.live /\ Input
    /\ Moves([Here EXCEPT !.m.live = TRUE], disk.sid)
    /\ UNCHANGED <<queue, run, told>> /\ UNCHANGED conversation /\ UNCHANGED outside

PresentChoice ==
    /\ ~hosted /\ run.turn /\ Input
    /\ Moves(PresentChoiceTo(Here), disk.sid)
    /\ UNCHANGED <<queue, run, told>> /\ UNCHANGED conversation /\ UNCHANGED outside

\* The finally of runTurn: the blocked call is released, the turn's
\* refusals become a card, or are dropped with a stopped turn.
TurnSettled(stopped) ==
    LET released == [Here EXCEPT !.m.live = FALSE]
    IN  IF stopped THEN DropStaged(released, turnSeq) ELSE FlushDeferred(released, turnSeq)

\* The last turn shown has (or has not) a line in the transcript the agent
\* resumes; with no conversation left, no turn shown has one.
Settle(kept, lined) ==
    /\ sid' = kept
    /\ conv' = (IF ~kept THEN <<>> ELSE IF lined THEN Append(conv, born) ELSE conv)
    /\ hist' = [i \in DOMAIN hist |->
                  IF ~kept THEN [hist[i] EXCEPT !.lined = FALSE]
                  ELSE IF i = Len(hist) THEN [hist[i] EXCEPT !.lined = lined]
                  ELSE hist[i]]

TurnOver ==
    /\ run' = Idle /\ hostTurn' = FALSE
    /\ UNCHANGED <<queue, told, loaded, cleared, born, turnSeq, hosted, rejected, crashes>>

\* A turn that ran to its end; in plan mode its text may ask a question.
EndTurn(marker) ==
    /\ run.turn
    /\ IF marker THEN run.kind # "verdict" /\ Input ELSE UNCHANGED inputs
    /\ Moves(IF marker THEN PresentChoiceTo(TurnSettled(FALSE)) ELSE TurnSettled(FALSE), TRUE)
    /\ Settle(TRUE, run.kind # "follow")
    /\ TurnOver

\* Stopped: before anything was spawned (no line), or after; the driver
\* returns, and the conversation id it has is stored.
EndStopped(lined) ==
    /\ run.turn /\ run.stop
    /\ Moves(TurnSettled(TRUE), disk.sid \/ sid \/ lined)
    /\ Settle(sid \/ lined, lined)
    /\ UNCHANGED inputs /\ TurnOver

\* Failed: never spawned, or an error from the agent; a conversation that
\* cannot be resumed is let go of, in memory only.
EndFailed(kept, lined) ==
    /\ run.turn
    /\ kept => sid \/ lined
    /\ lined => kept
    /\ Moves(TurnSettled(FALSE), disk.sid)
    /\ Settle(kept, lined)
    /\ UNCHANGED inputs /\ TurnOver

\* The host's agent ends a turn nobody follows.
HostTurnEnds ==
    /\ hostTurn /\ ~run.turn
    /\ hostTurn' = FALSE
    /\ Quiet
    /\ UNCHANGED <<queue, run, told, inputs, hosted, rejected, crashes>>
    /\ UNCHANGED conversation

\* A device connects: the transcript is read if nothing is shown yet.
AddClient ==
    /\ NeedsHistoryLoad(hist, sid)
    /\ hist' = InTranscript /\ loaded' = TRUE
    /\ Quiet
    /\ UNCHANGED <<queue, run, told, inputs, conv, sid, cleared, born, turnSeq>>
    /\ UNCHANGED outside

(***************************************************************************)
(* The relay dies, in a handler or between two, and a new one adopts the   *)
(* record: memory is gone, and with it the queue.  A turn of the relay's   *)
(* own dies too, its line written or not.                                  *)
(***************************************************************************)
Adopted(d) ==
    IF d.sid THEN Rehydrated(d.asked) ELSE DropRehydrated(Rehydrated(d.asked))

Crash ==
    /\ crashes < MaxCrashes \/ rejected
    /\ crashes' = (IF rejected THEN crashes ELSE crashes + 1)
    /\ \E d \in trail, lined \in BOOLEAN :
         /\ lined => run.turn /\ run.kind # "follow"
         /\ Moves(Adopted(d), d.sid)
         /\ sid' = d.sid
         /\ conv' = (IF ~(d.sid /\ sid) THEN <<>>
                     ELSE IF lined THEN Append(conv, born) ELSE conv)
         /\ told' = told \cap (Held(cm') \cup (IF cm'.withdrawn THEN told ELSE {}))
    /\ queue' = <<>> /\ run' = Idle /\ hist' = <<>> /\ turnSeq' = 0
    /\ loaded' = FALSE /\ cleared' = FALSE /\ rejected' = FALSE
    /\ UNCHANGED <<hosted, hostTurn, born, inputs>>

Asks == (\E call \in Calls : AskDeferred(call)) \/ AskBlocking \/ PresentChoice

Ends == \/ \E marker \in BOOLEAN : EndTurn(marker)
        \/ \E lined \in BOOLEAN : EndStopped(lined)
        \/ \E kept, lined \in BOOLEAN : EndFailed(kept, lined)

Person == \/ SubmitTurn \/ StopTurn \/ ClearConversation \/ AddClient
          \/ \E k \in DOMAIN hist : EditMessage(k)
          \/ AnswerChoice \/ AnswerBlocked
          \/ \E yes \in SUBSET cm.card : AnswerCard(yes)

Relay == \/ SubmitOther \/ DiscardQueuedTurns \/ FollowTurnInFlight
         \/ Skip \/ StartTurn \/ RunClear \/ EditFails \/ PerformEdit

Next == Person \/ Relay \/ Asks \/ Ends \/ HostTurnEnds \/ Crash

Spec == Init /\ [][Next]_vars

-----------------------------------------------------------------------------
(***************************************************************************)
(* Properties.                                                             *)
(***************************************************************************)

\* Every field holds a value of its kind, the machine and the disk included.
TypeOK ==
    /\ hosted \in BOOLEAN
    /\ cm \in [choice : BOOLEAN, card : SUBSET Calls, queued : SUBSET Calls,
               staged : SUBSET [call : Calls, turn : Nat], withdrawn : BOOLEAN,
               ignore : Nat, active : {"none", "choice", "approval"}, live : BOOLEAN,
               shown : SUBSET Calls]
    /\ queue \in Seq(Item)
    /\ run \in [turn : BOOLEAN, kind : Kinds, grants : SUBSET Calls, stop : BOOLEAN]
    /\ turnSeq \in Nat /\ born \in Nat /\ inputs \in Nat /\ crashes \in Nat
    /\ hist \in Seq([turn : Nat, lined : BOOLEAN]) /\ conv \in Seq(Nat)
    /\ sid \in BOOLEAN /\ loaded \in BOOLEAN /\ cleared \in BOOLEAN
    /\ hostTurn \in BOOLEAN /\ rejected \in BOOLEAN
    /\ told \in SUBSET Calls
    /\ disk \in [asked : [choice : BOOLEAN, card : SUBSET Calls, queued : SUBSET Calls,
                          withdrawn : BOOLEAN], sid : BOOLEAN]

\* A call the model was told to wait on is never forgotten: it is with the
\* person, or staged to be, or a message that tells the model is on its way,
\* or the next one will carry the note.  (A dropped or failed message, and a
\* crash, lose what they carried, and nothing else.)
NoCallForgotten == told \subseteq Promised(cm, queue)

\* What waits for the person is on screen: a card stays with the calls it was
\* shown with, nothing waits while the screen is empty, and no blocked call
\* outlives the turn whose process waits for it.
WaitingIsShown ==
    /\ cm.active = "approval" => cm.card # {} /\ cm.shown = cm.card
    /\ cm.active = "choice" => cm.choice
    /\ cm.active = "none" => ~cm.choice /\ cm.card = {} /\ cm.queued = {}
    /\ cm.live => run.turn

\* The record tells all of what is asked: a relay that starts from it shows
\* the same question and the same calls.
DiskTellsAll ==
    disk.asked = [choice |-> cm.choice, card |-> cm.card, queued |-> cm.queued,
                  withdrawn |-> cm.withdrawn]

\* Between turns, the conversation shown is the one the agent resumes, turn
\* for turn, after any edits, clears and restarts: unless it shows a turn
\* that never reached the transcript.
ShownIsRemembered ==
    ~hosted /\ ~run.turn /\ ~rejected /\ ~NeedsHistoryLoad(hist, sid)
      /\ (\A i \in DOMAIN hist : hist[i].lined)
    => conv = [i \in DOMAIN hist |-> hist[i].turn]

\* As the code's comment has it, turnQueue never rejects: what waits in it
\* always comes to run.
QueueNeverRejects == ~rejected

=============================================================================
