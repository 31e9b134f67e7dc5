---------------------------- MODULE ChoiceMachine ----------------------------
(***************************************************************************)
(* The questions a session has open for a person, as the pure operations   *)
(* of session/choiceMachine.ts.  A machine is a record m:                  *)
(*   m.choice     a question asked with present_choice (pendingChoice)     *)
(*   m.card       calls the person is to decide on (deferredApproval)      *)
(*   m.queued     calls waiting behind a card that is on screen            *)
(*   m.staged     calls refused in a turn that has not ended               *)
(*   m.withdrawn  the model waits for an approval that is gone             *)
(*   m.ignore     calls of turns up to this one are not asked about        *)
(*   m.active     which of the two deferred slots is on screen             *)
(*   m.live       a call the CLI is blocked on (pendingApproval)           *)
(*   m.shown      the calls on the card as the person was shown it         *)
(* Four of them are mirrored to the session's record, one synchronous      *)
(* write at a time, and the relay may die between two of them.  An         *)
(* operation therefore works on a pair s: the machine, and the contents    *)
(* the record had so far, in order.                                        *)
(***************************************************************************)
EXTENDS Integers, Sequences, FiniteSets

CONSTANTS
    Calls,   \* the calls of one tool that need approval
    Broad    \* those no rule can name alone: a grant of one is of the tool

ASSUME CallsAssumption == Broad \subseteq Calls

MaxOf(a, b) == IF a > b THEN a ELSE b

LastOf(seq) == seq[Len(seq)]

NothingStored == [choice |-> FALSE, card |-> {}, queued |-> {}, withdrawn |-> FALSE]

NothingAsked ==
    [choice |-> FALSE, card |-> {}, queued |-> {}, staged |-> {}, withdrawn |-> FALSE,
     ignore |-> 0, active |-> "none", live |-> FALSE, shown |-> {}]

From(m, stored) == [m |-> m, ds |-> <<stored>>]

\* A slot is changed, then mirrored (if it changes at all).
Mirrored(s, slot, value) ==
    IF s.m[slot] = value THEN s
    ELSE [m |-> [s.m EXCEPT ![slot] = value],
          ds |-> Append(s.ds, [LastOf(s.ds) EXCEPT ![slot] = value])]

StagedCalls(m) == {x.call : x \in m.staged}

\* The calls somebody may still decide on.
Held(m) == m.card \cup m.queued \cup StagedCalls(m)

\* publishNext: with no card left the queue becomes it, its write first.
NextCard(s) ==
    IF s.m.card = {} /\ s.m.queued # {}
    THEN Mirrored(Mirrored(s, "queued", {}), "card", s.m.queued)
    ELSE s

Show(s) ==
    IF s.m.card = {} THEN s
    ELSE [s EXCEPT !.m.active = "approval", !.m.shown = s.m.card]

PublishNext(s) ==
    IF s.m.active # "none" THEN s
    ELSE IF s.m.choice THEN [s EXCEPT !.m.active = "choice"]
    ELSE Show(NextCard(s))

\* The constructor: waiting calls with no card to wait behind become the
\* card, here with the card's write first.
Rehydrated(d) ==
    LET m == [NothingAsked EXCEPT !.choice = d.choice, !.card = d.card, !.queued = d.queued,
                                  !.withdrawn = d.withdrawn]
        s == IF d.card = {} /\ d.queued # {}
             THEN Mirrored(Mirrored(From(m, d), "card", d.queued), "queued", {})
             ELSE From(m, d)
    IN  IF d.choice THEN [s EXCEPT !.m.active = "choice"] ELSE Show(s)

\* A session with no conversation drops what it adopted from disk.
DropRehydrated(s) ==
    LET dropped == Mirrored(Mirrored(Mirrored(Mirrored(s, "choice", FALSE),
                     "card", {}), "queued", {}), "withdrawn", FALSE)
    IN  [dropped EXCEPT !.m.active = "none", !.m.shown = {}]

PresentChoiceTo(s) == IF s.m.choice THEN s ELSE PublishNext(Mirrored(s, "choice", TRUE))

\* A call refused on the spot, to be asked about when its turn ends; a call
\* already held is not asked about twice.
MutDeferApproval(s, call, turn) ==
    IF turn <= s.m.ignore \/ call \in Held(s.m) THEN s
    ELSE [s EXCEPT !.m.staged = @ \cup {[call |-> call, turn |-> turn]}]

DeferApproval(s, call, turn) ==
    IF turn <= s.m.ignore THEN Mirrored(s, "withdrawn", TRUE)
    ELSE IF call \in Held(s.m) THEN s
    ELSE [s EXCEPT !.m.staged = @ \cup {[call |-> call, turn |-> turn]}]

OfTurn(m, turn) == {x \in m.staged : x.turn = turn}

\* What a finished turn staged becomes the card, or waits behind the one on
\* screen.
MutFlushDeferred(s, turn) ==
    LET mine == {x.call : x \in OfTurn(s.m, turn)}
        left == [s EXCEPT !.m.staged = @ \ OfTurn(s.m, turn)]
    IN  IF mine = {} THEN s
        ELSE PublishNext(Mirrored(left, "card", s.m.card \cup mine))

FlushDeferred(s, turn) ==
    LET mine == {x.call : x \in OfTurn(s.m, turn)}
        left == [s EXCEPT !.m.staged = @ \ OfTurn(s.m, turn)]
    IN  IF mine = {} THEN s
        ELSE IF s.m.card # {} /\ s.m.active = "approval"
             THEN Mirrored(left, "queued", s.m.queued \cup mine)
             ELSE PublishNext(Mirrored(left, "card", s.m.card \cup mine))

\* What a stopped turn staged is dropped, and the model will be told.
DropStaged(s, turn) ==
    IF OfTurn(s.m, turn) = {} THEN s
    ELSE Mirrored([s EXCEPT !.m.staged = @ \ OfTurn(s.m, turn)], "withdrawn", TRUE)

\* The person moved on: every slot is emptied, and refusals still to come
\* from turns up to `turn` are not asked about.
MutDiscardStale(s, turn) ==
    LET unstaged == [s EXCEPT !.m.staged = {}, !.m.ignore = MaxOf(@, turn)]
        left == Mirrored(Mirrored(unstaged, "choice", FALSE), "card", {})
    IN  [left EXCEPT !.m.active = "none", !.m.shown = {}, !.m.queued = {}]

DiscardStale(s, turn) ==
    LET unstaged == [s EXCEPT !.m.staged = {}, !.m.ignore = MaxOf(@, turn)]
        left == Mirrored(Mirrored(Mirrored(unstaged, "queued", {}), "choice", FALSE),
                         "card", {})
    IN  [left EXCEPT !.m.active = "none", !.m.shown = {}]

TakeWithdrawn(s) == Mirrored(s, "withdrawn", FALSE)

ChoiceAnswered(s) ==
    PublishNext([Mirrored(s, "choice", FALSE) EXCEPT !.m.active = "none"])

CardAnswered(s) ==
    PublishNext([Mirrored(s, "card", {}) EXCEPT !.m.active = "none", !.m.shown = {}])

(***************************************************************************)
(* What an approval lets the next turn do (grantRules.ts): a narrow rule   *)
(* its own call, a broad one every call of the tool, and so only when no   *)
(* call of the tool is refused or waiting.                                 *)
(***************************************************************************)
Covered(grants, call) == call \in grants \/ grants \cap Broad # {}

Granted(card, yes, waiting) ==
    LET blockers == (card \ yes) \cup waiting
    IN  {c \in yes : IF c \in Broad THEN blockers = {} ELSE c \notin blockers}

=============================================================================
