------------------------- MODULE SharedSessionProofs -------------------------
(***************************************************************************)
(* Theorems about SharedSession, for any calls, bounds and kind of session. *)
(*                                                                         *)
(* The proofs follow the module's layers.  The operations of ChoiceMachine *)
(* keep `Sound` (what was written last is what the machine holds) and end  *)
(* in a machine that is `Shown` (nothing waits behind an empty screen);    *)
(* `Moves` carries both into the session's state; what an action does to   *)
(* the queue, the turn and the conversation is typed apart.                *)
(***************************************************************************)
EXTENDS SharedSession, TLAPS, SequenceTheorems

Stored == [choice : BOOLEAN, card : SUBSET Calls, queued : SUBSET Calls,
           withdrawn : BOOLEAN]

Machine ==
    [choice : BOOLEAN, card : SUBSET Calls, queued : SUBSET Calls,
     staged : SUBSET [call : Calls, turn : Nat], withdrawn : BOOLEAN,
     ignore : Nat, active : {"none", "choice", "approval"}, live : BOOLEAN,
     shown : SUBSET Calls]

MirrorOf(m) == [choice |-> m.choice, card |-> m.card, queued |-> m.queued,
                withdrawn |-> m.withdrawn]

\* The machine, and a record that says as much.
Sound(s) ==
    /\ s \in [m : Machine, ds : Seq(Stored)]
    /\ Len(s.ds) > 0
    /\ LastOf(s.ds) = MirrorOf(s.m)

\* What is on screen is there to be on screen.
Screened(m) ==
    /\ m.active = "approval" => m.card # {} /\ m.shown = m.card
    /\ m.active = "choice" => m.choice

\* And what is there to be shown is.
Shown(m) ==
    /\ Screened(m)
    /\ m.active = "none" => ~m.choice /\ m.card = {} /\ m.queued = {}

-----------------------------------------------------------------------------
\* What is written after a machine's last write makes it sound again.
LEMMA WrittenSound ==
    ASSUME NEW m \in Machine, NEW ds \in Seq(Stored)
    PROVE  Sound([m |-> m, ds |-> Append(ds, MirrorOf(m))])
<1>1. MirrorOf(m) \in Stored
    BY DEF MirrorOf, Stored, Machine
<1>2. /\ Append(ds, MirrorOf(m)) \in Seq(Stored)
      /\ Len(Append(ds, MirrorOf(m))) > 0
      /\ LastOf(Append(ds, MirrorOf(m))) = MirrorOf(m)
    BY <1>1, AppendProperties DEF LastOf
<1> QED BY <1>2 DEF Sound

\* A slot is changed and mirrored, alone.
LEMMA MirrorsChoice ==
    ASSUME NEW s, Sound(s), NEW value \in BOOLEAN
    PROVE  /\ Sound(Mirrored(s, "choice", value))
           /\ Mirrored(s, "choice", value).m = [s.m EXCEPT !.choice = value]
<1> DEFINE m == [s.m EXCEPT !.choice = value]
<1>1. CASE s.m.choice = value
    BY <1>1 DEF Mirrored, Sound, Machine
<1>2. CASE s.m.choice # value
    <2>0. m \in Machine /\ LastOf(s.ds) = MirrorOf(s.m) /\ s.m \in Machine
        BY DEF Sound, Machine
    <2>1. [LastOf(s.ds) EXCEPT !.choice = value] = MirrorOf(m)
        BY <2>0 DEF Machine, MirrorOf
    <2>2. Mirrored(s, "choice", value) = [m |-> m, ds |-> Append(s.ds, MirrorOf(m))]
        BY <1>2, <2>1 DEF Mirrored
    <2>3. s.ds \in Seq(Stored)
        BY DEF Sound
    <2> HIDE DEF m
    <2>4. Sound(Mirrored(s, "choice", value)) /\ Mirrored(s, "choice", value).m = m
        BY <2>0, <2>2, <2>3, WrittenSound
    <2> QED BY <2>4 DEF m
<1> QED BY <1>1, <1>2

LEMMA MirrorsCard ==
    ASSUME NEW s, Sound(s), NEW value \in SUBSET Calls
    PROVE  /\ Sound(Mirrored(s, "card", value))
           /\ Mirrored(s, "card", value).m = [s.m EXCEPT !.card = value]
<1> DEFINE m == [s.m EXCEPT !.card = value]
<1>1. CASE s.m.card = value
    BY <1>1 DEF Mirrored, Sound, Machine
<1>2. CASE s.m.card # value
    <2>0. m \in Machine /\ LastOf(s.ds) = MirrorOf(s.m) /\ s.m \in Machine
        BY DEF Sound, Machine
    <2>1. [LastOf(s.ds) EXCEPT !.card = value] = MirrorOf(m)
        BY <2>0 DEF Machine, MirrorOf
    <2>2. Mirrored(s, "card", value) = [m |-> m, ds |-> Append(s.ds, MirrorOf(m))]
        BY <1>2, <2>1 DEF Mirrored
    <2>3. s.ds \in Seq(Stored)
        BY DEF Sound
    <2> HIDE DEF m
    <2>4. Sound(Mirrored(s, "card", value)) /\ Mirrored(s, "card", value).m = m
        BY <2>0, <2>2, <2>3, WrittenSound
    <2> QED BY <2>4 DEF m
<1> QED BY <1>1, <1>2

LEMMA MirrorsQueued ==
    ASSUME NEW s, Sound(s), NEW value \in SUBSET Calls
    PROVE  /\ Sound(Mirrored(s, "queued", value))
           /\ Mirrored(s, "queued", value).m = [s.m EXCEPT !.queued = value]
<1> DEFINE m == [s.m EXCEPT !.queued = value]
<1>1. CASE s.m.queued = value
    BY <1>1 DEF Mirrored, Sound, Machine
<1>2. CASE s.m.queued # value
    <2>0. m \in Machine /\ LastOf(s.ds) = MirrorOf(s.m) /\ s.m \in Machine
        BY DEF Sound, Machine
    <2>1. [LastOf(s.ds) EXCEPT !.queued = value] = MirrorOf(m)
        BY <2>0 DEF Machine, MirrorOf
    <2>2. Mirrored(s, "queued", value) = [m |-> m, ds |-> Append(s.ds, MirrorOf(m))]
        BY <1>2, <2>1 DEF Mirrored
    <2>3. s.ds \in Seq(Stored)
        BY DEF Sound
    <2> HIDE DEF m
    <2>4. Sound(Mirrored(s, "queued", value)) /\ Mirrored(s, "queued", value).m = m
        BY <2>0, <2>2, <2>3, WrittenSound
    <2> QED BY <2>4 DEF m
<1> QED BY <1>1, <1>2

LEMMA MirrorsWithdrawn ==
    ASSUME NEW s, Sound(s), NEW value \in BOOLEAN
    PROVE  /\ Sound(Mirrored(s, "withdrawn", value))
           /\ Mirrored(s, "withdrawn", value).m = [s.m EXCEPT !.withdrawn = value]
<1> DEFINE m == [s.m EXCEPT !.withdrawn = value]
<1>1. CASE s.m.withdrawn = value
    BY <1>1 DEF Mirrored, Sound, Machine
<1>2. CASE s.m.withdrawn # value
    <2>0. m \in Machine /\ LastOf(s.ds) = MirrorOf(s.m) /\ s.m \in Machine
        BY DEF Sound, Machine
    <2>1. [LastOf(s.ds) EXCEPT !.withdrawn = value] = MirrorOf(m)
        BY <2>0 DEF Machine, MirrorOf
    <2>2. Mirrored(s, "withdrawn", value) = [m |-> m, ds |-> Append(s.ds, MirrorOf(m))]
        BY <1>2, <2>1 DEF Mirrored
    <2>3. s.ds \in Seq(Stored)
        BY DEF Sound
    <2> HIDE DEF m
    <2>4. Sound(Mirrored(s, "withdrawn", value)) /\ Mirrored(s, "withdrawn", value).m = m
        BY <2>0, <2>2, <2>3, WrittenSound
    <2> QED BY <2>4 DEF m
<1> QED BY <1>1, <1>2

\* What is not mirrored may change freely.
LEMMA UnmirroredSound ==
    ASSUME NEW s, Sound(s), NEW m \in Machine, MirrorOf(m) = MirrorOf(s.m)
    PROVE  Sound([s EXCEPT !.m = m]) /\ [s EXCEPT !.m = m].m = m
BY DEF Sound

-----------------------------------------------------------------------------
(***************************************************************************)
(* The operations of the machine: each but two keeps what is asked.        *)
(***************************************************************************)
Keeps(s, t) ==
    /\ Sound(t) /\ Shown(t.m)
    /\ t.m.live = s.m.live
    /\ s.m.withdrawn => t.m.withdrawn
    /\ Held(s.m) \subseteq Held(t.m) \/ t.m.withdrawn

\* Only the card and the queue behind it move when the next is published.
LEMMA NextCardIs ==
    ASSUME NEW s, Sound(s)
    PROVE  /\ Sound(NextCard(s))
           /\ IF s.m.card = {} /\ s.m.queued # {}
              THEN NextCard(s).m = [s.m EXCEPT !.queued = {}, !.card = s.m.queued]
              ELSE NextCard(s).m = s.m
<1>1. CASE s.m.card = {} /\ s.m.queued # {}
    <2> DEFINE q == Mirrored(s, "queued", {})
    <2>0. {} \in SUBSET Calls
        OBVIOUS
    <2>1. Sound(q) /\ q.m = [s.m EXCEPT !.queued = {}]
        BY <2>0, MirrorsQueued
    <2>4. s.m.queued \in SUBSET Calls
        BY DEF Sound, Machine
    <2> HIDE DEF q
    <2>2. Sound(Mirrored(q, "card", s.m.queued))
          /\ Mirrored(q, "card", s.m.queued).m = [q.m EXCEPT !.card = s.m.queued]
        BY <2>1, <2>4, MirrorsCard
    <2>3. NextCard(s) = Mirrored(q, "card", s.m.queued)
        BY <1>1 DEF NextCard, q
    <2> QED BY <1>1, <2>1, <2>2, <2>3
<1>2. CASE ~(s.m.card = {} /\ s.m.queued # {})
    BY <1>2 DEF NextCard
<1> QED BY <1>1, <1>2

LEMMA ShowIs ==
    ASSUME NEW s, Sound(s)
    PROVE  /\ Sound(Show(s))
           /\ Show(s).m = IF s.m.card = {} THEN s.m
                          ELSE [s.m EXCEPT !.active = "approval", !.shown = s.m.card]
<1>1. CASE s.m.card = {}
    BY <1>1 DEF Show
<1>2. CASE s.m.card # {}
    <2> DEFINE m == [s.m EXCEPT !.active = "approval", !.shown = s.m.card]
    <2>1. m \in Machine /\ MirrorOf(m) = MirrorOf(s.m)
        BY DEF Sound, Machine, MirrorOf
    <2>2. Show(s) = [s EXCEPT !.m = m]
        BY <1>2 DEF Show, Sound, Machine
    <2>3. Sound([s EXCEPT !.m = m]) /\ [s EXCEPT !.m = m].m = m
        BY <2>1, UnmirroredSound
    <2> QED BY <1>2, <2>2, <2>3
<1> QED BY <1>1, <1>2

LEMMA PublishNextKeeps ==
    ASSUME NEW s, Sound(s), Screened(s.m)
    PROVE  Keeps(s, PublishNext(s))
<1>1. CASE s.m.active # "none"
    BY <1>1 DEF PublishNext, Shown, Keeps
<1>2. CASE s.m.active = "none" /\ s.m.choice
    <2> DEFINE m == [s.m EXCEPT !.active = "choice"]
    <2>1. m \in Machine /\ MirrorOf(m) = MirrorOf(s.m)
        BY DEF Sound, Machine, MirrorOf
    <2>2. PublishNext(s) = [s EXCEPT !.m = m]
        BY <1>2 DEF PublishNext, Sound, Machine
    <2>3. Sound([s EXCEPT !.m = m]) /\ [s EXCEPT !.m = m].m = m
        BY <2>1, UnmirroredSound
    <2>4. m.choice /\ m.active = "choice" /\ m.live = s.m.live
          /\ m.withdrawn = s.m.withdrawn /\ Held(m) = Held(s.m)
        BY <1>2 DEF Sound, Machine, Held, StagedCalls
    <2> HIDE DEF m
    <2> QED BY <2>2, <2>3, <2>4 DEF Shown, Screened, Keeps
<1>3. CASE s.m.active = "none" /\ ~s.m.choice
    <2> DEFINE n == NextCard(s)
    <2>1. Sound(n) /\ PublishNext(s) = Show(n)
        BY <1>3, NextCardIs DEF PublishNext
    <2>2. /\ n.m.choice = s.m.choice /\ n.m.active = "none" /\ n.m.live = s.m.live
          /\ n.m.withdrawn = s.m.withdrawn /\ Held(n.m) = Held(s.m)
          /\ n.m.card = {} => n.m.queued = {}
        <3>1. CASE s.m.card = {} /\ s.m.queued # {}
            <4>1. n.m = [s.m EXCEPT !.queued = {}, !.card = s.m.queued]
                BY <3>1, NextCardIs
            <4> HIDE DEF n
            <4> QED BY <1>3, <3>1, <4>1 DEF Sound, Machine, Held, StagedCalls
        <3>2. CASE ~(s.m.card = {} /\ s.m.queued # {})
            <4>1. n.m = s.m
                BY <3>2, NextCardIs
            <4> HIDE DEF n
            <4> QED BY <1>3, <3>2, <4>1
        <3> QED BY <3>1, <3>2
    <2> HIDE DEF n
    <2>3. Sound(Show(n)) /\ Show(n).m = IF n.m.card = {} THEN n.m
                          ELSE [n.m EXCEPT !.active = "approval", !.shown = n.m.card]
        BY <2>1, ShowIs
    <2>4. n.m \in Machine
        BY <2>1 DEF Sound
    <2>5. CASE n.m.card = {}
        BY <1>3, <2>1, <2>2, <2>3, <2>5 DEF Shown, Screened, Keeps
    <2>6. CASE n.m.card # {}
        <3>1. /\ Show(n).m.active = "approval" /\ Show(n).m.card # {}
              /\ Show(n).m.shown = Show(n).m.card /\ Show(n).m.live = s.m.live
              /\ Show(n).m.withdrawn = s.m.withdrawn /\ Held(Show(n).m) = Held(s.m)
            BY <2>2, <2>3, <2>4, <2>6 DEF Machine, Held, StagedCalls
        <3> QED BY <2>1, <2>3, <3>1 DEF Shown, Screened, Keeps
    <2> QED BY <2>5, <2>6
<1> QED BY <1>1, <1>2, <1>3, Zenon

LEMMA PresentChoiceKeeps ==
    ASSUME NEW s, Sound(s), Shown(s.m)
    PROVE  Keeps(s, PresentChoiceTo(s))
<1>1. CASE s.m.choice
    BY <1>1 DEF PresentChoiceTo, Keeps
<1>2. CASE ~s.m.choice
    <2> DEFINE c == Mirrored(s, "choice", TRUE)
    <2>1. Sound(c) /\ c.m = [s.m EXCEPT !.choice = TRUE]
        BY MirrorsChoice
    <2>2. PresentChoiceTo(s) = PublishNext(c)
        BY <1>2 DEF PresentChoiceTo
    <2> HIDE DEF c
    <2>3. /\ Screened(c.m) /\ Held(c.m) = Held(s.m)
          /\ c.m.live = s.m.live /\ c.m.withdrawn = s.m.withdrawn
        BY <2>1 DEF Sound, Machine, Shown, Screened, Held, StagedCalls
    <2>4. Keeps(c, PublishNext(c))
        BY <2>1, <2>3, PublishNextKeeps
    <2> QED BY <2>2, <2>3, <2>4 DEF Keeps
<1> QED BY <1>1, <1>2

\* The call refused is held, or the model is owed word of it.
LEMMA DeferApprovalKeeps ==
    ASSUME NEW s, Sound(s), Shown(s.m), NEW call \in Calls, NEW turn \in Nat
    PROVE  /\ Keeps(s, DeferApproval(s, call, turn))
           /\ \/ call \in Held(DeferApproval(s, call, turn).m)
              \/ DeferApproval(s, call, turn).m.withdrawn
<1> DEFINE t == DeferApproval(s, call, turn)
<1>1. CASE turn <= s.m.ignore
    <2>1. Sound(t) /\ t.m = [s.m EXCEPT !.withdrawn = TRUE]
        BY <1>1, MirrorsWithdrawn DEF DeferApproval
    <2> HIDE DEF t
    <2>2. t.m.withdrawn /\ Shown(t.m) /\ t.m.live = s.m.live
        BY <2>1 DEF Sound, Machine, Shown, Screened
    <2> QED BY <2>1, <2>2 DEF Keeps, t
<1>2. CASE ~(turn <= s.m.ignore) /\ call \in Held(s.m)
    BY <1>2 DEF DeferApproval, Keeps
<1>3. CASE ~(turn <= s.m.ignore) /\ call \notin Held(s.m)
    <2> DEFINE x == [call |-> call, turn |-> turn]
               m == [s.m EXCEPT !.staged = @ \cup {x}]
    <2>1. m \in Machine /\ MirrorOf(m) = MirrorOf(s.m)
        BY DEF Sound, Machine, MirrorOf
    <2>2. t = [s EXCEPT !.m = m]
        BY <1>3 DEF DeferApproval, Sound, Machine
    <2>3. Sound([s EXCEPT !.m = m]) /\ [s EXCEPT !.m = m].m = m
        BY <2>1, UnmirroredSound
    <2>4. /\ m.choice = s.m.choice /\ m.card = s.m.card /\ m.queued = s.m.queued
          /\ m.active = s.m.active /\ m.shown = s.m.shown /\ m.live = s.m.live
          /\ m.withdrawn = s.m.withdrawn /\ m.staged = s.m.staged \cup {x}
        BY DEF Sound, Machine
    <2>5. x \in m.staged /\ x.call = call
        BY <2>4
    <2> HIDE DEF m, x, t
    <2>6. Shown(m)
        BY <2>4 DEF Shown, Screened
    <2>7. Held(s.m) \subseteq Held(m) /\ call \in Held(m)
        BY <2>4, <2>5 DEF Held, StagedCalls
    <2> QED BY <2>2, <2>3, <2>4, <2>6, <2>7 DEF Keeps, t
<1> QED BY <1>1, <1>2, <1>3

\* A turn's refusals leave the stage.
LEMMA UnstagedIs ==
    ASSUME NEW s, Sound(s), NEW turn
    PROVE  LET left == [s EXCEPT !.m.staged = @ \ OfTurn(s.m, turn)]
           IN  Sound(left) /\ left.m = [s.m EXCEPT !.staged = @ \ OfTurn(s.m, turn)]
<1> DEFINE m == [s.m EXCEPT !.staged = @ \ OfTurn(s.m, turn)]
<1>1. m \in Machine /\ MirrorOf(m) = MirrorOf(s.m)
    BY DEF Sound, Machine, MirrorOf
<1>2. [s EXCEPT !.m.staged = @ \ OfTurn(s.m, turn)] = [s EXCEPT !.m = m]
    BY DEF Sound, Machine
<1>3. Sound([s EXCEPT !.m = m]) /\ [s EXCEPT !.m = m].m = m
    BY <1>1, UnmirroredSound
<1> QED BY <1>2, <1>3

LEMMA FlushDeferredKeeps ==
    ASSUME NEW s, Sound(s), Shown(s.m), NEW turn
    PROVE  Keeps(s, FlushDeferred(s, turn))
<1> DEFINE mine == {x.call : x \in OfTurn(s.m, turn)}
           left == [s EXCEPT !.m.staged = @ \ OfTurn(s.m, turn)]
<1>1. CASE mine = {}
    BY <1>1 DEF FlushDeferred, Keeps
<1>2. CASE mine # {}
    <2>1. Sound(left) /\ left.m = [s.m EXCEPT !.staged = @ \ OfTurn(s.m, turn)]
        BY UnstagedIs
    <2>2. /\ left.m.choice = s.m.choice /\ left.m.card = s.m.card
          /\ left.m.queued = s.m.queued /\ left.m.active = s.m.active
          /\ left.m.shown = s.m.shown /\ left.m.live = s.m.live
          /\ left.m.withdrawn = s.m.withdrawn
          /\ left.m.staged = s.m.staged \ OfTurn(s.m, turn)
        BY <2>1 DEF Sound, Machine
    <2>3. Held(s.m) \subseteq Held(left.m) \cup mine
        BY <2>2 DEF Held, StagedCalls
    <2>4. mine \in SUBSET Calls
        BY DEF OfTurn, Sound, Machine
    <2>5. s.m.card \in SUBSET Calls /\ s.m.queued \in SUBSET Calls
        BY DEF Sound, Machine
    <2>6. CASE s.m.card # {} /\ s.m.active = "approval"
        <3> DEFINE t == Mirrored(left, "queued", s.m.queued \cup mine)
        <3>1. FlushDeferred(s, turn) = t
            BY <1>2, <2>6 DEF FlushDeferred
        <3> HIDE DEF left, mine
        <3>2. Sound(t) /\ t.m = [left.m EXCEPT !.queued = s.m.queued \cup mine]
            BY <2>1, <2>4, <2>5, MirrorsQueued
        <3> HIDE DEF t
        <3>3. /\ t.m.choice = s.m.choice /\ t.m.card = s.m.card
              /\ t.m.active = s.m.active /\ t.m.shown = s.m.shown
              /\ t.m.live = s.m.live /\ t.m.withdrawn = s.m.withdrawn
              /\ t.m.queued = s.m.queued \cup mine /\ t.m.staged = left.m.staged
            BY <2>1, <2>2, <3>2 DEF Sound, Machine
        <3>4. Held(s.m) \subseteq Held(t.m)
            BY <2>2, <2>3, <3>3 DEF Held, StagedCalls
        <3> QED BY <2>6, <3>1, <3>2, <3>3, <3>4 DEF Keeps, Shown, Screened
    <2>7. CASE ~(s.m.card # {} /\ s.m.active = "approval")
        <3> DEFINE t == Mirrored(left, "card", s.m.card \cup mine)
        <3>1. FlushDeferred(s, turn) = PublishNext(t)
            BY <1>2, <2>7 DEF FlushDeferred
        <3> HIDE DEF left, mine
        <3>2. Sound(t) /\ t.m = [left.m EXCEPT !.card = s.m.card \cup mine]
            BY <2>1, <2>4, <2>5, MirrorsCard
        <3> HIDE DEF t
        <3>3. /\ t.m.choice = s.m.choice /\ t.m.queued = s.m.queued
              /\ t.m.active = s.m.active /\ t.m.shown = s.m.shown
              /\ t.m.live = s.m.live /\ t.m.withdrawn = s.m.withdrawn
              /\ t.m.card = s.m.card \cup mine /\ t.m.staged = left.m.staged
            BY <2>1, <2>2, <3>2 DEF Sound, Machine
        <3>4. Held(s.m) \subseteq Held(t.m)
            BY <2>2, <2>3, <3>3 DEF Held, StagedCalls
        <3>5. Screened(t.m)
            BY <2>7, <3>3 DEF Shown, Screened
        <3>6. Keeps(t, PublishNext(t))
            BY <3>2, <3>5, PublishNextKeeps
        <3> QED BY <3>1, <3>3, <3>4, <3>6 DEF Keeps
    <2> QED BY <2>6, <2>7
<1> QED BY <1>1, <1>2

LEMMA DropStagedKeeps ==
    ASSUME NEW s, Sound(s), Shown(s.m), NEW turn
    PROVE  Keeps(s, DropStaged(s, turn))
<1> DEFINE left == [s EXCEPT !.m.staged = @ \ OfTurn(s.m, turn)]
           t == Mirrored(left, "withdrawn", TRUE)
<1>1. CASE OfTurn(s.m, turn) = {}
    BY <1>1 DEF DropStaged, Keeps
<1>2. CASE OfTurn(s.m, turn) # {}
    <2>1. Sound(left) /\ left.m = [s.m EXCEPT !.staged = @ \ OfTurn(s.m, turn)]
        BY UnstagedIs
    <2>2. DropStaged(s, turn) = t
        BY <1>2 DEF DropStaged
    <2> HIDE DEF left
    <2>3. Sound(t) /\ t.m = [left.m EXCEPT !.withdrawn = TRUE]
        BY <2>1, MirrorsWithdrawn
    <2> HIDE DEF t
    <2>4. /\ t.m.choice = s.m.choice /\ t.m.card = s.m.card
          /\ t.m.queued = s.m.queued /\ t.m.active = s.m.active
          /\ t.m.shown = s.m.shown /\ t.m.live = s.m.live /\ t.m.withdrawn
        BY <2>1, <2>3 DEF Sound, Machine
    <2> QED BY <2>2, <2>3, <2>4 DEF Keeps, Shown, Screened
<1> QED BY <1>1, <1>2

\* The person moves on: nothing is asked any more.
LEMMA DiscardStaleIs ==
    ASSUME NEW s, Sound(s), NEW turn \in Nat
    PROVE  LET t == DiscardStale(s, turn)
           IN  Sound(t) /\ Shown(t.m) /\ t.m.live = s.m.live
<1> DEFINE m == [s.m EXCEPT !.staged = {}, !.ignore = MaxOf(s.m.ignore, turn)]
           a == [s EXCEPT !.m = m]
           b == Mirrored(a, "queued", {})
           c == Mirrored(b, "choice", FALSE)
           d == Mirrored(c, "card", {})
           e == [d.m EXCEPT !.active = "none", !.shown = {}]
           t == DiscardStale(s, turn)
<1>0. {} \in SUBSET Calls
    OBVIOUS
<1>1. m \in Machine /\ MirrorOf(m) = MirrorOf(s.m) /\ m.live = s.m.live
    BY DEF Sound, Machine, MirrorOf, MaxOf
<1>2. a = [s EXCEPT !.m.staged = {}, !.m.ignore = MaxOf(@, turn)]
    BY DEF Sound, Machine
<1>3. t = [d EXCEPT !.m.active = "none", !.m.shown = {}]
    BY <1>2 DEF DiscardStale
<1> HIDE DEF m, t
<1>4. Sound(a) /\ a.m = m
    BY <1>1, UnmirroredSound
<1> HIDE DEF a
<1>5. Sound(b) /\ b.m = [a.m EXCEPT !.queued = {}]
    BY <1>0, <1>4, MirrorsQueued
<1> HIDE DEF b
<1>6. Sound(c) /\ c.m = [b.m EXCEPT !.choice = FALSE]
    BY <1>5, MirrorsChoice
<1> HIDE DEF c
<1>7. Sound(d) /\ d.m = [c.m EXCEPT !.card = {}]
    BY <1>0, <1>6, MirrorsCard
<1> HIDE DEF d
<1>8. ~d.m.choice /\ d.m.card = {} /\ d.m.queued = {} /\ d.m.live = s.m.live
    BY <1>1, <1>4, <1>5, <1>6, <1>7 DEF Sound, Machine
<1>9. e \in Machine /\ MirrorOf(e) = MirrorOf(d.m) /\ t = [d EXCEPT !.m = e]
    BY <1>3, <1>7 DEF Sound, Machine, MirrorOf
<1>10. /\ e.active = "none" /\ ~e.choice /\ e.card = {} /\ e.queued = {}
       /\ e.live = s.m.live
    BY <1>7, <1>8 DEF Sound, Machine
<1> HIDE DEF e
<1>11. Sound([d EXCEPT !.m = e]) /\ [d EXCEPT !.m = e].m = e
    BY <1>7, <1>9, UnmirroredSound
<1>12. Sound(t) /\ t.m = e
    BY <1>9, <1>11
<1>13. Sound(t) /\ Shown(t.m) /\ t.m.live = s.m.live
    BY <1>10, <1>12 DEF Shown, Screened
<1> QED BY <1>13 DEF t

\* Word of what was withdrawn is taken along.
LEMMA TakeWithdrawnIs ==
    ASSUME NEW s, Sound(s), Shown(s.m)
    PROVE  LET t == TakeWithdrawn(s)
           IN  Sound(t) /\ Shown(t.m) /\ t.m.live = s.m.live
<1> DEFINE t == TakeWithdrawn(s)
<1>1. Sound(t) /\ t.m = [s.m EXCEPT !.withdrawn = FALSE]
    BY MirrorsWithdrawn DEF TakeWithdrawn
<1> HIDE DEF t
<1>2. Shown(t.m) /\ t.m.live = s.m.live
    BY <1>1 DEF Sound, Machine, Shown, Screened
<1> QED BY <1>1, <1>2 DEF t

\* A question is answered: the calls waiting come next.
LEMMA ChoiceAnsweredKeeps ==
    ASSUME NEW s, Sound(s), Shown(s.m)
    PROVE  Keeps(s, ChoiceAnswered(s))
<1> DEFINE c == Mirrored(s, "choice", FALSE)
           m == [c.m EXCEPT !.active = "none"]
           n == [c EXCEPT !.m = m]
<1>1. Sound(c) /\ c.m = [s.m EXCEPT !.choice = FALSE]
    BY MirrorsChoice
<1> HIDE DEF c
<1>2. m \in Machine /\ MirrorOf(m) = MirrorOf(c.m) /\ n = [c EXCEPT !.m.active = "none"]
    BY <1>1 DEF Sound, Machine, MirrorOf
<1>3. ChoiceAnswered(s) = PublishNext(n)
    BY <1>2 DEF ChoiceAnswered, c
<1>4. /\ m.active = "none" /\ m.live = s.m.live /\ m.withdrawn = s.m.withdrawn
      /\ m.card = s.m.card /\ m.queued = s.m.queued /\ m.staged = s.m.staged
    BY <1>1 DEF Sound, Machine
<1> HIDE DEF m
<1>5. Sound(n) /\ n.m = m
    BY <1>1, <1>2, UnmirroredSound
<1> HIDE DEF n
<1>6. Screened(n.m) /\ Held(n.m) = Held(s.m)
    BY <1>4, <1>5 DEF Screened, Held, StagedCalls
<1>7. Keeps(n, PublishNext(n))
    BY <1>5, <1>6, PublishNextKeeps
<1> QED BY <1>3, <1>4, <1>5, <1>6, <1>7 DEF Keeps

\* A card is decided on: all but its calls is still held.
LEMMA CardAnsweredIs ==
    ASSUME NEW s, Sound(s), Shown(s.m)
    PROVE  LET t == CardAnswered(s)
           IN  /\ Sound(t) /\ Shown(t.m) /\ t.m.live = s.m.live
               /\ s.m.withdrawn => t.m.withdrawn
               /\ Held(s.m) \subseteq Held(t.m) \cup s.m.card \/ t.m.withdrawn
<1> DEFINE c == Mirrored(s, "card", {})
           m == [c.m EXCEPT !.active = "none", !.shown = {}]
           n == [c EXCEPT !.m = m]
           t == CardAnswered(s)
<1>0. {} \in SUBSET Calls
    OBVIOUS
<1>1. Sound(c) /\ c.m = [s.m EXCEPT !.card = {}]
    BY <1>0, MirrorsCard
<1> HIDE DEF c
<1>2. /\ m \in Machine /\ MirrorOf(m) = MirrorOf(c.m)
      /\ n = [c EXCEPT !.m.active = "none", !.m.shown = {}]
    BY <1>1 DEF Sound, Machine, MirrorOf
<1>3. t = PublishNext(n)
    BY <1>2 DEF CardAnswered, c
<1>4. /\ m.active = "none" /\ m.live = s.m.live /\ m.withdrawn = s.m.withdrawn
      /\ m.queued = s.m.queued /\ m.staged = s.m.staged
    BY <1>1 DEF Sound, Machine
<1> HIDE DEF m, t
<1>5. Sound(n) /\ n.m = m
    BY <1>1, <1>2, UnmirroredSound
<1> HIDE DEF n
<1>6. Screened(n.m) /\ Held(s.m) \subseteq Held(n.m) \cup s.m.card
    BY <1>4, <1>5 DEF Screened, Held, StagedCalls
<1>7. Keeps(n, t)
    BY <1>3, <1>5, <1>6, PublishNextKeeps
<1>8. /\ Sound(t) /\ Shown(t.m) /\ t.m.live = s.m.live
      /\ s.m.withdrawn => t.m.withdrawn
    BY <1>4, <1>5, <1>7 DEF Keeps
<1>9. Held(s.m) \subseteq Held(t.m) \cup s.m.card \/ t.m.withdrawn
    BY <1>6, <1>7 DEF Keeps
<1> QED BY <1>8, <1>9 DEF t

\* A relay that starts shows what the record says was asked.
LEMMA RehydratedIs ==
    ASSUME NEW d \in Stored
    PROVE  LET t == Rehydrated(d)
           IN  Sound(t) /\ Shown(t.m) /\ ~t.m.live
<1> DEFINE m == [NothingAsked EXCEPT !.choice = d.choice, !.card = d.card,
                                     !.queued = d.queued, !.withdrawn = d.withdrawn]
           f == From(m, d)
           c == Mirrored(f, "card", d.queued)
           q == Mirrored(c, "queued", {})
           s == IF d.card = {} /\ d.queued # {} THEN q ELSE f
           t == Rehydrated(d)
<1>0. {} \in SUBSET Calls /\ d.queued \in SUBSET Calls
    BY DEF Stored
<1>1. /\ m \in Machine /\ MirrorOf(m) = d
      /\ m.choice = d.choice /\ m.card = d.card /\ m.queued = d.queued
      /\ m.active = "none" /\ ~m.live
    BY DEF NothingAsked, Machine, MirrorOf, Stored
<1>2. t = IF d.choice THEN [s EXCEPT !.m.active = "choice"] ELSE Show(s)
    BY DEF Rehydrated
<1> HIDE DEF m, t
<1>3. Sound(f) /\ f.m = m
    BY <1>1 DEF Sound, From, LastOf
<1> HIDE DEF f
<1>4. Sound(c) /\ c.m = [f.m EXCEPT !.card = d.queued]
    BY <1>0, <1>3, MirrorsCard
<1> HIDE DEF c
<1>5. Sound(q) /\ q.m = [c.m EXCEPT !.queued = {}]
    BY <1>0, <1>4, MirrorsQueued
<1> HIDE DEF q
<1>6. /\ Sound(s) /\ s.m.choice = d.choice /\ s.m.active = "none" /\ ~s.m.live
      /\ s.m.card = {} => s.m.queued = {}
    <2>1. CASE d.card = {} /\ d.queued # {}
        <3>1. s = q
            BY <2>1
        <3> HIDE DEF s
        <3>2. q.m.card = d.queued /\ q.m.choice = d.choice /\ q.m.active = "none" /\ ~q.m.live
            BY <1>1, <1>3, <1>4, <1>5 DEF Sound, Machine
        <3> QED BY <1>5, <2>1, <3>1, <3>2
    <2>2. CASE ~(d.card = {} /\ d.queued # {})
        <3>1. s = f
            BY <2>2
        <3> HIDE DEF s
        <3> QED BY <1>1, <1>3, <2>2, <3>1
    <2> QED BY <2>1, <2>2
<1> HIDE DEF s
<1>7. CASE d.choice
    <2> DEFINE n == [s.m EXCEPT !.active = "choice"]
    <2>1. n \in Machine /\ MirrorOf(n) = MirrorOf(s.m) /\ t = [s EXCEPT !.m = n]
        BY <1>2, <1>6, <1>7 DEF Sound, Machine, MirrorOf
    <2>2. n.active = "choice" /\ n.choice /\ ~n.live
        BY <1>6, <1>7 DEF Sound, Machine
    <2> HIDE DEF n
    <2>3. Sound([s EXCEPT !.m = n]) /\ [s EXCEPT !.m = n].m = n
        BY <1>6, <2>1, UnmirroredSound
    <2>4. Sound(t) /\ t.m = n
        BY <2>1, <2>3
    <2> QED BY <2>2, <2>4 DEF Shown, Screened, t
<1>8. CASE ~d.choice
    <2>1. Sound(Show(s)) /\ Show(s).m = IF s.m.card = {} THEN s.m
                          ELSE [s.m EXCEPT !.active = "approval", !.shown = s.m.card]
        BY <1>6, ShowIs
    <2>2. t = Show(s)
        BY <1>2, <1>8
    <2>3. CASE s.m.card = {}
        BY <1>6, <1>8, <2>1, <2>2, <2>3 DEF Shown, Screened, t
    <2>4. CASE s.m.card # {}
        <3>1. /\ t.m.active = "approval" /\ t.m.card # {} /\ t.m.shown = t.m.card
              /\ ~t.m.live
            BY <1>6, <2>1, <2>2, <2>4 DEF Sound, Machine
        <3> QED BY <2>1, <2>2, <3>1 DEF Shown, Screened, t
    <2> QED BY <2>3, <2>4
<1> QED BY <1>7, <1>8 DEF Stored

LEMMA DropRehydratedIs ==
    ASSUME NEW s, Sound(s), ~s.m.live
    PROVE  LET t == DropRehydrated(s)
           IN  Sound(t) /\ Shown(t.m) /\ ~t.m.live
<1> DEFINE a == Mirrored(s, "choice", FALSE)
           b == Mirrored(a, "card", {})
           c == Mirrored(b, "queued", {})
           d == Mirrored(c, "withdrawn", FALSE)
           e == [d.m EXCEPT !.active = "none", !.shown = {}]
           t == DropRehydrated(s)
<1>0. {} \in SUBSET Calls
    OBVIOUS
<1>1. t = [d EXCEPT !.m.active = "none", !.m.shown = {}]
    BY DEF DropRehydrated
<1> HIDE DEF t
<1>2. Sound(a) /\ a.m = [s.m EXCEPT !.choice = FALSE]
    BY MirrorsChoice
<1> HIDE DEF a
<1>3. Sound(b) /\ b.m = [a.m EXCEPT !.card = {}]
    BY <1>0, <1>2, MirrorsCard
<1> HIDE DEF b
<1>4. Sound(c) /\ c.m = [b.m EXCEPT !.queued = {}]
    BY <1>0, <1>3, MirrorsQueued
<1> HIDE DEF c
<1>5. Sound(d) /\ d.m = [c.m EXCEPT !.withdrawn = FALSE]
    BY <1>4, MirrorsWithdrawn
<1> HIDE DEF d
<1>6. ~d.m.choice /\ d.m.card = {} /\ d.m.queued = {} /\ d.m.live = s.m.live
    BY <1>2, <1>3, <1>4, <1>5 DEF Sound, Machine
<1>7. e \in Machine /\ MirrorOf(e) = MirrorOf(d.m) /\ t = [d EXCEPT !.m = e]
    BY <1>1, <1>5 DEF Sound, Machine, MirrorOf
<1>8. /\ e.active = "none" /\ ~e.choice /\ e.card = {} /\ e.queued = {} /\ ~e.live
    BY <1>5, <1>6 DEF Sound, Machine
<1> HIDE DEF e
<1>9. Sound([d EXCEPT !.m = e]) /\ [d EXCEPT !.m = e].m = e
    BY <1>5, <1>7, UnmirroredSound
<1>10. Sound(t) /\ t.m = e
    BY <1>7, <1>9
<1> QED BY <1>8, <1>10 DEF Shown, Screened, t

\* The call the process is blocked on comes or goes; nothing is mirrored.
LEMMA LiveIs ==
    ASSUME NEW s, Sound(s), Shown(s.m), NEW live \in BOOLEAN
    PROVE  LET t == [s EXCEPT !.m.live = live]
           IN  /\ Sound(t) /\ Shown(t.m) /\ t.m.live = live
               /\ t.m.withdrawn = s.m.withdrawn /\ Held(t.m) = Held(s.m)
<1> DEFINE m == [s.m EXCEPT !.live = live]
           t == [s EXCEPT !.m.live = live]
<1>1. m \in Machine /\ MirrorOf(m) = MirrorOf(s.m) /\ t = [s EXCEPT !.m = m]
    BY DEF Sound, Machine, MirrorOf
<1>2. /\ m.choice = s.m.choice /\ m.card = s.m.card /\ m.queued = s.m.queued
      /\ m.active = s.m.active /\ m.shown = s.m.shown /\ m.live = live
      /\ m.withdrawn = s.m.withdrawn /\ m.staged = s.m.staged
    BY DEF Sound, Machine
<1> HIDE DEF m
<1>3. Sound([s EXCEPT !.m = m]) /\ [s EXCEPT !.m = m].m = m
    BY <1>1, UnmirroredSound
<1> HIDE DEF t
<1>4. Sound(t) /\ t.m = m
    BY <1>1, <1>3
<1>5. Shown(m) /\ Held(m) = Held(s.m)
    BY <1>2 DEF Shown, Screened, Held, StagedCalls
<1> QED BY <1>2, <1>4, <1>5 DEF t

-----------------------------------------------------------------------------
(***************************************************************************)
(* The invariant.                                                          *)
(***************************************************************************)
OnDisk == [asked : Stored, sid : BOOLEAN]

\* What is asked: on screen, and on record.
Asked ==
    /\ cm \in Machine /\ Shown(cm)
    /\ disk \in OnDisk /\ trail \subseteq OnDisk
    /\ DiskTellsAll

\* The types of the rest.
RestOK ==
    /\ hosted \in BOOLEAN
    /\ queue \in Seq(Item)
    /\ run \in [turn : BOOLEAN, kind : Kinds, grants : SUBSET Calls, stop : BOOLEAN]
    /\ turnSeq \in Nat /\ born \in Nat /\ inputs \in Nat /\ crashes \in Nat
    /\ hist \in Seq([turn : Nat, lined : BOOLEAN]) /\ conv \in Seq(Nat)
    /\ sid \in BOOLEAN /\ loaded \in BOOLEAN /\ cleared \in BOOLEAN
    /\ hostTurn \in BOOLEAN /\ rejected \in BOOLEAN
    /\ told \in SUBSET Calls

\* A clear leaves the queue without telling the model anything: it must
\* carry nothing.
Silent(item) == item.kind = "clear" => ~item.note /\ item.about = {}

ClearsAreSilent == \A i \in DOMAIN queue : Silent(queue[i])

BlockedInTurn == cm.live => run.turn

IInv == RestOK /\ Asked /\ BlockedInTurn /\ ClearsAreSilent /\ NoCallForgotten

-----------------------------------------------------------------------------
(***************************************************************************)
(* Moves.                                                                  *)
(***************************************************************************)
LEMMA HereIs ==
    ASSUME Asked
    PROVE  Sound(Here) /\ Here.m = cm
BY DEF Asked, Sound, Here, From, OnDisk, LastOf, MirrorOf, DiskTellsAll

LEMMA MovesAsked ==
    ASSUME NEW step, Sound(step), Shown(step.m), NEW s \in BOOLEAN, Moves(step, s)
    PROVE  Asked' /\ cm' = step.m
<1>1. cm' = step.m /\ cm' \in Machine /\ Shown(cm')
    BY DEF Moves, Sound
<1>2. LastOf(step.ds) = MirrorOf(cm') /\ MirrorOf(cm') \in Stored
    BY <1>1 DEF Sound, MirrorOf, Stored, Machine
<1>3. \A i \in DOMAIN step.ds : step.ds[i] \in Stored
    BY DEF Sound
<1>4. disk' = [asked |-> MirrorOf(cm'), sid |-> s]
      /\ trail' = {[asked |-> step.ds[i], sid |-> s] : i \in DOMAIN step.ds}
    BY <1>2 DEF Moves, Record
<1>5. disk' \in OnDisk /\ trail' \subseteq OnDisk
    BY <1>2, <1>3, <1>4 DEF OnDisk
<1>6. disk'.asked = MirrorOf(cm')
    BY <1>4
<1>7. DiskTellsAll'
    BY <1>6 DEF DiskTellsAll, MirrorOf
<1>8. Shown(cm)'
    BY <1>1 DEF Shown, Screened
<1> QED BY <1>1, <1>5, <1>7, <1>8 DEF Asked

\* What was held still is, or the model is owed word of it.
Kept ==
    /\ cm'.live = cm.live
    /\ cm.withdrawn => cm'.withdrawn
    /\ Held(cm) \subseteq Held(cm') \/ cm'.withdrawn

LEMMA KeepsAsked ==
    ASSUME Asked, NEW step, Keeps(Here, step), NEW s \in BOOLEAN, Moves(step, s)
    PROVE  Asked' /\ Kept /\ cm' = step.m
<1>1. Sound(step) /\ Shown(step.m)
    BY DEF Keeps
<1>2. Asked' /\ cm' = step.m
    BY <1>1, MovesAsked
<1>3. Here.m = cm
    BY HereIs
<1> QED BY <1>2, <1>3 DEF Keeps, Kept

LEMMA QuietAsked ==
    ASSUME Asked, Quiet
    PROVE  Asked' /\ cm' = cm
<1>1. Sound(Here) /\ Shown(Here.m) /\ Here.m = cm
    BY HereIs DEF Asked
<1>2. disk.sid \in BOOLEAN
    BY DEF Asked, OnDisk
<1>3. Moves(Here, disk.sid)
    BY DEF Quiet
<1> HIDE DEF Here
<1> QED BY <1>1, <1>2, <1>3, MovesAsked

LEMMA MovesOnAsked ==
    ASSUME Asked, turnSeq \in Nat, MovesOn
    PROVE  Asked' /\ cm'.live = cm.live
<1> DEFINE d == DiscardStale(Here, turnSeq)
           t == TakeWithdrawn(d)
<1>1. Sound(Here) /\ Here.m = cm
    BY HereIs
<1>2. Sound(d) /\ Shown(d.m) /\ d.m.live = cm.live
    BY <1>1, DiscardStaleIs
<1>3. disk.sid \in BOOLEAN
    BY DEF Asked, OnDisk
<1>4. Moves(t, disk.sid)
    BY DEF MovesOn
<1> HIDE DEF d
<1>5. Sound(t) /\ Shown(t.m) /\ t.m.live = cm.live
    BY <1>2, TakeWithdrawnIs
<1> HIDE DEF t
<1>6. Asked' /\ cm' = t.m
    BY <1>3, <1>4, <1>5, MovesAsked
<1> QED BY <1>5, <1>6

-----------------------------------------------------------------------------
(***************************************************************************)
(* What waits in the queue.                                                *)
(***************************************************************************)
LEMMA PlainIs ==
    ASSUME NEW kind \in Kinds
    PROVE  /\ Plain(kind) \in Item /\ Plain(kind).kind = kind
           /\ Silent(Plain(kind))
BY DEF Plain, Item, Silent

LEMMA EnqueueIs ==
    ASSUME RestOK, ClearsAreSilent, NEW item \in Item, Silent(item), Enqueue(item)
    PROVE  /\ queue' \in Seq(Item) /\ inputs' \in Nat /\ ClearsAreSilent'
           /\ told' = told => ToldBy(queue) \subseteq ToldBy(queue)'
           /\ told' = told /\ item.note /\ ~item.dropped => told \subseteq ToldBy(queue)'
           /\ told' = told /\ ~item.dropped => told \cap item.about \subseteq ToldBy(queue)'
<1>1. queue \in Seq(Item) /\ inputs \in Nat
    BY DEF RestOK
<1>2. queue' = Append(queue, item) /\ inputs' = inputs + 1
    BY DEF Enqueue, Input
<1>3. /\ queue' \in Seq(Item) /\ Len(queue') = Len(queue) + 1
      /\ \A i \in 1..Len(queue) : queue'[i] = queue[i]
      /\ queue'[Len(queue) + 1] = item
      /\ DOMAIN queue' = 1..(Len(queue) + 1) /\ DOMAIN queue = 1..Len(queue)
      /\ Len(queue) \in Nat
    BY <1>1, <1>2
<1>4. ClearsAreSilent'
    <2> SUFFICES ASSUME NEW i \in 1..(Len(queue) + 1)
                 PROVE  Silent(queue'[i])
        BY <1>3 DEF ClearsAreSilent, Silent
    <2>1. CASE i \in 1..Len(queue)
        BY <1>3, <2>1 DEF ClearsAreSilent
    <2>2. CASE i = Len(queue) + 1
        BY <1>3, <2>2
    <2> QED BY <1>3, <2>1, <2>2
<1>5. ASSUME told' = told
      PROVE  ToldBy(queue) \subseteq ToldBy(queue)'
    BY <1>3, <1>5 DEF ToldBy
<1>6. Len(queue) + 1 \in DOMAIN queue'
    BY <1>3
<1>7. ASSUME told' = told, item.note, ~item.dropped
      PROVE  told \subseteq ToldBy(queue)'
    BY <1>3, <1>6, <1>7 DEF ToldBy
<1>8. ASSUME told' = told, ~item.dropped
      PROVE  told \cap item.about \subseteq ToldBy(queue)'
    BY <1>3, <1>6, <1>8 DEF ToldBy
<1>9. inputs' \in Nat
    BY <1>1, <1>2
<1> QED BY <1>3, <1>4, <1>5, <1>7, <1>8, <1>9

LEMMA TailIs ==
    ASSUME RestOK, ClearsAreSilent, queue # <<>>, queue' = Tail(queue)
    PROVE  /\ queue' \in Seq(Item) /\ ClearsAreSilent'
           /\ Head(queue) \in Item /\ Silent(Head(queue))
           /\ \A c \in ToldBy(queue) :
                \/ ~Head(queue).dropped /\ (Head(queue).note \/ c \in Head(queue).about)
                \/ c \in told' => c \in ToldBy(queue)'
<1>1. queue \in Seq(Item)
    BY DEF RestOK
<1>2. /\ queue' \in Seq(Item) /\ Len(queue') = Len(queue) - 1
      /\ \A i \in 1..(Len(queue) - 1) : queue'[i] = queue[i + 1]
      /\ DOMAIN queue' = 1..(Len(queue) - 1) /\ DOMAIN queue = 1..Len(queue)
      /\ Len(queue) \in Nat /\ Len(queue) > 0
      /\ Head(queue) = queue[1] /\ 1 \in DOMAIN queue
    BY <1>1, HeadTailProperties, EmptySeq
<1>3. ClearsAreSilent'
    <2> SUFFICES ASSUME NEW i \in 1..(Len(queue) - 1)
                 PROVE  Silent(queue'[i])
        BY <1>2 DEF ClearsAreSilent, Silent
    <2>1. i + 1 \in DOMAIN queue /\ queue'[i] = queue[i + 1]
        BY <1>2
    <2> QED BY <2>1 DEF ClearsAreSilent
<1>4. Head(queue) \in Item /\ Silent(Head(queue))
    BY <1>1, <1>2 DEF ClearsAreSilent
<1>5. ASSUME NEW c \in ToldBy(queue)
      PROVE  \/ ~Head(queue).dropped /\ (Head(queue).note \/ c \in Head(queue).about)
             \/ c \in told' => c \in ToldBy(queue)'
    <2>1. PICK i \in DOMAIN queue :
               ~queue[i].dropped /\ (queue[i].note \/ c \in queue[i].about)
        BY DEF ToldBy
    <2>2. CASE i = 1
        BY <1>2, <2>1, <2>2
    <2>3. CASE i # 1
        <3>1. i - 1 \in DOMAIN queue' /\ queue'[i - 1] = queue[i]
            BY <1>2, <2>3
        <3> QED BY <2>1, <3>1 DEF ToldBy
    <2> QED BY <2>2, <2>3
<1> QED BY <1>2, <1>3, <1>4, <1>5

-----------------------------------------------------------------------------
(***************************************************************************)
(* Calls the model waits on.                                               *)
(***************************************************************************)
LEMMA KeptTold ==
    ASSUME NoCallForgotten, Kept, told' = told, ToldBy(queue) \subseteq ToldBy(queue)'
    PROVE  NoCallForgotten'
BY DEF NoCallForgotten, Promised, Kept

LEMMA SameTold ==
    ASSUME NoCallForgotten, cm' = cm, told' = told, ToldBy(queue) \subseteq ToldBy(queue)'
    PROVE  NoCallForgotten'
BY DEF NoCallForgotten, Promised, Held, StagedCalls

LEMMA TrimmedTold ==
    ASSUME cm' = cm, told' = told \cap Promised(cm, queue')
    PROVE  NoCallForgotten'
BY DEF NoCallForgotten, Promised, ToldBy, Held, StagedCalls

\* The person moved on, and the message carries the note if one is owed.
LEMMA NotedTold ==
    ASSUME IInv, NEW item \in Item, Silent(item), Enqueue(item), told' = told,
           item.note = NoteOwed, ~item.dropped
    PROVE  NoCallForgotten'
<1>0. RestOK /\ ClearsAreSilent
    BY DEF IInv
<1>1. CASE NoteOwed
    <2>1. told \subseteq ToldBy(queue)'
        BY <1>0, <1>1, EnqueueIs
    <2> QED BY <2>1 DEF NoCallForgotten, Promised
<1>2. CASE ~NoteOwed
    <2>1. told \subseteq ToldBy(queue)
        BY <1>2 DEF IInv, NoCallForgotten, Promised, NoteOwed
    <2>2. ToldBy(queue) \subseteq ToldBy(queue)'
        BY <1>0, EnqueueIs
    <2> QED BY <2>1, <2>2 DEF NoCallForgotten, Promised
<1> QED BY <1>1, <1>2

-----------------------------------------------------------------------------
(***************************************************************************)
(* What people and the relay ask of the session.                           *)
(***************************************************************************)
LEMMA SubmitTurnStep ==
    ASSUME IInv, SubmitTurn
    PROVE  IInv'
<1> DEFINE item == [Plain("person") EXCEPT !.note = NoteOwed]
<1>0. RestOK /\ Asked /\ BlockedInTurn /\ ClearsAreSilent /\ turnSeq \in Nat
    BY DEF IInv, RestOK
<1>1. NoteOwed \in BOOLEAN
    BY <1>0 DEF NoteOwed, Asked, Machine
<1>2. /\ item \in Item /\ Silent(item) /\ item.note = NoteOwed /\ ~item.dropped
    BY <1>1 DEF Item, Plain, Kinds, Silent
<1>3. /\ MovesOn /\ Enqueue(item) /\ told' = told /\ run' = run
      /\ UNCHANGED conversation /\ UNCHANGED outside
    BY DEF SubmitTurn
<1> HIDE DEF item
<1>4. queue' \in Seq(Item) /\ inputs' \in Nat /\ ClearsAreSilent'
    BY <1>0, <1>2, <1>3, EnqueueIs
<1>5. Asked' /\ cm'.live = cm.live
    BY <1>0, <1>3, MovesOnAsked
<1>6. NoCallForgotten'
    BY <1>2, <1>3, NotedTold
<1>7. RestOK'
    BY <1>0, <1>3, <1>4 DEF RestOK, conversation, outside
<1>8. BlockedInTurn'
    BY <1>0, <1>3, <1>5 DEF BlockedInTurn
<1> QED BY <1>4, <1>5, <1>6, <1>7, <1>8 DEF IInv

LEMMA EditMessageStep ==
    ASSUME IInv, NEW k \in DOMAIN hist, EditMessage(k)
    PROVE  IInv'
<1> DEFINE item == [Plain("edit") EXCEPT !.note = NoteOwed, !.before = k - 1]
<1>0. RestOK /\ Asked /\ BlockedInTurn /\ ClearsAreSilent /\ turnSeq \in Nat
    BY DEF IInv, RestOK
<1>1. NoteOwed \in BOOLEAN /\ k - 1 \in Nat
    BY <1>0 DEF NoteOwed, Asked, Machine, RestOK
<1>2. /\ item \in Item /\ Silent(item) /\ item.note = NoteOwed /\ ~item.dropped
    BY <1>1 DEF Item, Plain, Kinds, Silent
<1>3. /\ MovesOn /\ Enqueue(item) /\ told' = told /\ StopsTurn
      /\ UNCHANGED conversation /\ UNCHANGED outside
    BY DEF EditMessage
<1> HIDE DEF item
<1>4. queue' \in Seq(Item) /\ inputs' \in Nat /\ ClearsAreSilent'
    BY <1>0, <1>2, <1>3, EnqueueIs
<1>5. Asked' /\ cm'.live = cm.live
    BY <1>0, <1>3, MovesOnAsked
<1>6. NoCallForgotten'
    BY <1>2, <1>3, NotedTold
<1>7. run' \in [turn : BOOLEAN, kind : Kinds, grants : SUBSET Calls, stop : BOOLEAN]
      /\ run'.turn = run.turn
    BY <1>0, <1>3 DEF RestOK, StopsTurn
<1>8. RestOK'
    BY <1>0, <1>3, <1>4, <1>7 DEF RestOK, conversation, outside
<1>9. BlockedInTurn'
    BY <1>0, <1>5, <1>7 DEF BlockedInTurn
<1> QED BY <1>4, <1>5, <1>6, <1>8, <1>9 DEF IInv

LEMMA ClearConversationStep ==
    ASSUME IInv, ClearConversation
    PROVE  IInv'
<1>0. RestOK /\ Asked /\ BlockedInTurn /\ ClearsAreSilent /\ turnSeq \in Nat
    BY DEF IInv, RestOK
<1>2. Plain("clear") \in Item /\ Silent(Plain("clear"))
    BY PlainIs DEF Kinds
<1>3. /\ MovesOn /\ Enqueue(Plain("clear")) /\ told' = {} /\ run' = run
      /\ UNCHANGED conversation /\ UNCHANGED outside
    BY DEF ClearConversation
<1>4. queue' \in Seq(Item) /\ inputs' \in Nat /\ ClearsAreSilent'
    BY <1>0, <1>2, <1>3, EnqueueIs
<1>5. Asked' /\ cm'.live = cm.live
    BY <1>0, <1>3, MovesOnAsked
<1>6. NoCallForgotten'
    BY <1>3 DEF NoCallForgotten
<1>7. RestOK'
    BY <1>0, <1>3, <1>4 DEF RestOK, conversation, outside
<1>8. BlockedInTurn'
    BY <1>0, <1>3, <1>5 DEF BlockedInTurn
<1> QED BY <1>4, <1>5, <1>6, <1>7, <1>8 DEF IInv

\* Something is queued, and nobody moved on.
LEMMA QueuedStep ==
    ASSUME IInv, NEW kind \in Kinds, Enqueue(Plain(kind)), NEW s \in BOOLEAN, Moves(Here, s),
           sid' \in BOOLEAN, UNCHANGED <<run, told, hist, conv, loaded, cleared, born, turnSeq>>,
           UNCHANGED outside
    PROVE  IInv'
<1>0. RestOK /\ Asked /\ BlockedInTurn /\ ClearsAreSilent /\ NoCallForgotten
    BY DEF IInv
<1>1. Plain(kind) \in Item /\ Silent(Plain(kind))
    BY PlainIs
<1>2. /\ queue' \in Seq(Item) /\ inputs' \in Nat /\ ClearsAreSilent'
      /\ ToldBy(queue) \subseteq ToldBy(queue)'
    BY <1>0, <1>1, EnqueueIs
<1>3. Asked' /\ cm' = cm
    <2>1. Sound(Here) /\ Shown(Here.m) /\ Here.m = cm
        BY <1>0, HereIs DEF Asked
    <2> HIDE DEF Here
    <2> QED BY <2>1, MovesAsked
<1>4. NoCallForgotten'
    BY <1>0, <1>2, <1>3, SameTold
<1>5. RestOK'
    BY <1>0, <1>2 DEF RestOK, outside
<1>6. BlockedInTurn'
    BY <1>0, <1>3 DEF BlockedInTurn
<1> QED BY <1>2, <1>3, <1>4, <1>5, <1>6 DEF IInv

LEMMA SubmitOtherStep ==
    ASSUME IInv, SubmitOther
    PROVE  IInv'
<1>1. disk.sid \in BOOLEAN /\ sid \in BOOLEAN
    BY DEF IInv, RestOK, Asked, OnDisk
<1> QED BY <1>1, QueuedStep DEF SubmitOther, Kinds, Quiet, conversation

LEMMA FollowTurnInFlightStep ==
    ASSUME IInv, FollowTurnInFlight
    PROVE  IInv'
<1> DEFINE s == IF sid' # sid THEN TRUE ELSE disk.sid
<1>1. s \in BOOLEAN /\ sid \in BOOLEAN
    BY DEF IInv, RestOK, Asked, OnDisk
<1>2. Moves(Here, s) /\ sid' \in BOOLEAN
    BY <1>1 DEF FollowTurnInFlight
<1> HIDE DEF s
<1> QED BY <1>1, <1>2, QueuedStep DEF FollowTurnInFlight, Kinds

LEMMA StopTurnStep ==
    ASSUME IInv, StopTurn
    PROVE  IInv'
<1>0. RestOK /\ Asked /\ BlockedInTurn /\ ClearsAreSilent /\ NoCallForgotten
    BY DEF IInv
<1>1. /\ StopsTurn /\ Quiet /\ queue' = queue /\ told' = told /\ inputs' = inputs
      /\ UNCHANGED conversation /\ UNCHANGED outside
    BY DEF StopTurn
<1>2. Asked' /\ cm' = cm
    BY <1>0, <1>1, QuietAsked
<1>3. NoCallForgotten'
    BY <1>0, <1>1, <1>2, SameTold DEF ToldBy
<1>4. run' \in [turn : BOOLEAN, kind : Kinds, grants : SUBSET Calls, stop : BOOLEAN]
      /\ run'.turn = run.turn
    BY <1>0, <1>1 DEF RestOK, StopsTurn
<1>5. RestOK'
    BY <1>0, <1>1, <1>4 DEF RestOK, conversation, outside
<1>6. BlockedInTurn' /\ ClearsAreSilent'
    BY <1>0, <1>1, <1>2, <1>4 DEF BlockedInTurn, ClearsAreSilent, Silent
<1> QED BY <1>2, <1>3, <1>5, <1>6 DEF IInv

LEMMA AnswerChoiceStep ==
    ASSUME IInv, AnswerChoice
    PROVE  IInv'
<1>0. RestOK /\ Asked /\ BlockedInTurn /\ ClearsAreSilent /\ NoCallForgotten
    BY DEF IInv
<1>1. /\ Moves(ChoiceAnswered(Here), disk.sid) /\ Enqueue(Plain("answer"))
      /\ told' = told /\ run' = run /\ UNCHANGED conversation /\ UNCHANGED outside
    BY DEF AnswerChoice
<1>2. Sound(Here) /\ Shown(Here.m) /\ disk.sid \in BOOLEAN
    BY <1>0, HereIs DEF Asked, OnDisk
<1>3. Keeps(Here, ChoiceAnswered(Here))
    BY <1>2, ChoiceAnsweredKeeps
<1>4. Asked' /\ Kept
    BY <1>0, <1>1, <1>2, <1>3, KeepsAsked
<1>5. Plain("answer") \in Item /\ Silent(Plain("answer"))
    BY PlainIs DEF Kinds
<1>6. /\ queue' \in Seq(Item) /\ inputs' \in Nat /\ ClearsAreSilent'
      /\ ToldBy(queue) \subseteq ToldBy(queue)'
    BY <1>0, <1>1, <1>5, EnqueueIs
<1>7. NoCallForgotten'
    BY <1>0, <1>1, <1>4, <1>6, KeptTold
<1>8. RestOK'
    BY <1>0, <1>1, <1>6 DEF RestOK, conversation, outside
<1>9. BlockedInTurn'
    BY <1>0, <1>1, <1>4 DEF BlockedInTurn, Kept
<1> QED BY <1>4, <1>6, <1>7, <1>8, <1>9 DEF IInv

LEMMA AnswerCardStep ==
    ASSUME IInv, NEW yes \in SUBSET cm.card, AnswerCard(yes)
    PROVE  IInv'
<1> DEFINE item == [Plain("verdict") EXCEPT !.about = cm.card,
                                            !.grants = Granted(cm.card, yes, Waiting)]
           t == CardAnswered(Here)
<1>0. RestOK /\ Asked /\ BlockedInTurn /\ ClearsAreSilent /\ NoCallForgotten
    BY DEF IInv
<1>1. /\ Moves(t, disk.sid) /\ Enqueue(item)
      /\ told' = told /\ run' = run /\ UNCHANGED conversation /\ UNCHANGED outside
    BY DEF AnswerCard
<1>2. cm.card \in SUBSET Calls /\ Granted(cm.card, yes, Waiting) \in SUBSET Calls
    BY <1>0 DEF Asked, Machine, Granted
<1>3. item \in Item /\ Silent(item) /\ item.about = cm.card /\ ~item.dropped
    BY <1>2 DEF Item, Plain, Kinds, Silent
<1>4. Sound(Here) /\ Here.m = cm /\ Shown(cm) /\ disk.sid \in BOOLEAN
    BY <1>0, HereIs DEF Asked, OnDisk
<1> HIDE DEF item, t
<1>5. /\ Sound(t) /\ Shown(t.m) /\ t.m.live = cm.live
      /\ cm.withdrawn => t.m.withdrawn
      /\ Held(cm) \subseteq Held(t.m) \cup cm.card \/ t.m.withdrawn
    BY <1>4, CardAnsweredIs DEF t
<1>6. Asked' /\ cm' = t.m
    BY <1>1, <1>4, <1>5, MovesAsked
<1>7. /\ queue' \in Seq(Item) /\ inputs' \in Nat /\ ClearsAreSilent'
      /\ ToldBy(queue) \subseteq ToldBy(queue)'
      /\ told \cap cm.card \subseteq ToldBy(queue)'
    BY <1>0, <1>1, <1>3, EnqueueIs
<1>8. NoCallForgotten'
    <2>1. told \subseteq Held(cm) \cup (IF cm.withdrawn THEN told ELSE {}) \cup ToldBy(queue)
        BY <1>0 DEF NoCallForgotten, Promised
    <2>2. cm.withdrawn => cm'.withdrawn
        BY <1>5, <1>6
    <2>3. Held(cm) \subseteq Held(cm') \cup cm.card \/ cm'.withdrawn
        BY <1>5, <1>6
    <2>4. Held(cm') = Held(cm)'
        BY DEF Held, StagedCalls
    <2> QED BY <1>1, <1>7, <2>1, <2>2, <2>3, <2>4 DEF NoCallForgotten, Promised
<1>9. RestOK'
    BY <1>0, <1>1, <1>7 DEF RestOK, conversation, outside
<1>10. BlockedInTurn'
    BY <1>0, <1>1, <1>5, <1>6 DEF BlockedInTurn
<1> QED BY <1>6, <1>7, <1>8, <1>9, <1>10 DEF IInv

LEMMA DiscardQueuedTurnsStep ==
    ASSUME IInv, DiscardQueuedTurns
    PROVE  IInv'
<1>0. RestOK /\ Asked /\ BlockedInTurn /\ ClearsAreSilent /\ NoCallForgotten
    BY DEF IInv
<1>1. /\ queue' = Dropped(queue) /\ StopsTurn /\ Quiet /\ inputs' = inputs
      /\ told' = told \cap Promised(cm, queue')
      /\ UNCHANGED conversation /\ UNCHANGED outside
    BY DEF DiscardQueuedTurns
<1>2. Asked' /\ cm' = cm
    BY <1>0, <1>1, QuietAsked
<1>3. NoCallForgotten'
    BY <1>1, <1>2, TrimmedTold
<1>4. run' \in [turn : BOOLEAN, kind : Kinds, grants : SUBSET Calls, stop : BOOLEAN]
      /\ run'.turn = run.turn
    BY <1>0, <1>1 DEF RestOK, StopsTurn
<1>5. queue \in Seq(Item)
    BY <1>0 DEF RestOK
<1>6. ASSUME NEW i \in DOMAIN queue
      PROVE  /\ [queue[i] EXCEPT !.dropped = queue[i].kind # "clear"] \in Item
             /\ Silent([queue[i] EXCEPT !.dropped = queue[i].kind # "clear"])
    <2>1. queue[i] \in Item /\ Silent(queue[i]) /\ (queue[i].kind # "clear") \in BOOLEAN
        BY <1>0, <1>5 DEF ClearsAreSilent
    <2> DEFINE flag == queue[i].kind # "clear"
               d == [queue[i] EXCEPT !.dropped = flag]
    <2> HIDE DEF flag
    <2>2. d \in Item /\ d.kind = queue[i].kind /\ d.note = queue[i].note
          /\ d.about = queue[i].about
        BY <2>1 DEF Item, flag
    <2>3. Silent(d)
        BY <2>1, <2>2 DEF Silent
    <2> QED BY <2>2, <2>3 DEF flag
<1>7. queue' \in Seq(Item) /\ ClearsAreSilent'
    <2>1. queue' \in [1..Len(queue) -> Item] /\ Len(queue) \in Nat
        BY <1>1, <1>5, <1>6 DEF Dropped
    <2>2. queue' \in Seq(Item)
        BY <2>1, SeqDef
    <2>3. \A i \in DOMAIN queue' : Silent(queue'[i])
        BY <1>0, <1>1, <1>6 DEF Dropped, ClearsAreSilent
    <2> QED BY <2>2, <2>3 DEF ClearsAreSilent, Silent
<1>8. RestOK'
    BY <1>0, <1>1, <1>4, <1>7 DEF RestOK, conversation, outside
<1>9. BlockedInTurn'
    BY <1>0, <1>2, <1>4 DEF BlockedInTurn
<1> QED BY <1>2, <1>3, <1>7, <1>8, <1>9 DEF IInv

-----------------------------------------------------------------------------
(***************************************************************************)
(* The queue.                                                              *)
(***************************************************************************)
LEMMA SkipStep ==
    ASSUME IInv, Skip
    PROVE  IInv'
<1>0. RestOK /\ Asked /\ BlockedInTurn /\ ClearsAreSilent /\ NoCallForgotten
    BY DEF IInv
<1>1. /\ queue # <<>> /\ Head(queue).dropped /\ queue' = Tail(queue) /\ Quiet
      /\ run' = run /\ told' = told /\ inputs' = inputs
      /\ UNCHANGED conversation /\ UNCHANGED outside
    BY DEF Skip, Ready
<1>2. /\ queue' \in Seq(Item) /\ ClearsAreSilent'
      /\ \A c \in ToldBy(queue) :
           \/ ~Head(queue).dropped /\ (Head(queue).note \/ c \in Head(queue).about)
           \/ c \in told' => c \in ToldBy(queue)'
    BY <1>0, <1>1, TailIs
<1>3. Asked' /\ cm' = cm
    BY <1>0, <1>1, QuietAsked
<1>4. ToldBy(queue) \subseteq told
    BY DEF ToldBy
<1>5. ToldBy(queue) \subseteq ToldBy(queue)'
    BY <1>1, <1>2, <1>4
<1>6. NoCallForgotten'
    BY <1>0, <1>1, <1>3, <1>5, SameTold
<1>7. RestOK'
    BY <1>0, <1>1, <1>2 DEF RestOK, conversation, outside
<1>8. BlockedInTurn'
    BY <1>0, <1>1, <1>3 DEF BlockedInTurn
<1> QED BY <1>2, <1>3, <1>6, <1>7, <1>8 DEF IInv

LEMMA RunClearStep ==
    ASSUME IInv, RunClear
    PROVE  IInv'
<1>0. RestOK /\ Asked /\ BlockedInTurn /\ ClearsAreSilent /\ NoCallForgotten
    BY DEF IInv
<1>1. /\ queue # <<>> /\ Head(queue).kind = "clear" /\ queue' = Tail(queue)
      /\ Moves(Here, FALSE) /\ run' = run /\ told' = told /\ inputs' = inputs
      /\ hist' = <<>> /\ conv' = <<>> /\ sid' = FALSE /\ cleared' = TRUE
      /\ UNCHANGED <<loaded, born, turnSeq>> /\ UNCHANGED outside
    BY DEF RunClear, Ready
<1>2. /\ queue' \in Seq(Item) /\ ClearsAreSilent' /\ Silent(Head(queue))
      /\ \A c \in ToldBy(queue) :
           \/ ~Head(queue).dropped /\ (Head(queue).note \/ c \in Head(queue).about)
           \/ c \in told' => c \in ToldBy(queue)'
    BY <1>0, <1>1, TailIs
<1>3. Asked' /\ cm' = cm
    <2>1. Sound(Here) /\ Shown(Here.m) /\ Here.m = cm
        BY <1>0, HereIs DEF Asked
    <2> HIDE DEF Here
    <2> QED BY <1>1, <2>1, MovesAsked
<1>4. ToldBy(queue) \subseteq told
    BY DEF ToldBy
<1>5. ToldBy(queue) \subseteq ToldBy(queue)'
    BY <1>1, <1>2, <1>4 DEF Silent
<1>6. NoCallForgotten'
    BY <1>0, <1>1, <1>3, <1>5, SameTold
<1>7. RestOK'
    <2>1. <<>> \in Seq([turn : Nat, lined : BOOLEAN]) /\ <<>> \in Seq(Nat)
        BY EmptySeq
    <2>2. /\ hist' \in Seq([turn : Nat, lined : BOOLEAN]) /\ conv' \in Seq(Nat)
          /\ sid' \in BOOLEAN /\ cleared' \in BOOLEAN
        BY <1>1, <2>1
    <2> QED BY <1>0, <1>1, <1>2, <2>2 DEF RestOK, outside
<1>8. BlockedInTurn'
    BY <1>0, <1>1, <1>3 DEF BlockedInTurn
<1> QED BY <1>2, <1>3, <1>6, <1>7, <1>8 DEF IInv

LEMMA EditFailsStep ==
    ASSUME IInv, EditFails
    PROVE  IInv'
<1>0. RestOK /\ Asked /\ BlockedInTurn /\ ClearsAreSilent /\ NoCallForgotten
    BY DEF IInv
<1>1. /\ queue # <<>> /\ queue' = Tail(queue) /\ Quiet
      /\ told' = told \cap Promised(cm, queue')
      /\ run' = run /\ inputs' = inputs /\ UNCHANGED conversation /\ UNCHANGED outside
    BY DEF EditFails, AtEdit, Ready
<1>2. queue' \in Seq(Item) /\ ClearsAreSilent'
    BY <1>0, <1>1, TailIs
<1>3. Asked' /\ cm' = cm
    BY <1>0, <1>1, QuietAsked
<1>4. NoCallForgotten'
    BY <1>1, <1>3, TrimmedTold
<1>5. RestOK'
    BY <1>0, <1>1, <1>2 DEF RestOK, conversation, outside
<1>6. BlockedInTurn'
    BY <1>0, <1>1, <1>3 DEF BlockedInTurn
<1> QED BY <1>2, <1>3, <1>4, <1>5, <1>6 DEF IInv

\* What a turn that starts shows, and what its model is told.
ShownTurn == [turn : Nat, lined : BOOLEAN]

LEMMA InTranscriptIs ==
    ASSUME RestOK
    PROVE  InTranscript \in Seq(ShownTurn)
<1>1. conv \in Seq(Nat) /\ DOMAIN conv = 1..Len(conv) /\ Len(conv) \in Nat
    BY DEF RestOK
<1>2. \A i \in DOMAIN conv : Lined(conv[i]) \in ShownTurn
    BY <1>1 DEF Lined, ShownTurn
<1>3. InTranscript \in [1..Len(conv) -> ShownTurn]
    BY <1>1, <1>2 DEF InTranscript
<1> QED BY <1>1, <1>3, SeqDef

LEMMA RunTurnIs ==
    ASSUME RestOK, ClearsAreSilent, NoCallForgotten, cm' = cm, sid' \in BOOLEAN,
           queue # <<>>, queue' = Tail(queue), NEW h \in Seq(ShownTurn),
           RunTurn(Head(queue), h, queue')
    PROVE  /\ hist' \in Seq(ShownTurn) /\ loaded' \in BOOLEAN
           /\ born' \in Nat /\ turnSeq' \in Nat /\ hostTurn' \in BOOLEAN
           /\ run' \in [turn : BOOLEAN, kind : Kinds, grants : SUBSET Calls, stop : BOOLEAN]
           /\ run'.turn /\ told' \subseteq told /\ NoCallForgotten'
<1> DEFINE item == Head(queue)
           shown == IF NeedsHistoryLoad(h, sid') THEN InTranscript ELSE h
<1>1. /\ item \in Item /\ Silent(item) /\ queue' \in Seq(Item)
      /\ \A c \in ToldBy(queue) :
           \/ ~item.dropped /\ (item.note \/ c \in item.about)
           \/ c \in told' => c \in ToldBy(queue)'
    BY TailIs
<1>2. /\ hist' = Append(shown, [turn |-> born + 1, lined |-> FALSE])
      /\ loaded' = (loaded \/ NeedsHistoryLoad(h, sid'))
      /\ born' = born + 1 /\ turnSeq' = turnSeq + 1
      /\ run' = [turn |-> TRUE, kind |-> item.kind, grants |-> item.grants, stop |-> FALSE]
      /\ hostTurn' = hosted
      /\ told' = (IF item.note THEN told \cap (Held(cm) \cup ToldBy(queue'))
                  ELSE told \ item.about)
    BY DEF RunTurn
<1>3. shown \in Seq(ShownTurn)
    BY InTranscriptIs
<1>4. [turn |-> born + 1, lined |-> FALSE] \in ShownTurn
    BY DEF ShownTurn, RestOK
<1> HIDE DEF shown, item
<1>5. hist' \in Seq(ShownTurn)
    BY <1>2, <1>3, <1>4, AppendProperties
<1>6. run' \in [turn : BOOLEAN, kind : Kinds, grants : SUBSET Calls, stop : BOOLEAN]
      /\ run'.turn
    BY <1>1, <1>2 DEF Item
<1>7. loaded' \in BOOLEAN
    BY <1>2 DEF RestOK, NeedsHistoryLoad
<1>8. NoCallForgotten'
    <2>1. CASE item.note
        BY <1>2, <2>1 DEF NoCallForgotten, Promised, ToldBy, Held, StagedCalls
    <2>2. CASE ~item.note
        <3>1. told' = told \ item.about
            BY <1>2, <2>2
        <3>2. SUFFICES ASSUME NEW c \in told'
                       PROVE  c \in Promised(cm, queue)'
            BY DEF NoCallForgotten
        <3>3. c \in told /\ c \notin item.about
            BY <3>1
        <3>4. CASE c \in ToldBy(queue)
            <4>1. c \in ToldBy(queue)'
                BY <1>1, <2>2, <3>3, <3>4
            <4> QED BY <4>1 DEF Promised
        <3>5. CASE c \in Held(cm)
            BY <3>5 DEF Promised, Held, StagedCalls
        <3>6. CASE cm.withdrawn
            BY <3>6 DEF Promised
        <3> QED BY <3>3, <3>4, <3>5, <3>6 DEF NoCallForgotten, Promised
    <2> QED BY <2>1, <2>2
<1>9. /\ born' \in Nat /\ turnSeq' \in Nat /\ hostTurn' \in BOOLEAN /\ told' \subseteq told
    BY <1>2 DEF RestOK
<1> QED BY <1>5, <1>6, <1>7, <1>8, <1>9

LEMMA StartTurnStep ==
    ASSUME IInv, StartTurn
    PROVE  IInv'
<1>0. RestOK /\ Asked /\ BlockedInTurn /\ ClearsAreSilent /\ NoCallForgotten
    BY DEF IInv
<1>1. /\ queue # <<>> /\ queue' = Tail(queue) /\ Quiet
      /\ RunTurn(Head(queue), hist, queue')
      /\ UNCHANGED <<inputs, conv, sid, cleared, hosted, rejected, crashes>>
    BY DEF StartTurn, Ready
<1>2. queue' \in Seq(Item) /\ ClearsAreSilent'
    BY <1>0, <1>1, TailIs
<1>3. Asked' /\ cm' = cm
    BY <1>0, <1>1, QuietAsked
<1>4. hist \in Seq(ShownTurn) /\ sid' \in BOOLEAN
    BY <1>0, <1>1 DEF RestOK, ShownTurn
<1>5. /\ hist' \in Seq(ShownTurn) /\ loaded' \in BOOLEAN
      /\ born' \in Nat /\ turnSeq' \in Nat /\ hostTurn' \in BOOLEAN
      /\ run' \in [turn : BOOLEAN, kind : Kinds, grants : SUBSET Calls, stop : BOOLEAN]
      /\ run'.turn /\ told' \subseteq told /\ NoCallForgotten'
    BY <1>0, <1>1, <1>3, <1>4, RunTurnIs
<1>6. RestOK'
    BY <1>0, <1>1, <1>2, <1>5 DEF RestOK, ShownTurn
<1>7. BlockedInTurn'
    BY <1>5 DEF BlockedInTurn
<1> QED BY <1>2, <1>3, <1>5, <1>6, <1>7 DEF IInv

LEMMA PerformEditStep ==
    ASSUME IInv, PerformEdit
    PROVE  IInv'
<1>0. RestOK /\ Asked /\ BlockedInTurn /\ ClearsAreSilent /\ NoCallForgotten
    BY DEF IInv
<1>1. /\ queue # <<>> /\ queue' = Tail(queue)
      /\ conv' = Rewound /\ sid' = (sid /\ CutAt > 0)
      /\ Moves(Here, (sid \/ disk.sid) /\ CutAt > 0)
      /\ UNCHANGED <<inputs, cleared, hosted, crashes>>
    BY DEF PerformEdit, AtEdit, Ready
<1>2. queue' \in Seq(Item) /\ ClearsAreSilent' /\ CutAt \in Nat
    BY <1>0, <1>1, TailIs DEF CutAt, Item
<1>3. Asked' /\ cm' = cm
    <2>1. Sound(Here) /\ Shown(Here.m) /\ Here.m = cm
        BY <1>0, HereIs DEF Asked
    <2>2. ((sid \/ disk.sid) /\ CutAt > 0) \in BOOLEAN
        OBVIOUS
    <2> HIDE DEF Here
    <2> QED BY <1>1, <2>1, <2>2, MovesAsked
<1>4. conv' \in Seq(Nat) /\ sid' \in BOOLEAN
    <2>1. conv \in Seq(Nat) /\ sid \in BOOLEAN
        BY <1>0 DEF RestOK
    <2>2. CASE CutAt < Len(conv)
        <3>1. conv' = SubSeq(conv, 1, CutAt)
            BY <1>1, <2>2 DEF Rewound
        <3>2. conv' \in Seq(Nat)
            BY <1>2, <2>1, <2>2, <3>1
        <3> QED BY <1>1, <2>1, <3>2
    <2>3. CASE ~(CutAt < Len(conv))
        BY <1>1, <2>1, <2>3 DEF Rewound
    <2> QED BY <2>2, <2>3
<1>5. CASE CutAt <= Len(hist)
    <2> DEFINE h == SubSeq(hist, 1, CutAt)
    <2>1. RunTurn(Head(queue), h, queue') /\ rejected' = rejected
        BY <1>5 DEF PerformEdit
    <2>2. h \in Seq(ShownTurn)
        <3>1. hist \in Seq(ShownTurn)
            BY <1>0 DEF RestOK, ShownTurn
        <3> QED BY <1>2, <1>5, <3>1
    <2> HIDE DEF h
    <2>3. /\ hist' \in Seq(ShownTurn) /\ loaded' \in BOOLEAN
          /\ born' \in Nat /\ turnSeq' \in Nat /\ hostTurn' \in BOOLEAN
          /\ run' \in [turn : BOOLEAN, kind : Kinds, grants : SUBSET Calls, stop : BOOLEAN]
          /\ run'.turn /\ told' \subseteq told /\ NoCallForgotten'
        BY <1>0, <1>1, <1>3, <1>4, <2>1, <2>2, RunTurnIs
    <2>4. RestOK'
        BY <1>0, <1>1, <1>2, <1>4, <2>1, <2>3 DEF RestOK, ShownTurn
    <2>5. BlockedInTurn'
        BY <2>3 DEF BlockedInTurn
    <2> QED BY <1>2, <1>3, <2>3, <2>4, <2>5 DEF IInv
<1>6. CASE ~(CutAt <= Len(hist))
    <2>1. /\ rejected' = TRUE /\ told' = told \cap Promised(cm, queue')
          /\ UNCHANGED <<run, hist, loaded, born, turnSeq, hostTurn>>
        BY <1>6 DEF PerformEdit
    <2>2. NoCallForgotten'
        BY <1>3, <2>1, TrimmedTold
    <2>3. RestOK'
        BY <1>0, <1>1, <1>2, <1>4, <2>1 DEF RestOK
    <2>4. BlockedInTurn'
        BY <1>0, <1>3, <2>1 DEF BlockedInTurn
    <2> QED BY <1>2, <1>3, <2>2, <2>3, <2>4 DEF IInv
<1> QED BY <1>5, <1>6

-----------------------------------------------------------------------------
(***************************************************************************)
(* The turn in flight.                                                     *)
(***************************************************************************)
LEMMA AskDeferredStep ==
    ASSUME IInv, NEW call \in Calls, AskDeferred(call)
    PROVE  IInv'
<1> DEFINE t == DeferApproval(Here, call, turnSeq)
<1>0. RestOK /\ Asked /\ BlockedInTurn /\ ClearsAreSilent /\ NoCallForgotten
    BY DEF IInv
<1>1. /\ Moves(t, disk.sid) /\ told' = told \cup {call} /\ inputs' = inputs + 1
      /\ queue' = queue /\ run' = run /\ UNCHANGED conversation /\ UNCHANGED outside
    BY DEF AskDeferred, Input
<1>2. Sound(Here) /\ Shown(Here.m) /\ disk.sid \in BOOLEAN /\ turnSeq \in Nat
    BY <1>0, HereIs DEF Asked, OnDisk, RestOK
<1> HIDE DEF Here
<1>3. Keeps(Here, t) /\ (call \in Held(t.m) \/ t.m.withdrawn)
    BY <1>2, DeferApprovalKeeps
<1> HIDE DEF t
<1>4. Asked' /\ Kept /\ cm' = t.m
    BY <1>0, <1>1, <1>2, <1>3, KeepsAsked
<1>5. NoCallForgotten'
    <2>1. CASE cm'.withdrawn
        BY <2>1 DEF NoCallForgotten, Promised
    <2>2. CASE ~cm'.withdrawn
        <3>1. call \in Held(cm') /\ Held(cm) \subseteq Held(cm') /\ ~cm.withdrawn
            BY <1>3, <1>4, <2>2 DEF Kept
        <3>2. ToldBy(queue) \subseteq ToldBy(queue)' /\ Held(cm') = Held(cm)'
            BY <1>1 DEF ToldBy, Held, StagedCalls
        <3>3. told \subseteq Held(cm) \cup ToldBy(queue)
            BY <1>0, <3>1 DEF NoCallForgotten, Promised
        <3> QED BY <1>1, <3>1, <3>2, <3>3 DEF NoCallForgotten, Promised
    <2> QED BY <2>1, <2>2
<1>6. RestOK'
    <2>1. told' \in SUBSET Calls /\ inputs' \in Nat
        BY <1>0, <1>1 DEF RestOK
    <2> QED BY <1>0, <1>1, <2>1 DEF RestOK, conversation, outside
<1>7. BlockedInTurn' /\ ClearsAreSilent'
    BY <1>0, <1>1, <1>4 DEF BlockedInTurn, Kept, ClearsAreSilent, Silent
<1> QED BY <1>4, <1>5, <1>6, <1>7 DEF IInv

\* The machine moves, and all else but the inputs stays.
LEMMA MachineStep ==
    ASSUME IInv, Asked', NoCallForgotten', cm'.live => run.turn, inputs' \in Nat,
           queue' = queue, run' = run, told' = told,
           UNCHANGED conversation, UNCHANGED outside
    PROVE  IInv'
<1>0. RestOK /\ ClearsAreSilent
    BY DEF IInv
<1>1. RestOK'
    BY <1>0 DEF RestOK, conversation, outside
<1>2. BlockedInTurn' /\ ClearsAreSilent'
    BY <1>0 DEF BlockedInTurn, ClearsAreSilent, Silent
<1> QED BY <1>1, <1>2 DEF IInv

\* The blocked call comes, or is decided on.
LEMMA LiveAsked ==
    ASSUME Asked, NEW live \in BOOLEAN, Moves([Here EXCEPT !.m.live = live], disk.sid)
    PROVE  /\ Asked' /\ cm'.live = live
           /\ cm'.withdrawn = cm.withdrawn /\ Held(cm') = Held(cm)
<1> DEFINE t == [Here EXCEPT !.m.live = live]
<1>1. Sound(Here) /\ Here.m = cm /\ Shown(cm) /\ disk.sid \in BOOLEAN
    BY HereIs DEF Asked, OnDisk
<1>2. Moves(t, disk.sid)
    OBVIOUS
<1> HIDE DEF Here
<1>3. /\ Sound(t) /\ Shown(t.m) /\ t.m.live = live
      /\ t.m.withdrawn = cm.withdrawn /\ Held(t.m) = Held(cm)
    BY <1>1, LiveIs
<1> HIDE DEF t
<1>4. Asked' /\ cm' = t.m
    BY <1>1, <1>2, <1>3, MovesAsked
<1> QED BY <1>3, <1>4

LEMMA AskBlockingStep ==
    ASSUME IInv, AskBlocking
    PROVE  IInv'
<1>0. RestOK /\ Asked /\ NoCallForgotten
    BY DEF IInv
<1>1. /\ Moves([Here EXCEPT !.m.live = TRUE], disk.sid) /\ run.turn /\ inputs' = inputs + 1
      /\ queue' = queue /\ run' = run /\ told' = told
      /\ UNCHANGED conversation /\ UNCHANGED outside
    BY DEF AskBlocking, Input
<1>2. Asked' /\ cm'.withdrawn = cm.withdrawn /\ Held(cm') = Held(cm)
    BY <1>0, <1>1, LiveAsked
<1>3. NoCallForgotten'
    BY <1>0, <1>1, <1>2 DEF NoCallForgotten, Promised, ToldBy, Held, StagedCalls
<1>4. inputs' \in Nat
    BY <1>0, <1>1 DEF RestOK
<1> QED BY <1>1, <1>2, <1>3, <1>4, MachineStep

LEMMA AnswerBlockedStep ==
    ASSUME IInv, AnswerBlocked
    PROVE  IInv'
<1>0. RestOK /\ Asked /\ NoCallForgotten
    BY DEF IInv
<1>1. /\ Moves([Here EXCEPT !.m.live = FALSE], disk.sid) /\ inputs' = inputs
      /\ queue' = queue /\ run' = run /\ told' = told
      /\ UNCHANGED conversation /\ UNCHANGED outside
    BY DEF AnswerBlocked
<1>2. Asked' /\ cm'.live = FALSE /\ cm'.withdrawn = cm.withdrawn /\ Held(cm') = Held(cm)
    BY <1>0, <1>1, LiveAsked
<1>3. NoCallForgotten'
    BY <1>0, <1>1, <1>2 DEF NoCallForgotten, Promised, ToldBy, Held, StagedCalls
<1>4. inputs' \in Nat
    BY <1>0, <1>1 DEF RestOK
<1> QED BY <1>1, <1>2, <1>3, <1>4, MachineStep

LEMMA PresentChoiceStep ==
    ASSUME IInv, PresentChoice
    PROVE  IInv'
<1>0. RestOK /\ Asked /\ BlockedInTurn /\ NoCallForgotten
    BY DEF IInv
<1>1. /\ Moves(PresentChoiceTo(Here), disk.sid) /\ inputs' = inputs + 1
      /\ queue' = queue /\ run' = run /\ told' = told
      /\ UNCHANGED conversation /\ UNCHANGED outside
    BY DEF PresentChoice, Input
<1>2. Sound(Here) /\ Shown(Here.m) /\ disk.sid \in BOOLEAN
    BY <1>0, HereIs DEF Asked, OnDisk
<1>3. Keeps(Here, PresentChoiceTo(Here))
    BY <1>2, PresentChoiceKeeps
<1>4. Asked' /\ Kept
    BY <1>0, <1>1, <1>2, <1>3, KeepsAsked
<1>5. NoCallForgotten'
    BY <1>0, <1>1, <1>4, KeptTold DEF ToldBy
<1>6. inputs' \in Nat /\ (cm'.live => run.turn)
    BY <1>0, <1>1, <1>4 DEF RestOK, Kept, BlockedInTurn
<1> QED BY <1>1, <1>4, <1>5, <1>6, MachineStep

\* A turn that ends releases its blocked call, and its refusals go on.
LEMMA TurnSettledIs ==
    ASSUME Asked, NEW stopped \in BOOLEAN
    PROVE  LET t == TurnSettled(stopped)
           IN  /\ Sound(t) /\ Shown(t.m) /\ ~t.m.live
               /\ cm.withdrawn => t.m.withdrawn
               /\ Held(cm) \subseteq Held(t.m) \/ t.m.withdrawn
<1> DEFINE r == [Here EXCEPT !.m.live = FALSE]
           t == TurnSettled(stopped)
<1>1. Sound(Here) /\ Here.m = cm /\ Shown(cm)
    BY HereIs DEF Asked
<1>2. t = IF stopped THEN DropStaged(r, turnSeq) ELSE FlushDeferred(r, turnSeq)
    BY DEF TurnSettled
<1> HIDE DEF Here, t
<1>3. /\ Sound(r) /\ Shown(r.m) /\ r.m.live = FALSE
      /\ r.m.withdrawn = cm.withdrawn /\ Held(r.m) = Held(cm)
    BY <1>1, LiveIs
<1> HIDE DEF r
<1>4. Keeps(r, t)
    BY <1>2, <1>3, DropStagedKeeps, FlushDeferredKeeps
<1> QED BY <1>3, <1>4 DEF Keeps, t

\* Whatever the way it ends: the machine is `step`, the record says `s`.
LEMMA TurnOverStep ==
    ASSUME IInv, NEW step, Sound(step), Shown(step.m), ~step.m.live,
           cm.withdrawn => step.m.withdrawn,
           Held(cm) \subseteq Held(step.m) \/ step.m.withdrawn,
           NEW s \in BOOLEAN, Moves(step, s), NEW kept \in BOOLEAN, NEW lined \in BOOLEAN,
           Settle(kept, lined), TurnOver, inputs' \in Nat
    PROVE  IInv'
<1>0. RestOK /\ ClearsAreSilent /\ NoCallForgotten
    BY DEF IInv
<1>1. Asked' /\ cm' = step.m
    BY MovesAsked
<1>2. /\ run' = Idle /\ hostTurn' = FALSE
      /\ UNCHANGED <<queue, told, loaded, cleared, born, turnSeq, hosted, rejected, crashes>>
    BY DEF TurnOver
<1>3. conv' \in Seq(Nat) /\ sid' \in BOOLEAN
    <2>1. /\ sid' = kept
          /\ conv' = (IF ~kept THEN <<>> ELSE IF lined THEN Append(conv, born) ELSE conv)
        BY DEF Settle
    <2>2. conv \in Seq(Nat) /\ born \in Nat /\ <<>> \in Seq(Nat)
        BY <1>0, EmptySeq DEF RestOK
    <2>3. Append(conv, born) \in Seq(Nat)
        BY <2>2, AppendProperties
    <2> QED BY <2>1, <2>2, <2>3
<1>4. hist' \in Seq(ShownTurn)
    <2>1. hist \in Seq(ShownTurn) /\ DOMAIN hist = 1..Len(hist) /\ Len(hist) \in Nat
        BY <1>0 DEF RestOK, ShownTurn
    <2>2. \A i \in 1..Len(hist) : hist[i] \in ShownTurn
        BY <2>1
    <2>3. \A i \in 1..Len(hist), l \in BOOLEAN : [hist[i] EXCEPT !.lined = l] \in ShownTurn
        BY <2>2 DEF ShownTurn
    <2>4. hist' = [i \in DOMAIN hist |->
                  IF ~kept THEN [hist[i] EXCEPT !.lined = FALSE]
                  ELSE IF i = Len(hist) THEN [hist[i] EXCEPT !.lined = lined]
                  ELSE hist[i]]
        BY DEF Settle
    <2>5. hist' \in [1..Len(hist) -> ShownTurn]
        BY <2>1, <2>2, <2>3, <2>4
    <2> QED BY <2>1, <2>5, SeqDef
<1>5. Idle \in [turn : BOOLEAN, kind : Kinds, grants : SUBSET Calls, stop : BOOLEAN]
    BY DEF Idle, Kinds
<1>6. RestOK'
    BY <1>0, <1>2, <1>3, <1>4, <1>5 DEF RestOK, ShownTurn
<1>7. NoCallForgotten'
    <2>1. told \subseteq Held(cm) \cup (IF cm.withdrawn THEN told ELSE {}) \cup ToldBy(queue)
        BY <1>0 DEF NoCallForgotten, Promised
    <2>2. ToldBy(queue) \subseteq ToldBy(queue)' /\ Held(cm') = Held(cm)'
        BY <1>2 DEF ToldBy, Held, StagedCalls
    <2> QED BY <1>1, <1>2, <2>1, <2>2 DEF NoCallForgotten, Promised
<1>8. BlockedInTurn' /\ ClearsAreSilent'
    BY <1>0, <1>1, <1>2 DEF BlockedInTurn, ClearsAreSilent, Silent
<1> QED BY <1>1, <1>6, <1>7, <1>8 DEF IInv

LEMMA EndTurnStep ==
    ASSUME IInv, NEW marker \in BOOLEAN, EndTurn(marker)
    PROVE  IInv'
<1> DEFINE t == TurnSettled(FALSE)
           p == PresentChoiceTo(t)
           step == IF marker THEN p ELSE t
           lined == run.kind # "follow"
<1>0. RestOK /\ Asked
    BY DEF IInv
<1>1. Moves(step, TRUE) /\ Settle(TRUE, lined) /\ TurnOver
    BY DEF EndTurn
<1>2. inputs' \in Nat
    BY <1>0 DEF EndTurn, Input, RestOK
<1>3. /\ Sound(t) /\ Shown(t.m) /\ ~t.m.live
      /\ cm.withdrawn => t.m.withdrawn
      /\ Held(cm) \subseteq Held(t.m) \/ t.m.withdrawn
    BY <1>0, TurnSettledIs
<1>4. lined \in BOOLEAN
    OBVIOUS
<1> HIDE DEF t, lined
<1>5. Keeps(t, p)
    BY <1>3, PresentChoiceKeeps
<1> HIDE DEF p
<1>6. /\ Sound(step) /\ Shown(step.m) /\ ~step.m.live
      /\ cm.withdrawn => step.m.withdrawn
      /\ Held(cm) \subseteq Held(step.m) \/ step.m.withdrawn
    <2>1. CASE marker
        BY <1>3, <1>5, <2>1 DEF Keeps
    <2>2. CASE ~marker
        BY <1>3, <2>2
    <2> QED BY <2>1, <2>2
<1> HIDE DEF step
<1> QED BY <1>1, <1>2, <1>4, <1>6, TurnOverStep

LEMMA EndStoppedStep ==
    ASSUME IInv, NEW lined \in BOOLEAN, EndStopped(lined)
    PROVE  IInv'
<1> DEFINE t == TurnSettled(TRUE)
           s == disk.sid \/ sid \/ lined
           kept == sid \/ lined
<1>0. RestOK /\ Asked
    BY DEF IInv
<1>1. /\ Moves(t, s) /\ Settle(kept, lined) /\ TurnOver /\ inputs' = inputs
    BY DEF EndStopped
<1>2. inputs' \in Nat /\ s \in BOOLEAN /\ kept \in BOOLEAN
    BY <1>0, <1>1 DEF RestOK
<1>3. /\ Sound(t) /\ Shown(t.m) /\ ~t.m.live
      /\ cm.withdrawn => t.m.withdrawn
      /\ Held(cm) \subseteq Held(t.m) \/ t.m.withdrawn
    BY <1>0, TurnSettledIs
<1> HIDE DEF t, s, kept
<1> QED BY <1>1, <1>2, <1>3, TurnOverStep

LEMMA EndFailedStep ==
    ASSUME IInv, NEW kept \in BOOLEAN, NEW lined \in BOOLEAN, EndFailed(kept, lined)
    PROVE  IInv'
<1> DEFINE t == TurnSettled(FALSE)
<1>0. RestOK /\ Asked
    BY DEF IInv
<1>1. /\ Moves(t, disk.sid) /\ Settle(kept, lined) /\ TurnOver /\ inputs' = inputs
    BY DEF EndFailed
<1>2. inputs' \in Nat /\ disk.sid \in BOOLEAN
    BY <1>0, <1>1 DEF RestOK, Asked, OnDisk
<1>3. /\ Sound(t) /\ Shown(t.m) /\ ~t.m.live
      /\ cm.withdrawn => t.m.withdrawn
      /\ Held(cm) \subseteq Held(t.m) \/ t.m.withdrawn
    BY <1>0, TurnSettledIs
<1> HIDE DEF t
<1> QED BY <1>1, <1>2, <1>3, TurnOverStep

LEMMA HostTurnEndsStep ==
    ASSUME IInv, HostTurnEnds
    PROVE  IInv'
<1>0. RestOK /\ Asked /\ BlockedInTurn /\ ClearsAreSilent /\ NoCallForgotten
    BY DEF IInv
<1>1. /\ hostTurn' = FALSE /\ Quiet /\ queue' = queue /\ run' = run /\ told' = told
      /\ UNCHANGED <<inputs, hosted, rejected, crashes>> /\ UNCHANGED conversation
    BY DEF HostTurnEnds
<1>2. Asked' /\ cm' = cm
    BY <1>0, <1>1, QuietAsked
<1>3. NoCallForgotten'
    BY <1>0, <1>1, <1>2, SameTold DEF ToldBy
<1>4. RestOK'
    BY <1>0, <1>1 DEF RestOK, conversation
<1>5. BlockedInTurn' /\ ClearsAreSilent'
    BY <1>0, <1>1, <1>2 DEF BlockedInTurn, ClearsAreSilent, Silent
<1> QED BY <1>2, <1>3, <1>4, <1>5 DEF IInv

LEMMA AddClientStep ==
    ASSUME IInv, AddClient
    PROVE  IInv'
<1>0. RestOK /\ Asked /\ BlockedInTurn /\ ClearsAreSilent /\ NoCallForgotten
    BY DEF IInv
<1>1. /\ hist' = InTranscript /\ loaded' = TRUE /\ Quiet
      /\ queue' = queue /\ run' = run /\ told' = told
      /\ UNCHANGED <<inputs, conv, sid, cleared, born, turnSeq>> /\ UNCHANGED outside
    BY DEF AddClient
<1>2. Asked' /\ cm' = cm
    BY <1>0, <1>1, QuietAsked
<1>3. NoCallForgotten'
    BY <1>0, <1>1, <1>2, SameTold DEF ToldBy
<1>4. hist' \in Seq(ShownTurn)
    BY <1>0, <1>1, InTranscriptIs
<1>5. RestOK'
    BY <1>0, <1>1, <1>4 DEF RestOK, outside, ShownTurn
<1>6. BlockedInTurn' /\ ClearsAreSilent'
    BY <1>0, <1>1, <1>2 DEF BlockedInTurn, ClearsAreSilent, Silent
<1> QED BY <1>2, <1>3, <1>5, <1>6 DEF IInv

-----------------------------------------------------------------------------
(***************************************************************************)
(* The relay dies, and another adopts what the disk had then.              *)
(***************************************************************************)
LEMMA CrashStep ==
    ASSUME IInv, Crash
    PROVE  IInv'
<1>0. RestOK /\ Asked
    BY DEF IInv
<1>1. PICK d \in trail, lined \in BOOLEAN :
         /\ Moves(Adopted(d), d.sid)
         /\ sid' = d.sid
         /\ conv' = (IF ~(d.sid /\ sid) THEN <<>>
                     ELSE IF lined THEN Append(conv, born) ELSE conv)
         /\ told' = told \cap (Held(cm') \cup (IF cm'.withdrawn THEN told ELSE {}))
    BY DEF Crash
<1>2. /\ crashes' = (IF rejected THEN crashes ELSE crashes + 1)
      /\ queue' = <<>> /\ run' = Idle /\ hist' = <<>> /\ turnSeq' = 0
      /\ loaded' = FALSE /\ cleared' = FALSE /\ rejected' = FALSE
      /\ UNCHANGED <<hosted, hostTurn, born, inputs>>
    BY DEF Crash
<1>3. d.asked \in Stored /\ d.sid \in BOOLEAN
    BY <1>0 DEF Asked, OnDisk
<1> DEFINE r == Rehydrated(d.asked)
           t == Adopted(d)
<1>4. Sound(r) /\ Shown(r.m) /\ ~r.m.live
    BY <1>3, RehydratedIs
<1>5. Sound(t) /\ Shown(t.m) /\ ~t.m.live
    <2>1. t = IF d.sid THEN r ELSE DropRehydrated(r)
        BY DEF Adopted
    <2> HIDE DEF r, t
    <2> QED BY <1>4, <2>1, DropRehydratedIs
<1>6. Asked' /\ ~cm'.live
    <2> HIDE DEF t
    <2>1. Moves(t, d.sid)
        BY <1>1 DEF t
    <2>2. Asked' /\ cm' = t.m
        BY <1>3, <1>5, <2>1, MovesAsked
    <2> QED BY <1>5, <2>2
<1>7. conv' \in Seq(Nat)
    <2>1. conv \in Seq(Nat) /\ born \in Nat /\ <<>> \in Seq(Nat)
        BY <1>0, EmptySeq DEF RestOK
    <2>2. Append(conv, born) \in Seq(Nat)
        BY <2>1, AppendProperties
    <2> QED BY <1>1, <2>1, <2>2
<1>8. RestOK'
    <2>1. /\ queue' \in Seq(Item) /\ hist' \in Seq([turn : Nat, lined : BOOLEAN])
        BY <1>2, EmptySeq
    <2>2. run' \in [turn : BOOLEAN, kind : Kinds, grants : SUBSET Calls, stop : BOOLEAN]
        BY <1>2 DEF Idle, Kinds
    <2>3. told' \in SUBSET Calls /\ crashes' \in Nat /\ sid' \in BOOLEAN
        BY <1>0, <1>1, <1>2, <1>3 DEF RestOK
    <2> QED BY <1>0, <1>2, <1>7, <2>1, <2>2, <2>3 DEF RestOK
<1>9. NoCallForgotten'
    BY <1>1 DEF NoCallForgotten, Promised, Held, StagedCalls
<1>10. BlockedInTurn' /\ ClearsAreSilent'
    BY <1>2, <1>6 DEF BlockedInTurn, ClearsAreSilent, Silent
<1> QED BY <1>6, <1>8, <1>9, <1>10 DEF IInv

-----------------------------------------------------------------------------
LEMMA InitIInv == Init => IInv
<1> SUFFICES ASSUME Init PROVE IInv
    OBVIOUS
<1>1. Asked
    <2>1. NothingStored \in Stored /\ NothingAsked \in Machine /\ Shown(NothingAsked)
        BY DEF NothingStored, Stored, NothingAsked, Machine, Shown, Screened
    <2>2. disk \in OnDisk /\ disk.asked = NothingStored
        BY <2>1 DEF Init, Record, OnDisk
    <2> QED BY <2>1, <2>2 DEF Init, Asked, DiskTellsAll, NothingStored, NothingAsked
<1>2. RestOK
    <2>1. <<>> \in Seq(Item) /\ <<>> \in Seq([turn : Nat, lined : BOOLEAN]) /\ <<>> \in Seq(Nat)
        BY EmptySeq
    <2> QED BY <2>1 DEF Init, RestOK, Idle, Kinds
<1>3. BlockedInTurn /\ ClearsAreSilent /\ NoCallForgotten
    BY DEF Init, BlockedInTurn, ClearsAreSilent, Silent, NoCallForgotten, NothingAsked
<1> QED BY <1>1, <1>2, <1>3 DEF IInv

LEMMA StutterStep ==
    ASSUME IInv, UNCHANGED vars
    PROVE  IInv'
<1>1. RestOK'
    BY DEF IInv, RestOK, vars
<1>2. Asked'
    BY DEF IInv, Asked, Shown, Screened, DiskTellsAll, vars
<1>3. BlockedInTurn' /\ ClearsAreSilent'
    BY DEF IInv, BlockedInTurn, ClearsAreSilent, Silent, vars
<1>4. NoCallForgotten'
    BY DEF IInv, NoCallForgotten, Promised, ToldBy, Held, StagedCalls, vars
<1> QED BY <1>1, <1>2, <1>3, <1>4 DEF IInv

\* One case per action.
LEMMA NextIInv == IInv /\ [Next]_vars => IInv'
<1> SUFFICES ASSUME IInv, [Next]_vars PROVE IInv'
    OBVIOUS
<1>1. CASE Person
    <2>1. CASE \E k \in DOMAIN hist : EditMessage(k)
        BY <2>1, EditMessageStep
    <2>2. CASE \E yes \in SUBSET cm.card : AnswerCard(yes)
        BY <2>2, AnswerCardStep
    <2> QED
        BY <1>1, <2>1, <2>2, SubmitTurnStep, StopTurnStep, ClearConversationStep,
           AddClientStep, AnswerChoiceStep, AnswerBlockedStep DEF Person
<1>2. CASE Relay
    BY <1>2, SubmitOtherStep, DiscardQueuedTurnsStep, FollowTurnInFlightStep, SkipStep,
       StartTurnStep, RunClearStep, EditFailsStep, PerformEditStep DEF Relay
<1>3. CASE Asks
    BY <1>3, AskDeferredStep, AskBlockingStep, PresentChoiceStep DEF Asks
<1>4. CASE Ends
    BY <1>4, EndTurnStep, EndStoppedStep, EndFailedStep DEF Ends
<1>5. CASE HostTurnEnds \/ Crash
    BY <1>5, HostTurnEndsStep, CrashStep
<1>6. CASE UNCHANGED vars
    BY <1>6, StutterStep
<1> QED BY <1>1, <1>2, <1>3, <1>4, <1>5, <1>6 DEF Next

LEMMA SpecIInv == Spec => []IInv
BY InitIInv, NextIInv, PTL DEF Spec

\* Whatever is done to a session, in whatever order, and wherever its relay
\* dies, its queue, its turn, its machine and its record are of their types.
THEOREM SessionIsTyped == Spec => []TypeOK
<1>1. IInv => TypeOK
    BY DEF IInv, RestOK, Asked, Machine, OnDisk, Stored, TypeOK
<1> QED BY <1>1, SpecIInv, PTL

\* The record of a session (setChoice of SharedSession) always says what its
\* choice machine holds, so that a relay started from it asks the same.
THEOREM RecordTellsAll == Spec => []DiskTellsAll
<1>1. IInv => DiskTellsAll
    BY DEF IInv, Asked
<1> QED BY <1>1, SpecIInv, PTL

\* What waits for the person is on screen, and a card with the calls it was
\* shown with (publishNext): nothing waits behind an empty screen.
THEOREM WaitingStaysShown == Spec => []WaitingIsShown
<1>1. IInv => WaitingIsShown
    BY DEF IInv, Asked, Shown, Screened, BlockedInTurn, WaitingIsShown
<1> QED BY <1>1, SpecIInv, PTL

\* A call the model was told to wait on (checkPermission) stays with the
\* person, or word of it is on its way to the model.
THEOREM CallsAreRemembered == Spec => []NoCallForgotten
<1>1. IInv => NoCallForgotten
    BY DEF IInv
<1> QED BY <1>1, SpecIInv, PTL

-----------------------------------------------------------------------------
(***************************************************************************)
(* The conversation shown and the one the agent resumes.  A turn shown may *)
(* have no line in the transcript (`lined`), and an edit cuts both at the  *)
(* place the person saw: past the first turn without a line nothing can be *)
(* said, so that they agree up to there, and in length if there is none.   *)
(***************************************************************************)
AllLined(h, k) == \A i \in 1..k : h[i].lined

\* The first n turns of h are those of c, up to the first without a line.
Agrees(h, n, c) ==
    \A k \in 0..n :
        AllLined(h, k) => /\ k <= Len(c)
                          /\ \A i \in 1..k : c[i] = h[i].turn
                          /\ k = n => Len(c) = k

\* With no conversation to resume there is no transcript; the turn in flight
\* is the last shown, and has no line yet.
Remembered ==
    /\ ~sid => conv = <<>>
    /\ run.turn => ~rejected
    /\ ~rejected /\ ~run.turn => NeedsHistoryLoad(hist, sid) \/ Agrees(hist, Len(hist), conv)
    /\ run.turn => /\ hist # <<>>
                   /\ hist[Len(hist)] = [turn |-> born, lined |-> FALSE]
                   /\ Agrees(hist, Len(hist) - 1, conv)

LEMMA NothingAgrees == Agrees(<<>>, Len(<<>>), <<>>)
BY DEF Agrees

LEMMA SameLined ==
    ASSUME NEW h, NEW g, NEW n \in Nat, \A i \in 1..n : g[i] = h[i]
    PROVE  \A k \in 0..n : AllLined(g, k) <=> AllLined(h, k)
BY DEF AllLined

\* A turn is shown.
LEMMA AgreesStarted ==
    ASSUME NEW h \in Seq(ShownTurn), NEW c \in Seq(Nat), Agrees(h, Len(h), c),
           NEW t \in ShownTurn, NEW g, g = Append(h, t)
    PROVE  /\ g # <<>> /\ g[Len(g)] = t /\ Agrees(g, Len(g) - 1, c)
<1>1. /\ Len(g) = Len(h) + 1 /\ Len(h) \in Nat
      /\ \A i \in 1..Len(h) : g[i] = h[i]
      /\ g[Len(h) + 1] = t
    OBVIOUS
<1>2. \A k \in 0..Len(h) : AllLined(g, k) <=> AllLined(h, k)
    BY <1>1 DEF AllLined
<1>3. Agrees(g, Len(h), c)
    BY <1>1, <1>2 DEF Agrees
<1> QED BY <1>1, <1>3

\* The turn in flight has its line, or will have none.
LEMMA AgreesLined ==
    ASSUME NEW h \in Seq(ShownTurn), NEW c \in Seq(Nat), NEW b \in Nat, h # <<>>,
           h[Len(h)].turn = b, Agrees(h, Len(h) - 1, c),
           NEW g \in Seq(ShownTurn), Len(g) = Len(h),
           \A i \in 1..(Len(h) - 1) : g[i] = h[i],
           g[Len(h)] = [h[Len(h)] EXCEPT !.lined = TRUE]
    PROVE  Agrees(g, Len(g), Append(c, b))
<1> DEFINE n == Len(h) - 1
           d == Append(c, b)
<1>1. /\ n \in Nat /\ Len(h) = n + 1 /\ Len(c) \in Nat
      /\ Len(d) = Len(c) + 1 /\ \A i \in 1..Len(c) : d[i] = c[i]
      /\ d[Len(c) + 1] = b
    OBVIOUS
<1>2. g[n + 1].turn = b
    <2>1. h[Len(h)] \in ShownTurn
        BY <1>1
    <2> QED BY <1>1, <2>1 DEF ShownTurn
<1>3. \A k \in 0..n : AllLined(g, k) <=> AllLined(h, k)
    <2>1. \A i \in 1..n : g[i] = h[i]
        OBVIOUS
    <2> HIDE DEF n, d
    <2> QED BY <1>1, <2>1, SameLined
<1> HIDE DEF n, d
<1>4. ASSUME NEW k \in 0..(n + 1), AllLined(g, k)
      PROVE  /\ k <= Len(d) /\ \A i \in 1..k : d[i] = g[i].turn
             /\ k = n + 1 => Len(d) = k
    <2>1. CASE k <= n
        <3>1. k <= Len(c) /\ \A i \in 1..k : c[i] = h[i].turn
            BY <1>1, <1>3, <1>4, <2>1 DEF Agrees, n
        <3>2. \A i \in 1..k : d[i] = g[i].turn
            <4> SUFFICES ASSUME NEW i \in 1..k PROVE d[i] = g[i].turn
                OBVIOUS
            <4>1. i \in 1..n /\ i \in 1..Len(c)
                BY <1>1, <2>1, <3>1
            <4>2. g[i] = h[i]
                BY <4>1 DEF n
            <4> QED BY <1>1, <3>1, <4>1, <4>2
        <3> QED BY <1>1, <2>1, <3>1, <3>2
    <2>2. CASE k = n + 1
        <3>1. AllLined(g, n)
            BY <1>1, <1>4, <2>2 DEF AllLined
        <3>2. Len(c) = n /\ \A i \in 1..n : c[i] = h[i].turn
            BY <1>1, <1>3, <3>1 DEF Agrees, n
        <3>3. \A i \in 1..n : d[i] = g[i].turn
            <4>1. \A i \in 1..n : g[i] = h[i]
                BY DEF n
            <4> QED BY <1>1, <3>2, <4>1
        <3> QED BY <1>1, <1>2, <2>2, <3>2, <3>3
    <2> QED BY <1>1, <1>4, <2>1, <2>2
<1> QED BY <1>1, <1>4 DEF Agrees

LEMMA AgreesUnlined ==
    ASSUME NEW h \in Seq(ShownTurn), NEW c \in Seq(Nat), h # <<>>,
           Agrees(h, Len(h) - 1, c),
           NEW g \in Seq(ShownTurn), Len(g) = Len(h),
           \A i \in 1..(Len(h) - 1) : g[i] = h[i], ~g[Len(h)].lined
    PROVE  Agrees(g, Len(g), c)
<1> DEFINE n == Len(h) - 1
<1>1. n \in Nat /\ Len(h) = n + 1
    OBVIOUS
<1>2. \A k \in 0..n : AllLined(g, k) <=> AllLined(h, k)
    <2>1. \A i \in 1..n : g[i] = h[i]
        OBVIOUS
    <2> HIDE DEF n
    <2> QED BY <1>1, <2>1, SameLined
<1>3. ~AllLined(g, n + 1)
    BY <1>1 DEF AllLined
<1>4. ASSUME NEW k \in 0..(n + 1), AllLined(g, k)
      PROVE  k <= Len(c) /\ (\A i \in 1..k : c[i] = g[i].turn) /\ k # n + 1
    <2>0. \A i \in 1..n : g[i] = h[i]
        OBVIOUS
    <2> HIDE DEF n
    <2>1. k \in 0..n /\ k # n + 1
        BY <1>1, <1>3, <1>4
    <2>2. k <= Len(c) /\ \A i \in 1..k : c[i] = h[i].turn
        BY <1>2, <1>4, <2>1 DEF Agrees, n
    <2>3. \A i \in 1..k : c[i] = g[i].turn
        <3> SUFFICES ASSUME NEW i \in 1..k PROVE c[i] = g[i].turn
            OBVIOUS
        <3>1. i \in 1..n
            BY <1>1, <2>1
        <3> QED BY <2>0, <2>2, <3>1
    <2> QED BY <2>1, <2>2, <2>3
<1> QED BY <1>1, <1>4 DEF Agrees

\* The conversation is gone, and no turn shown has a line.
LEMMA AgreesForgotten ==
    ASSUME NEW h \in Seq(ShownTurn), \A i \in 1..Len(h) : ~h[i].lined
    PROVE  Agrees(h, Len(h), <<>>)
<1>1. Len(h) \in Nat
    OBVIOUS
<1>2. \A k \in 0..Len(h) : AllLined(h, k) => k = 0
    BY <1>1 DEF AllLined
<1> QED BY <1>1, <1>2 DEF Agrees

\* An edit cuts both.
LEMMA AgreesCut ==
    ASSUME NEW h \in Seq(ShownTurn), NEW c \in Seq(Nat), Agrees(h, Len(h), c),
           NEW cut \in Nat, cut <= Len(h),
           NEW d, d = IF cut < Len(c) THEN SubSeq(c, 1, cut) ELSE c
    PROVE  LET g == SubSeq(h, 1, cut) IN Agrees(g, Len(g), d)
<1> DEFINE g == SubSeq(h, 1, cut)
<1>1. /\ Len(h) \in Nat /\ Len(c) \in Nat
      /\ Len(g) = cut /\ \A i \in 1..cut : g[i] = h[i]
    OBVIOUS
<1>2. Len(d) = (IF cut < Len(c) THEN cut ELSE Len(c)) /\ \A i \in 1..Len(d) : d[i] = c[i]
    <2>1. CASE cut < Len(c)
        <3>1. d = SubSeq(c, 1, cut)
            BY <2>1
        <3> QED BY <1>1, <2>1, <3>1
    <2>2. CASE ~(cut < Len(c))
        BY <1>1, <2>2
    <2> QED BY <2>1, <2>2
<1> HIDE DEF g
<1>3. \A k \in 0..cut : AllLined(g, k) <=> AllLined(h, k)
    BY <1>1, SameLined
<1>4. ASSUME NEW k \in 0..cut, AllLined(g, k)
      PROVE  /\ k <= Len(d) /\ \A i \in 1..k : d[i] = g[i].turn
             /\ k = cut => Len(d) = k
    <2>1. k \in 0..Len(h) /\ k <= Len(c) /\ \A i \in 1..k : c[i] = h[i].turn
        BY <1>1, <1>3, <1>4 DEF Agrees
    <2>2. k <= Len(d)
        BY <1>1, <1>2, <2>1
    <2>3. \A i \in 1..k : d[i] = g[i].turn
        BY <1>1, <1>2, <2>1, <2>2
    <2>4. k = cut => Len(d) = k
        BY <1>1, <1>2, <2>1
    <2> QED BY <2>2, <2>3, <2>4
<1>5. Agrees(g, cut, d)
    BY <1>4 DEF Agrees
<1> QED BY <1>1, <1>5 DEF g

\* The transcript is read.
LEMMA AgreesRead ==
    ASSUME RestOK
    PROVE  Agrees(InTranscript, Len(InTranscript), conv)
<1>1. /\ conv \in Seq(Nat) /\ Len(conv) \in Nat /\ Len(InTranscript) = Len(conv)
      /\ \A i \in 1..Len(conv) : InTranscript[i].turn = conv[i]
    BY DEF RestOK, InTranscript, Lined
<1> QED BY <1>1 DEF Agrees

-----------------------------------------------------------------------------
\* Most handlers leave the conversation alone.
LEMMA AloneRemembers ==
    ASSUME Remembered, UNCHANGED conversation, rejected' = rejected, run'.turn = run.turn
    PROVE  Remembered'
BY DEF Remembered, conversation, NeedsHistoryLoad, Agrees, AllLined

LEMMA PersonRemembers ==
    ASSUME IInv, Remembered, Person
    PROVE  Remembered'
<1>1. CASE AddClient
    <2>1. /\ hist = <<>> /\ hist' = InTranscript
          /\ UNCHANGED <<run, conv, sid, born, rejected>>
        BY <1>1 DEF AddClient, NeedsHistoryLoad, outside
    <2>2. Agrees(hist', Len(hist'), conv')
        BY <2>1, AgreesRead DEF IInv
    <2>3. ~run'.turn /\ (~sid' => conv' = <<>>)
        BY <2>1 DEF Remembered
    <2> QED BY <2>2, <2>3 DEF Remembered
<1>2. CASE ~AddClient
    <2>0. run \in [turn : BOOLEAN, kind : Kinds, grants : SUBSET Calls, stop : BOOLEAN]
        BY DEF IInv, RestOK
    <2>1. CASE SubmitTurn \/ ClearConversation \/ AnswerChoice \/ AnswerBlocked
        BY <2>1, AloneRemembers
           DEF SubmitTurn, ClearConversation, AnswerChoice, AnswerBlocked, outside
    <2>2. CASE StopTurn
        <3>1. run' = [run EXCEPT !.stop = run.turn]
            BY <2>2 DEF StopTurn, StopsTurn
        <3>2. run'.turn = run.turn
            BY <2>0, <3>1
        <3> QED BY <2>2, <3>2, AloneRemembers DEF StopTurn, outside
    <2>3. ASSUME NEW k \in DOMAIN hist, EditMessage(k)
          PROVE  Remembered'
        <3>1. run' = [run EXCEPT !.stop = run.turn]
            BY <2>3 DEF EditMessage, StopsTurn
        <3>2. run'.turn = run.turn
            BY <2>0, <3>1
        <3> QED BY <2>3, <3>2, AloneRemembers DEF EditMessage, outside
    <2>4. ASSUME NEW yes \in SUBSET cm.card, AnswerCard(yes)
          PROVE  Remembered'
        BY <2>4, AloneRemembers DEF AnswerCard, outside
    <2> QED BY <1>2, <2>1, <2>2, <2>3, <2>4 DEF Person
<1> QED BY <1>1, <1>2

\* A turn starts on a conversation that agrees, or on the transcript.
LEMMA RunTurnRemembers ==
    ASSUME RestOK, NEW h \in Seq(ShownTurn), NEW q, RunTurn(Head(queue), h, q),
           conv' \in Seq(Nat), ~sid' => conv' = <<>>, ~rejected',
           IF NeedsHistoryLoad(h, sid') THEN conv' = conv ELSE Agrees(h, Len(h), conv')
    PROVE  Remembered'
<1> DEFINE t == [turn |-> born + 1, lined |-> FALSE]
           shown == IF NeedsHistoryLoad(h, sid') THEN InTranscript ELSE h
<1>1. hist' = Append(shown, t) /\ born' = born + 1 /\ run'.turn
    BY DEF RunTurn
<1>2. shown \in Seq(ShownTurn) /\ t \in ShownTurn /\ t = [turn |-> born', lined |-> FALSE]
    BY <1>1, InTranscriptIs DEF RestOK, ShownTurn
<1>3. Agrees(shown, Len(shown), conv')
    BY AgreesRead
<1> HIDE DEF shown, t
<1>4. hist' # <<>> /\ hist'[Len(hist')] = t /\ Agrees(hist', Len(hist') - 1, conv')
    <2>1. PICK c : c = conv'
        OBVIOUS
    <2>2. PICK g : g = hist'
        OBVIOUS
    <2>3. g # <<>> /\ g[Len(g)] = t /\ Agrees(g, Len(g) - 1, c)
        <3>1. PICK w : w = shown
            OBVIOUS
        <3>2. PICK u : u = t
            OBVIOUS
        <3>3. /\ c \in Seq(Nat) /\ g = Append(w, u) /\ Agrees(w, Len(w), c)
              /\ w \in Seq(ShownTurn) /\ u \in ShownTurn
            BY <1>1, <1>2, <1>3, <2>1, <2>2, <3>1, <3>2
        <3>4. g # <<>> /\ g[Len(g)] = u /\ Agrees(g, Len(g) - 1, c)
            BY ONLY <3>3, AgreesStarted
        <3> QED BY <3>2, <3>4
    <2> QED BY <2>1, <2>2, <2>3
<1>5. (Agrees(hist, Len(hist) - 1, conv))'
    BY <1>4
<1> QED BY <1>1, <1>2, <1>4, <1>5 DEF Remembered

LEMMA PerformEditRemembers ==
    ASSUME IInv, IInv', Remembered, PerformEdit
    PROVE  Remembered'
<1>0. /\ RestOK /\ conv' \in Seq(Nat) /\ conv \in Seq(Nat) /\ hist \in Seq(ShownTurn)
      /\ sid \in BOOLEAN
    BY DEF IInv, RestOK, ShownTurn
<1>1. /\ ~run.turn /\ ~rejected /\ queue # <<>>
      /\ conv' = Rewound /\ sid' = (sid /\ CutAt > 0)
    BY DEF PerformEdit, AtEdit, Ready
<1>2. CutAt \in Nat
    <2>1. ClearsAreSilent
        BY DEF IInv
    <2>2. queue' = Tail(queue)
        BY DEF PerformEdit
    <2>3. Head(queue) \in Item
        BY <1>0, <1>1, <2>1, <2>2, TailIs
    <2> QED BY <2>3 DEF CutAt, Item
<1>3. CutAt = 0 => conv' = <<>>
    <2>1. ASSUME CutAt = 0, 0 < Len(conv)
          PROVE  conv' = <<>>
        <3>1. conv' = SubSeq(conv, 1, 0)
            BY <1>1, <2>1 DEF Rewound
        <3>2. SubSeq(conv, 1, 0) = <<>>
            BY <1>0
        <3> QED BY <3>1, <3>2
    <2>2. ASSUME CutAt = 0, ~(0 < Len(conv))
          PROVE  conv' = <<>>
        <3>1. conv' = conv
            BY <1>1, <2>2 DEF Rewound
        <3>2. Len(conv) = 0
            BY <1>0, <2>2
        <3> QED BY <1>0, <3>1, <3>2
    <2> QED BY <2>1, <2>2
<1>4. ~sid' => conv' = <<>>
    <2>1. ~sid => conv' = <<>>
        <3> SUFFICES ASSUME ~sid PROVE conv' = <<>>
            OBVIOUS
        <3>1. conv = <<>> /\ Len(conv) = 0
            BY <1>0 DEF Remembered
        <3>2. ~(CutAt < Len(conv))
            BY <1>2, <3>1
        <3> QED BY <1>1, <3>1, <3>2 DEF Rewound
    <2> QED BY <1>0, <1>1, <1>2, <1>3, <2>1
<1>5. CASE CutAt <= Len(hist)
    <2> DEFINE h == SubSeq(hist, 1, CutAt)
    <2>1. RunTurn(Head(queue), h, queue') /\ ~rejected'
        BY <1>1, <1>5 DEF PerformEdit
    <2>2. h \in Seq(ShownTurn) /\ Len(h) = CutAt
        BY <1>0, <1>2, <1>5
    <2>3. ~NeedsHistoryLoad(h, sid')
        <3>1. CASE CutAt = 0
            <4>1. ~(CutAt > 0)
                BY <3>1
            <4>2. ~sid'
                BY <1>1, <4>1, Zenon
            <4> QED BY <4>2 DEF NeedsHistoryLoad
        <3>2. CASE CutAt # 0
            <4> HIDE DEF h
            <4>1. h # <<>>
                BY <2>2, <3>2
            <4> QED BY <4>1 DEF NeedsHistoryLoad
        <3> QED BY <3>1, <3>2
    <2>4. Agrees(h, Len(h), conv')
        <3>1. CASE NeedsHistoryLoad(hist, sid)
            <4>1. hist = <<>> /\ Len(hist) = 0 /\ CutAt = 0
                BY <1>0, <1>2, <1>5, <3>1 DEF NeedsHistoryLoad
            <4>2. h = <<>> /\ conv' = <<>>
                BY <1>3, <2>2, <4>1
            <4> QED BY <4>2, NothingAgrees
        <3>2. CASE ~NeedsHistoryLoad(hist, sid)
            <4>1. Agrees(hist, Len(hist), conv)
                BY <1>1, <3>2 DEF Remembered
            <4>2. conv' = IF CutAt < Len(conv) THEN SubSeq(conv, 1, CutAt) ELSE conv
                BY <1>1 DEF Rewound
            <4> QED BY <1>0, <1>2, <1>5, <4>1, <4>2, AgreesCut
        <3> QED BY <3>1, <3>2
    <2> HIDE DEF h
    <2> QED BY <1>0, <1>4, <2>1, <2>2, <2>3, <2>4, RunTurnRemembers
<1>6. CASE ~(CutAt <= Len(hist))
    <2>1. rejected' /\ run' = run
        BY <1>6 DEF PerformEdit
    <2> QED BY <1>1, <1>4, <2>1 DEF Remembered
<1> QED BY <1>5, <1>6

LEMMA RelayRemembers ==
    ASSUME IInv, IInv', Remembered, Relay
    PROVE  Remembered'
<1>0. run \in [turn : BOOLEAN, kind : Kinds, grants : SUBSET Calls, stop : BOOLEAN]
    BY DEF IInv, RestOK
<1>1. CASE SubmitOther \/ Skip \/ EditFails
    BY <1>1, AloneRemembers DEF SubmitOther, Skip, EditFails, outside
<1>5. CASE FollowTurnInFlight
    <2>1. UNCHANGED <<run, hist, conv, loaded, cleared, born, rejected>> /\ (sid' = sid \/ sid')
        BY <1>5 DEF FollowTurnInFlight, outside
    <2> QED BY <2>1 DEF Remembered, NeedsHistoryLoad, Agrees, AllLined
<1>2. CASE DiscardQueuedTurns
    <2>1. run' = [run EXCEPT !.stop = run.turn]
        BY <1>2 DEF DiscardQueuedTurns, StopsTurn
    <2>2. run'.turn = run.turn
        BY <1>0, <2>1
    <2> QED BY <1>2, <2>2, AloneRemembers DEF DiscardQueuedTurns, outside
<1>3. CASE StartTurn
    <2>1. /\ RunTurn(Head(queue), hist, queue') /\ ~run.turn /\ ~rejected /\ ~rejected'
          /\ conv' = conv /\ sid' = sid /\ cleared' = cleared
        BY <1>3 DEF StartTurn, Ready
    <2>2. RestOK /\ hist \in Seq(ShownTurn) /\ conv' \in Seq(Nat)
        BY DEF IInv, RestOK, ShownTurn
    <2>3. ~sid' => conv' = <<>>
        BY <2>1 DEF Remembered
    <2>4. NeedsHistoryLoad(hist, sid') \/ Agrees(hist, Len(hist), conv')
        BY <2>1 DEF Remembered
    <2> QED BY <2>1, <2>2, <2>3, <2>4, RunTurnRemembers
<1>4. CASE RunClear
    <2>1. /\ hist' = <<>> /\ conv' = <<>> /\ ~sid' /\ ~run'.turn
        BY <1>4 DEF RunClear, Ready
    <2>2. (Agrees(hist, Len(hist), conv))'
        BY <2>1, NothingAgrees
    <2> QED BY <2>1, <2>2 DEF Remembered
<1> QED BY <1>1, <1>2, <1>3, <1>4, <1>5, PerformEditRemembers DEF Relay

LEMMA AsksRemember ==
    ASSUME Remembered, Asks
    PROVE  Remembered'
<1>1. ASSUME NEW call \in Calls, AskDeferred(call)
      PROVE  Remembered'
    BY <1>1, AloneRemembers DEF AskDeferred, outside
<1>2. CASE AskBlocking \/ PresentChoice
    BY <1>2, AloneRemembers DEF AskBlocking, PresentChoice, outside
<1> QED BY <1>1, <1>2 DEF Asks

\* The turn in flight ends, with a line or without, or takes the whole
\* conversation with it.
LEMMA SettleRemembers ==
    ASSUME IInv, IInv', Remembered, run.turn,
           NEW kept \in BOOLEAN, NEW lined \in BOOLEAN, Settle(kept, lined), TurnOver
    PROVE  Remembered'
<1> DEFINE n == Len(hist)
<1>0. /\ hist \in Seq(ShownTurn) /\ conv \in Seq(Nat) /\ born \in Nat
      /\ hist' \in Seq(ShownTurn) /\ n \in Nat
    BY DEF IInv, RestOK, ShownTurn
<1>1. /\ hist # <<>> /\ hist[n] = [turn |-> born, lined |-> FALSE] /\ Agrees(hist, n - 1, conv)
      /\ n # 0
    BY <1>0 DEF Remembered
<1>2. /\ sid' = kept
      /\ conv' = (IF ~kept THEN <<>> ELSE IF lined THEN Append(conv, born) ELSE conv)
      /\ hist' = [i \in 1..n |->
                    IF ~kept THEN [hist[i] EXCEPT !.lined = FALSE]
                    ELSE IF i = n THEN [hist[i] EXCEPT !.lined = lined]
                    ELSE hist[i]]
      /\ ~run'.turn /\ rejected' = rejected
    BY <1>0 DEF Settle, TurnOver, Idle
<1>3. Len(hist') = n
    BY <1>0, <1>2
<1>4. \A i \in 1..n : hist[i] \in ShownTurn
    BY <1>0
<1> HIDE DEF n
<1>5. Agrees(hist', Len(hist'), conv')
    <2>1. CASE ~kept
        <3>1. \A i \in 1..n : ~hist'[i].lined
            BY <1>2, <1>4, <2>1 DEF ShownTurn
        <3>2. conv' = <<>>
            BY <1>2, <2>1
        <3> QED BY <1>0, <1>3, <3>1, <3>2, AgreesForgotten
    <2>2. CASE kept
        <3>1. /\ \A i \in 1..(n - 1) : hist'[i] = hist[i]
              /\ hist'[n] = [hist[n] EXCEPT !.lined = lined]
            BY <1>0, <1>1, <1>2, <2>2
        <3>2. CASE lined
            <4>1. conv' = Append(conv, born) /\ hist'[n] = [hist[n] EXCEPT !.lined = TRUE]
                  /\ hist[n].turn = born
                BY <1>1, <1>2, <2>2, <3>1, <3>2
            <4> QED BY <1>0, <1>1, <1>3, <3>1, <4>1, AgreesLined DEF n
        <3>3. CASE ~lined
            <4>1. conv' = conv /\ ~hist'[n].lined
                BY <1>1, <1>2, <2>2, <3>1, <3>3
            <4> QED BY <1>0, <1>1, <1>3, <3>1, <4>1, AgreesUnlined DEF n
        <3> QED BY <3>2, <3>3
    <2> QED BY <2>1, <2>2
<1>6. ~sid' => conv' = <<>>
    BY <1>2
<1> QED BY <1>2, <1>5, <1>6 DEF Remembered

LEMMA EndsRemember ==
    ASSUME IInv, IInv', Remembered, Ends
    PROVE  Remembered'
<1>0. sid \in BOOLEAN
    BY DEF IInv, RestOK
<1>1. ASSUME NEW marker \in BOOLEAN, EndTurn(marker)
      PROVE  Remembered'
    <2> DEFINE lined == run.kind # "follow"
    <2>1. run.turn /\ Settle(TRUE, lined) /\ TurnOver /\ lined \in BOOLEAN
        BY <1>1 DEF EndTurn
    <2> HIDE DEF lined
    <2> QED BY <2>1, SettleRemembers
<1>2. ASSUME NEW lined \in BOOLEAN, EndStopped(lined)
      PROVE  Remembered'
    <2> DEFINE kept == sid \/ lined
    <2>1. run.turn /\ Settle(kept, lined) /\ TurnOver /\ kept \in BOOLEAN
        BY <1>0, <1>2 DEF EndStopped
    <2> HIDE DEF kept
    <2> QED BY <2>1, SettleRemembers
<1>3. ASSUME NEW kept \in BOOLEAN, NEW lined \in BOOLEAN, EndFailed(kept, lined)
      PROVE  Remembered'
    BY <1>3, SettleRemembers DEF EndFailed
<1> QED BY <1>1, <1>2, <1>3 DEF Ends

LEMMA CrashRemembers ==
    ASSUME Remembered, Crash
    PROVE  Remembered'
<1>1. PICK d \in trail, lined \in BOOLEAN :
         /\ sid' = d.sid
         /\ conv' = (IF ~(d.sid /\ sid) THEN <<>>
                     ELSE IF lined THEN Append(conv, born) ELSE conv)
    BY DEF Crash
<1>2. hist' = <<>> /\ ~run'.turn /\ ~loaded' /\ ~cleared'
    BY DEF Crash, Idle
<1>3. ~sid' => conv' = <<>>
    BY <1>1
<1>4. (NeedsHistoryLoad(hist, sid) \/ Agrees(hist, Len(hist), conv))'
    <2>1. CASE sid'
        BY <1>2, <2>1 DEF NeedsHistoryLoad
    <2>2. CASE ~sid'
        BY <1>2, <1>3, <2>2, NothingAgrees
    <2> QED BY <2>1, <2>2
<1> QED BY <1>2, <1>3, <1>4 DEF Remembered

LEMMA InitRemembered == Init => Remembered
BY NothingAgrees DEF Init, Idle, Remembered

LEMMA NextRemembers == IInv /\ IInv' /\ Remembered /\ [Next]_vars => Remembered'
<1> SUFFICES ASSUME IInv, IInv', Remembered, [Next]_vars PROVE Remembered'
    OBVIOUS
<1>1. CASE HostTurnEnds
    BY <1>1, AloneRemembers DEF HostTurnEnds
<1>2. CASE UNCHANGED vars
    BY <1>2, AloneRemembers DEF vars, conversation
<1> QED BY <1>1, <1>2, PersonRemembers, RelayRemembers, AsksRemember, EndsRemember,
           CrashRemembers DEF Next

\* Between turns the agent resumes the conversation that is shown, turn for
\* turn (historyLoad, editMessage's cut of the history and of the transcript,
\* clearConversation and the restart of a relay), unless a turn is shown that
\* the transcript never had.
THEOREM AgentRemembersWhatIsShown == Spec => []ShownIsRemembered
<1>1. Init => Remembered
    BY InitRemembered
<1>2. IInv /\ IInv' /\ Remembered /\ [Next]_vars => Remembered'
    BY NextRemembers
<1>3. ASSUME IInv, Remembered
      PROVE  ShownIsRemembered
    <2> SUFFICES ASSUME ~run.turn, ~rejected, ~NeedsHistoryLoad(hist, sid),
                        \A i \in DOMAIN hist : hist[i].lined
                 PROVE  conv = [i \in DOMAIN hist |-> hist[i].turn]
        BY DEF ShownIsRemembered
    <2>1. conv \in Seq(Nat) /\ hist \in Seq(ShownTurn)
        BY <1>3 DEF IInv, RestOK, ShownTurn
    <2>2. Len(hist) \in Nat /\ DOMAIN hist = 1..Len(hist) /\ AllLined(hist, Len(hist))
        BY <2>1 DEF AllLined
    <2>3. Agrees(hist, Len(hist), conv)
        BY <1>3 DEF Remembered
    <2>4. Len(conv) = Len(hist) /\ \A i \in 1..Len(hist) : conv[i] = hist[i].turn
        <3>1. Len(hist) \in 0..Len(hist)
            BY <2>2
        <3> QED BY <2>2, <2>3, <3>1, Zenon DEF Agrees
    <2>5. conv = [i \in 1..Len(conv) |-> conv[i]]
        BY <2>1
    <2> QED BY <2>2, <2>4, <2>5
<1>4. IInv /\ Remembered => ShownIsRemembered
    BY <1>3
<1> QED BY <1>1, <1>2, <1>4, SpecIInv, PTL DEF Spec

=============================================================================
