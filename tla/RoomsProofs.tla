---------------------------- MODULE RoomsProofs ----------------------------
(***************************************************************************)
(* Theorems about Rooms, for every set of workers and every bound: its     *)
(* four safety properties, from one inductive invariant.                   *)
(*                                                                         *)
(* The handlers are functions of a state, so the invariant is a predicate  *)
(* of a state too (Good), and the proof goes handler by handler: a lemma   *)
(* says of each part (Submit, Pump, RecordReport, HandOff, MarkStopped...) *)
(* what it leaves as it was and what of the invariant it keeps or          *)
(* restores; a step composes those lemmas, and BecomeGood ends it.         *)
(***************************************************************************)
EXTENDS Rooms, TLAPS, SequenceTheorems

-----------------------------------------------------------------------------
(* The states in full: the type of every field the handlers compute with.  *)

Lives  == {"unborn", "member", "gone"}
Stops  == {"no", "stopped", "removed"}
Phases == {"no", "listing", "stopping"}
Fates  == {"new", "queued", "taken", "refused", "dropped"}

Tolds    == UNION {[D -> Nat] : D \in SUBSET Workers}
TurnSet  == [kind : Kinds, msg : 0..MaxMessages, told : Tolds, since : Nat, taken : BOOLEAN, stop : BOOLEAN,
             left : BOOLEAN]
Reports  == [at : Nat, urgent : BOOLEAN, synthetic : BOOLEAN]
Agents   == [life : Lives, parent : Members \cup {NoOne}, stopped : Stops, queue : Seq(0..MaxMessages),
             report : Reports, outbox : SUBSET Workers]
Sendings == [on : BOOLEAN, msg : 0..MaxMessages, delivered : BOOLEAN]
Removals == [phase : Phases, ids : SUBSET Workers]
RoomSet  == [Members -> Agents]
RelaySet == [up : BOOLEAN, reconciling : BOOLEAN, cur : [Members -> TurnSet], turns : [Members -> Seq(TurnSet)],
             sending : [Members -> Sendings], digests : SUBSET Members, failed : SUBSET Members,
             timers : SUBSET Members, purges : SUBSET Workers, rejected : SUBSET Members,
             removals : [Members -> Removals]]
HistSet  == [sent : 0..MaxMessages, reports : Nat, asked : Nat, faults : Nat, told : [Workers -> Nat],
             fate : [Messages -> Fates], own : SUBSET (Messages \X {"taken", "refused"}),
             late : SUBSET Messages]
States   == [room : RoomSet, relay : RelaySet, hist : HistSet]

-----------------------------------------------------------------------------
(* Who is above whom.  Above(z, x) is the least set that has the parents   *)
(* of x and of its own members, so a proof that somebody is in it takes a  *)
(* set closed under parents (AboveAll), and one that somebody is not shows *)
(* one without them (AboveIn); no induction over the tree is needed.       *)

Closed(z, x, S) == \A s \in S \cup {x} : z.room[s].parent \in S \cup {NoOne}

LEMMA AboveIn ==
  ASSUME NEW z, NEW x, NEW y \in Above(z, x), NEW S \in SUBSET Members, Closed(z, x, S)
  PROVE  y \in S
<1>1. SUFFICES ASSUME y \notin S PROVE FALSE
  OBVIOUS
<1>2. S \in SUBSET (Members \ {y})
  BY <1>1
<1> QED BY <1>2 DEF Above, Closed

LEMMA AboveAll ==
  ASSUME NEW z, NEW x, NEW y \in Members,
         \A S \in SUBSET Members : Closed(z, x, S) => y \in S
  PROVE  y \in Above(z, x)
<1>1. SUFFICES ASSUME NEW S \in SUBSET (Members \ {y}), Closed(z, x, S) PROVE FALSE
  BY DEF Above, Closed
<1> QED BY <1>1

LEMMA AboveMembers ==
  ASSUME NEW z, NEW x PROVE Above(z, x) \subseteq Members
BY DEF Above

LEMMA ParentAbove ==
  ASSUME NEW z, NEW x, z.room[x].parent \in Members
  PROVE  z.room[x].parent \in Above(z, x)
<1>1. NoOne \notin Members
  BY MembersAssumption DEF Members
<1> QED BY <1>1, AboveAll DEF Closed

LEMMA AboveTrans ==
  ASSUME NEW z, NEW x, NEW y \in Above(z, x), NEW v \in Above(z, y)
  PROVE  v \in Above(z, x)
<1>1. SUFFICES ASSUME NEW S \in SUBSET Members, Closed(z, x, S) PROVE v \in S
  BY AboveAll, AboveMembers
<1>2. y \in S
  BY <1>1, AboveIn
<1>3. Closed(z, y, S)
  BY <1>1, <1>2 DEF Closed
<1> QED BY <1>3, AboveIn

LEMMA AboveSplit ==
  ASSUME NEW z, NEW x, NEW p \in Members, z.room[x].parent = p,
         \A s \in Members : z.room[s].parent \in Members \cup {NoOne},
         NEW y \in Above(z, x)
  PROVE  y = p \/ y \in Above(z, p)
<1> DEFINE S == {p} \cup Above(z, p)
<1>1. S \in SUBSET Members
  BY AboveMembers
<1>2. ASSUME NEW s \in S \cup {x} PROVE z.room[s].parent \in S \cup {NoOne}
  <2>1. CASE s = x
    BY <2>1
  <2>2. CASE s = p
    BY <2>2, ParentAbove
  <2>3. CASE s \in Above(z, p)
    BY <1>1, <2>3, ParentAbove, AboveTrans
  <2> QED BY <1>2, <2>1, <2>2, <2>3
<1>3. Closed(z, x, S)
  BY <1>2 DEF Closed
<1> QED BY <1>1, <1>3, AboveIn

LEMMA AboveSame ==
  ASSUME NEW z, NEW y, \A s \in Members : y.room[s].parent = z.room[s].parent,
         NEW x \in Members
  PROVE  Above(y, x) = Above(z, x)
<1>1. \A S \in SUBSET Members : Closed(y, x, S) <=> Closed(z, x, S)
  BY DEF Closed
<1>2. ASSUME NEW v \in Above(y, x) PROVE v \in Above(z, x)
  BY <1>1, <1>2, AboveIn, AboveAll, AboveMembers
<1>3. ASSUME NEW v \in Above(z, x) PROVE v \in Above(y, x)
  BY <1>1, <1>3, AboveIn, AboveAll, AboveMembers
<1> QED BY <1>2, <1>3

(* The principal is above every worker that was ever started, nobody is    *)
(* above it, and it is always live; a worker not started yet has left no   *)
(* trace.                                                                  *)
Tree(z) ==
  /\ z.room[Principal].life = "member" /\ z.room[Principal].stopped = "no"
  /\ z.room[Principal].parent = NoOne
  /\ \A w \in Workers : z.room[w].life = "unborn" => z.room[w].parent = NoOne /\ z.room[w].report.at = 0 /\ z.room[w].stopped = "no"
  /\ \A w \in Workers : z.room[w].life # "unborn" => Principal \in Above(z, w)

LEMMA NobodyAbovePrincipal ==
  ASSUME NEW z, Tree(z)
  PROVE  Above(z, Principal) = {}
<1>1. Closed(z, Principal, {})
  BY DEF Closed, Tree
<1> QED BY <1>1, AboveIn

(* liveAncestorId finds an agent: were none the closest, each agent above  *)
(* would have every live one above itself, and so would the principal.     *)
LEMMA LiveAncestorIs ==
  ASSUME NEW z \in States, Tree(z), NEW w \in Workers, z.room[w].life # "unborn"
  PROVE  LiveAncestor(z, w) \in Above(z, w) /\ Live(z, LiveAncestor(z, w))
<1> DEFINE live == {a \in Above(z, w) : Live(z, a)}
           S == {y \in Above(z, w) : live \subseteq Above(z, y)}
<1>1. Principal \in live
  BY DEF Tree, Live, IsMember
<1>2. \A s \in Members : z.room[s].parent \in Members \cup {NoOne}
  BY DEF States, RoomSet, Agents
<1>3. SUFFICES \E a \in live : live \ {a} \subseteq Above(z, a)
  BY <1>1 DEF LiveAncestor
<1>4. SUFFICES ASSUME \A a \in live : ~(live \ {a} \subseteq Above(z, a)) PROVE FALSE
  OBVIOUS
<1>5. S \in SUBSET Members
  BY AboveMembers
<1>6. ASSUME NEW s \in S \cup {w} PROVE z.room[s].parent \in S \cup {NoOne}
  <2> DEFINE p == z.room[s].parent
  <2>1. live \subseteq Above(z, s) /\ Above(z, s) \subseteq Above(z, w) /\ s \in Members
    BY <1>6, AboveMembers, AboveTrans DEF Members
  <2>2. p = NoOne \/ p \in Members
    BY <1>2, <2>1
  <2>3. SUFFICES ASSUME p \in Members PROVE p \in S
    BY <2>2
  <2>4. p \in Above(z, w)
    BY <2>1, <2>3, ParentAbove
  <2>5. live \ {p} \subseteq Above(z, p)
    BY <1>2, <2>1, <2>3, AboveSplit
  <2>6. p \notin live
    BY <1>4, <2>5
  <2> QED BY <2>4, <2>5, <2>6
<1>7. Closed(z, w, S)
  BY <1>6 DEF Closed
<1>8. Principal \in S
  BY <1>1, <1>5, <1>7, AboveIn
<1> QED BY <1>1, <1>8, NobodyAbovePrincipal

-----------------------------------------------------------------------------
(* The inductive invariant, of the state a handler is in.                  *)

(* Those of X that have reports waiting are live. *)
Readers(z, X) == \A x \in X : z.room[x].outbox # {} => Live(z, x)

(* NoReportLost, of a removed worker's report too: one below a removed     *)
(* agent may come back with it.                                            *)
Kept(z) ==
  \A w \in Workers : IsMember(z, w) /\ z.room[w].report.at > z.hist.told[w] =>
    \E x \in Above(z, w) : w \in z.room[x].outbox

(* A message waits in one place of one queue, exactly while its fate says  *)
(* so; one that was not sent yet has no fate; one that was taken or        *)
(* refused left its queue for its own turn; none was sent too late.        *)
Queues(z) ==
  /\ \A m \in Messages : z.hist.fate[m] = "queued" <=> \E x \in Workers : m \in Range(z.room[x].queue)
  /\ \A x, y \in Workers : \A i \in DOMAIN z.room[x].queue, j \in DOMAIN z.room[y].queue :
       z.room[x].queue[i] = z.room[y].queue[j] /\ z.room[x].queue[i] # Reminder => x = y /\ i = j
  /\ \A m \in Messages : m > z.hist.sent => z.hist.fate[m] = "new"
  /\ \A m \in Messages : z.hist.fate[m] \in {"taken", "refused"} => <<m, z.hist.fate[m]>> \in z.hist.own
  /\ z.hist.late = {}

(* The turns of messages: such a turn is first in line behind an idle      *)
(* session or in it, it is a worker's, and until the host takes it or it   *)
(* is told to stop, its message is still the head of the queue.            *)
HeadIs(z, x, m) == x \in Workers /\ z.room[x].queue # <<>> /\ Head(z.room[x].queue) = m

Heads(z) ==
  \A x \in Members :
    /\ \A i \in DOMAIN z.relay.turns[x] :
         /\ z.relay.turns[x][i].kind # "none"
         /\ z.relay.turns[x][i].kind = "message" =>
              i = 1 /\ z.relay.cur[x] = NoTurn /\ HeadIs(z, x, z.relay.turns[x][i].msg)
    /\ z.relay.cur[x].kind = "message" => x \in Workers
    /\ z.relay.cur[x].kind = "message" /\ ~z.relay.cur[x].taken /\ ~z.relay.cur[x].stop =>
         HeadIs(z, x, z.relay.cur[x].msg)

(* What the manager believes it is sending is what the session has a turn  *)
(* for, and it believes that delivered exactly when the host took it.      *)
Sending(z, X) ==
  \A x \in X : z.relay.sending[x].on =>
    \/ /\ z.relay.cur[x].kind = "message" /\ z.relay.cur[x].msg = z.relay.sending[x].msg
       /\ (z.relay.sending[x].delivered <=> z.relay.cur[x].taken)
    \/ /\ z.relay.cur[x] = NoTurn /\ z.relay.turns[x] # <<>>
       /\ z.relay.turns[x][1].kind = "message" /\ z.relay.turns[x][1].msg = z.relay.sending[x].msg
       /\ ~z.relay.sending[x].delivered /\ ~z.relay.turns[x][1].taken

(* The invariant of a state in the middle of a handler. *)
Good(z) ==
  /\ z \in States
  /\ Tree(z) /\ Readers(z, Members) /\ Kept(z) /\ Queues(z)
  /\ Heads(z) /\ Sending(z, Members)

(* Steps that leave what the invariant speaks of. *)
Quiet(z, y) ==
  /\ y \in States /\ y.room = z.room /\ y.hist = z.hist
  /\ y.relay.cur = z.relay.cur /\ y.relay.turns = z.relay.turns /\ y.relay.sending = z.relay.sending

LEMMA QuietGood ==
  ASSUME NEW z, NEW y, Good(z), Quiet(z, y)
  PROVE  Good(y)
<1>1. \A x : Above(y, x) = Above(z, x) /\ Live(y, x) = Live(z, x) /\ IsMember(y, x) = IsMember(z, x)
  BY DEF Quiet, Above, Live, IsMember
<1>2. Tree(y)
  BY <1>1 DEF Good, Quiet, Tree
<1>3. Readers(y, Members) /\ Kept(y)
  BY <1>1 DEF Good, Quiet, Readers, Kept
<1>4. Queues(y)
  BY DEF Good, Quiet, Queues
<1>5. Heads(y) /\ Sending(y, Members)
  BY DEF Good, Quiet, Heads, HeadIs, Sending
<1> QED BY <1>2, <1>3, <1>4, <1>5 DEF Good, Quiet

LEMMA ConsiderIs ==
  ASSUME NEW z \in States, NEW X, X \subseteq Members \cup {NoOne}
  PROVE  Quiet(z, ConsiderDigest(z, X))
<1> DEFINE t == z.relay.timers \cup {x \in X \ {NoOne} : DigestDue(z, x)}
<1>1. t \in SUBSET Members
  BY DEF States, RelaySet
<1> DEFINE l == [z.relay EXCEPT !.timers = t]
<1>2. ConsiderDigest(z, X) = [z EXCEPT !.relay = l]
  BY DEF ConsiderDigest, States
<1> HIDE DEF t
<1>3. l \in RelaySet /\ l.cur = z.relay.cur /\ l.turns = z.relay.turns /\ l.sending = z.relay.sending
  BY <1>1 DEF States, RelaySet
<1> HIDE DEF l
<1> QED BY <1>2, <1>3 DEF Quiet, States

LEMMA AppendKeeps ==
  ASSUME NEW S, NEW s \in Seq(S), NEW e \in S
  PROVE  /\ Append(s, e) \in Seq(S) /\ Append(s, e) # <<>>
         /\ s # <<>> => Append(s, e)[1] = s[1]
         /\ s = <<>> => Append(s, e)[1] = e /\ Len(Append(s, e)) = 1
         /\ \A i \in DOMAIN Append(s, e) :
              (i \in DOMAIN s /\ Append(s, e)[i] = s[i]) \/ (i = Len(s) + 1 /\ Append(s, e)[i] = e)
<1>1. /\ Append(s, e) \in Seq(S) /\ Len(Append(s, e)) = Len(s) + 1
      /\ \A i \in 1..Len(s) : Append(s, e)[i] = s[i]
      /\ Append(s, e)[Len(s) + 1] = e
  OBVIOUS
<1>2. Len(s) \in Nat /\ DOMAIN s = 1..Len(s) /\ (s = <<>> <=> Len(s) = 0)
  BY EmptySeq
<1>3. DOMAIN Append(s, e) = 1..(Len(s) + 1)
  BY <1>1
<1>4. Append(s, e) # <<>>
  BY AppendProperties
<1>5. s # <<>> => Append(s, e)[1] = s[1]
  BY <1>1, <1>2
<1>6. s = <<>> => Append(s, e)[1] = e /\ Len(Append(s, e)) = 1
  BY <1>1, <1>2
<1>7. ASSUME NEW i \in DOMAIN Append(s, e)
      PROVE  (i \in DOMAIN s /\ Append(s, e)[i] = s[i]) \/ (i = Len(s) + 1 /\ Append(s, e)[i] = e)
  BY <1>1, <1>2, <1>3
<1> QED BY <1>1, <1>4, <1>5, <1>6, <1>7

LEMMA SubmitIs ==
  ASSUME NEW z \in States, NEW ts, DOMAIN ts \subseteq Members, \A x \in DOMAIN ts : ts[x] \in TurnSet
  PROVE  /\ Submit(z, ts) \in States
         /\ Submit(z, ts).room = z.room /\ Submit(z, ts).hist = z.hist
         /\ Submit(z, ts).relay.cur = z.relay.cur /\ Submit(z, ts).relay.sending = z.relay.sending
         /\ \A x \in Members : Submit(z, ts).relay.turns[x] =
               IF x \in DOMAIN ts THEN Append(z.relay.turns[x], ts[x]) ELSE z.relay.turns[x]
<1> DEFINE u == [x \in Members |-> IF x \in DOMAIN ts THEN Append(z.relay.turns[x], ts[x]) ELSE z.relay.turns[x]]
<1>1. u \in [Members -> Seq(TurnSet)]
  BY DEF States, RelaySet
<1> DEFINE l == [z.relay EXCEPT !.turns = u]
<1>2. Submit(z, ts) = [z EXCEPT !.relay = l]
  BY DEF Submit, States
<1>3. \A x \in Members : u[x] = IF x \in DOMAIN ts THEN Append(z.relay.turns[x], ts[x]) ELSE z.relay.turns[x]
  OBVIOUS
<1> HIDE DEF u
<1>4. /\ l \in RelaySet /\ l.turns = u
      /\ l.cur = z.relay.cur /\ l.sending = z.relay.sending /\ l.digests = z.relay.digests
  BY <1>1 DEF States, RelaySet
<1> HIDE DEF l
<1> QED BY <1>2, <1>3, <1>4 DEF States

LEMMA SubmitGood ==
  ASSUME NEW z, Good(z), NEW ts, DOMAIN ts \subseteq Members,
         \A x \in DOMAIN ts : ts[x] \in TurnSet /\ ts[x].kind \notin {"none", "message"}
  PROVE  Good(Submit(z, ts))
<1> DEFINE y == Submit(z, ts)
<1>0. z \in States
  BY DEF Good
<1>1. /\ y \in States /\ y.room = z.room /\ y.hist = z.hist
      /\ y.relay.cur = z.relay.cur /\ y.relay.sending = z.relay.sending
      /\ \A x \in Members : y.relay.turns[x] =
               IF x \in DOMAIN ts THEN Append(z.relay.turns[x], ts[x]) ELSE z.relay.turns[x]
  BY <1>0, SubmitIs
<1> HIDE DEF y
<1>2. \A x : Above(y, x) = Above(z, x) /\ Live(y, x) = Live(z, x) /\ IsMember(y, x) = IsMember(z, x)
  BY <1>1 DEF Above, Live, IsMember
<1>3. Tree(y) /\ Readers(y, Members) /\ Kept(y)
  BY <1>1, <1>2 DEF Good, Tree, Readers, Kept
<1>4. Queues(y)
  BY <1>1 DEF Good, Queues
<1>5. \A x \in Members : z.relay.turns[x] \in Seq(TurnSet)
  BY <1>0 DEF States, RelaySet
<1>6. \A x : \A m : HeadIs(y, x, m) <=> HeadIs(z, x, m)
  BY <1>1 DEF HeadIs
<1>7. Heads(y)
  <2> SUFFICES ASSUME NEW x \in Members PROVE Heads(y)!(x)
    BY DEF Heads
  <2>1. CASE x \notin DOMAIN ts
    BY <1>1, <1>6, <2>1 DEF Good, Heads
  <2>2. CASE x \in DOMAIN ts
    <3> DEFINE s == z.relay.turns[x]
    <3>1. y.relay.turns[x] = Append(s, ts[x]) /\ s \in Seq(TurnSet)
      BY <1>1, <1>5, <2>2
    <3>2. \A i \in DOMAIN y.relay.turns[x] :
             \/ i \in DOMAIN s /\ y.relay.turns[x][i] = s[i]
             \/ y.relay.turns[x][i] = ts[x]
      BY <3>1
    <3> QED BY <1>1, <1>6, <2>2, <3>2 DEF Good, Heads
  <2> QED BY <2>1, <2>2
<1>8. Sending(y, Members)
  <2>1. \A x \in Members : z.relay.turns[x] # <<>> =>
           y.relay.turns[x] # <<>> /\ y.relay.turns[x][1] = z.relay.turns[x][1]
    <3> SUFFICES ASSUME NEW x \in Members, z.relay.turns[x] # <<>>
                 PROVE  y.relay.turns[x] # <<>> /\ y.relay.turns[x][1] = z.relay.turns[x][1]
      OBVIOUS
    <3>1. CASE x \in DOMAIN ts
      <4>1. y.relay.turns[x] = Append(z.relay.turns[x], ts[x]) /\ ts[x] \in TurnSet
        BY <1>1, <3>1
      <4> QED BY <1>5, <4>1, AppendKeeps
    <3> QED BY <1>1, <3>1
  <2> QED BY <1>1, <2>1 DEF Good, Sending
<1> QED BY <1>1, <1>3, <1>4, <1>7, <1>8 DEF Good, y

-----------------------------------------------------------------------------
(* Parts of the state that a step leaves as they are.                      *)

SameReports(z, y) ==
  /\ \A x \in Members :
       /\ y.room[x].life = z.room[x].life /\ y.room[x].parent = z.room[x].parent
       /\ y.room[x].stopped = z.room[x].stopped
       /\ y.room[x].report = z.room[x].report /\ y.room[x].outbox = z.room[x].outbox
  /\ y.hist.told = z.hist.told

SameQueues(z, y) ==
  /\ \A x \in Members : y.room[x].queue = z.room[x].queue
  /\ y.hist.fate = z.hist.fate /\ y.hist.sent = z.hist.sent /\ y.hist.late = z.hist.late /\ y.hist.own = z.hist.own

SameTurns(z, y) ==
  /\ y.relay.cur = z.relay.cur /\ y.relay.turns = z.relay.turns /\ y.relay.sending = z.relay.sending

(* No turn of x stands for the message at the head of its queue. *)
Free(z, x) ==
  /\ \A i \in DOMAIN z.relay.turns[x] : z.relay.turns[x][i].kind # "message"
  /\ ~(z.relay.cur[x].kind = "message" /\ ~z.relay.cur[x].taken /\ ~z.relay.cur[x].stop)

LEMMA WorkersAre == Workers \subseteq Members /\ Principal \in Members /\ NoOne \notin Members /\ Principal \notin Workers
BY MembersAssumption DEF Members

LEMMA FrameReports ==
  ASSUME NEW z, NEW y, SameReports(z, y)
  PROVE  /\ Tree(z) => Tree(y)
         /\ \A X \in SUBSET Members : Readers(z, X) => Readers(y, X)
         /\ Kept(z) => Kept(y)
<1>1. \A x \in Members : /\ Above(y, x) = Above(z, x)
                         /\ Live(y, x) <=> Live(z, x)
                         /\ IsMember(y, x) <=> IsMember(z, x)
  BY AboveSame DEF SameReports, Live, IsMember
<1>2. Tree(z) => Tree(y)
  BY <1>1, WorkersAre DEF SameReports, Tree
<1>3. \A X \in SUBSET Members : Readers(z, X) => Readers(y, X)
  BY <1>1 DEF SameReports, Readers
<1>4. Kept(z) => Kept(y)
  BY <1>1, WorkersAre, AboveMembers DEF SameReports, Kept
<1> QED BY <1>2, <1>3, <1>4

LEMMA FrameQueues ==
  ASSUME NEW z, NEW y, SameQueues(z, y), Queues(z)
  PROVE  Queues(y)
<1>1. \A x \in Workers : y.room[x].queue = z.room[x].queue
  BY WorkersAre DEF SameQueues
<1> QED BY <1>1 DEF SameQueues, Queues

LEMMA FrameTurns ==
  ASSUME NEW z, NEW y, SameTurns(z, y), Heads(z),
         \A x \in Members : Free(z, x) \/ \A m : HeadIs(z, x, m) => HeadIs(y, x, m)
  PROVE  Heads(y) /\ \A X : Sending(z, X) => Sending(y, X)
<1>1. Heads(y)
  <2> SUFFICES ASSUME NEW x \in Members PROVE Heads(y)!(x)
    BY DEF Heads
  <2>1. CASE Free(z, x)
    BY <2>1 DEF Heads, SameTurns, Free
  <2>2. CASE \A m : HeadIs(z, x, m) => HeadIs(y, x, m)
    BY <2>2 DEF Heads, SameTurns
  <2> QED BY <2>1, <2>2
<1> QED BY <1>1 DEF Sending, SameTurns

LEMMA SameHeads ==
  ASSUME NEW z, NEW y, SameQueues(z, y)
  PROVE  \A x \in Members : \A m : HeadIs(z, x, m) => HeadIs(y, x, m)
BY DEF SameQueues, HeadIs

-----------------------------------------------------------------------------
(* Values.                                                                 *)

LEMMA NoReportsIs == NoReports \in Tolds
<1>1. NoReports \in [{} -> Nat]
  BY DEF NoReports
<1> QED BY <1>1 DEF Tolds

LEMMA TurnIs ==
  ASSUME NEW kind \in Kinds, NEW m \in 0..MaxMessages, NEW told \in Tolds
  PROVE  /\ NoTurn \in TurnSet /\ NoTurn.kind = "none"
         /\ Turn(kind, m, told) \in TurnSet
         /\ Turn(kind, m, told).kind = kind /\ Turn(kind, m, told).msg = m
         /\ Turn(kind, m, told).told = told
         /\ ~Turn(kind, m, told).taken /\ ~Turn(kind, m, told).stop
<1>1. NoTurn \in TurnSet /\ NoTurn.kind = "none" /\ ~NoTurn.taken /\ ~NoTurn.stop
  BY NoReportsIs, BoundsAssumption DEF NoTurn, TurnSet, Kinds
<1> QED BY <1>1 DEF Turn, TurnSet

LEMMA NoSendingIs == NoSending \in Sendings /\ ~NoSending.on
BY BoundsAssumption DEF NoSending, Sendings

LEMMA RangeIs ==
  ASSUME NEW S, NEW q \in Seq(S)
  PROVE  /\ Range(q) = {q[i] : i \in 1..Len(q)} /\ Len(q) \in Nat /\ DOMAIN q = 1..Len(q)
         /\ Range(q) \subseteq S
         /\ q # <<>> => /\ Head(q) = q[1] /\ Len(q) > 0 /\ Head(q) \in S
                        /\ Tail(q) \in Seq(S) /\ DOMAIN Tail(q) = 1..(Len(q) - 1)
                        /\ \A i \in 1..(Len(q) - 1) : Tail(q)[i] = q[i + 1]
                        /\ Range(q) = {Head(q)} \cup Range(Tail(q))
<1>1. Range(q) = {q[i] : i \in 1..Len(q)} /\ Len(q) \in Nat /\ DOMAIN q = 1..Len(q)
  BY LenProperties DEF Range
<1>2. Range(q) \subseteq S
  BY <1>1, LenProperties
<1>3. ASSUME q # <<>>
      PROVE  /\ Head(q) = q[1] /\ Len(q) > 0 /\ Head(q) \in S
             /\ Tail(q) \in Seq(S) /\ DOMAIN Tail(q) = 1..(Len(q) - 1)
             /\ \A i \in 1..(Len(q) - 1) : Tail(q)[i] = q[i + 1]
             /\ Range(q) = {Head(q)} \cup Range(Tail(q))
  <2>1. Head(q) = q[1] /\ Len(q) > 0
    BY <1>3, EmptySeq
  <2>2. /\ Head(q) \in S /\ Tail(q) \in Seq(S) /\ Len(Tail(q)) = Len(q) - 1
        /\ \A i \in 1..Len(Tail(q)) : Tail(q)[i] = q[i + 1]
    BY <1>3, HeadTailProperties
  <2>3. DOMAIN Tail(q) = 1..(Len(q) - 1)
    BY <2>2, LenProperties
  <2>4. Range(q) = {Head(q)} \cup Range(Tail(q))
    <3>1. Range(Tail(q)) = {q[i + 1] : i \in 1..(Len(q) - 1)}
      BY <2>2, <2>3 DEF Range
    <3>2. ASSUME NEW i \in 1..Len(q) PROVE i = 1 \/ \E j \in 1..(Len(q) - 1) : i = j + 1
      <4>1. i = 1 \/ (i - 1 \in 1..(Len(q) - 1) /\ i = (i - 1) + 1)
        BY <1>1
      <4> QED BY <4>1
    <3>3. \A j \in 1..(Len(q) - 1) : j + 1 \in 1..Len(q)
      BY <1>1
    <3>4. 1 \in 1..Len(q)
      BY <1>1, <2>1
    <3> QED BY <1>1, <2>1, <3>1, <3>2, <3>3, <3>4
  <2> QED BY <2>1, <2>2, <2>3, <2>4
<1> QED BY <1>1, <1>2, <1>3

LEMMA QueueIs ==
  ASSUME NEW z \in States, NEW x \in Members
  PROVE  z.room[x].queue \in Seq(0..MaxMessages)
BY DEF States, RoomSet, Agents

-----------------------------------------------------------------------------
(* The manager's parts.                                                    *)

LEMMA FateIs ==
  ASSUME NEW z \in States, NEW ms, NEW f \in Fates
  PROVE  /\ Fate(z, ms, f) \in States
         /\ Fate(z, ms, f).room = z.room /\ Fate(z, ms, f).relay = z.relay
         /\ Fate(z, ms, f).hist.told = z.hist.told /\ Fate(z, ms, f).hist.sent = z.hist.sent
         /\ Fate(z, ms, f).hist.late = z.hist.late /\ Fate(z, ms, f).hist.own = z.hist.own
         /\ \A m \in Messages : Fate(z, ms, f).hist.fate[m] = IF m \in ms THEN f ELSE z.hist.fate[m]
<1> DEFINE g == [m \in Messages |-> IF m \in ms THEN f ELSE z.hist.fate[m]]
           h == [z.hist EXCEPT !.fate = g]
<1>1. g \in [Messages -> Fates] /\ \A m \in Messages : g[m] = IF m \in ms THEN f ELSE z.hist.fate[m]
  BY DEF States, HistSet
<1>2. Fate(z, ms, f) = [z EXCEPT !.hist = h]
  BY DEF Fate, States
<1> HIDE DEF g
<1>3. /\ h \in HistSet /\ h.fate = g
      /\ h.told = z.hist.told /\ h.sent = z.hist.sent /\ h.late = z.hist.late /\ h.own = z.hist.own
  BY <1>1 DEF States, HistSet
<1> HIDE DEF h
<1> QED BY <1>1, <1>2, <1>3 DEF States

(* An agent's record with another queue. *)
WithQueue(z, x, q) == [z EXCEPT !.room[x].queue = q]

LEMMA QueueSet ==
  ASSUME NEW z \in States, NEW x \in Members, NEW q \in Seq(0..MaxMessages)
  PROVE  LET y == WithQueue(z, x, q) IN
         /\ y \in States /\ SameReports(z, y)
         /\ y.relay = z.relay /\ y.hist = z.hist
         /\ y.room[x].queue = q
         /\ \A v \in Members : v # x => y.room[v] = z.room[v]
<1> DEFINE r == [z.room EXCEPT ![x] = [z.room[x] EXCEPT !.queue = q]]
           y == WithQueue(z, x, q)
<1>1. y = [z EXCEPT !.room = r]
  BY DEF States, WithQueue
<1>2. /\ r \in RoomSet /\ \A v \in Members : v # x => r[v] = z.room[v]
      /\ r[x].queue = q
      /\ r[x].life = z.room[x].life /\ r[x].parent = z.room[x].parent /\ r[x].stopped = z.room[x].stopped
      /\ r[x].report = z.room[x].report /\ r[x].outbox = z.room[x].outbox
  BY DEF States, RoomSet, Agents
<1> HIDE DEF r
<1>3. y \in States /\ y.room = r /\ y.relay = z.relay /\ y.hist = z.hist
  BY <1>1, <1>2 DEF States
<1> HIDE DEF y
<1>4. SameReports(z, y)
  BY <1>2, <1>3 DEF SameReports
<1> QED BY <1>2, <1>3, <1>4 DEF y

(* The head of a queue leaves it: as no other place holds that message, it *)
(* waits nowhere.                                                          *)
LEMMA RemoveQueuedIs ==
  ASSUME NEW z \in States, Queues(z), NEW x \in Workers, NEW m \in 0..MaxMessages,
         NEW f \in {"taken", "refused"},
         HeadIs(z, x, m) /\ m \in Messages => <<m, f>> \in z.hist.own
  PROVE  LET y == RemoveQueued(z, x, m, f) IN
         /\ y \in States /\ SameReports(z, y) /\ y.relay = z.relay
         /\ Queues(y)
         /\ \A v \in Members : v # x => y.room[v] = z.room[v]
<1> DEFINE y == RemoveQueued(z, x, m, f)
           q == z.room[x].queue
<1>0. x \in Members /\ q \in Seq(0..MaxMessages)
  BY QueueIs, WorkersAre
<1>1. CASE q = <<>> \/ Head(q) # m
  BY <1>1 DEF RemoveQueued, SameReports
<1>2. CASE q # <<>> /\ Head(q) = m
  <2> DEFINE u == WithQueue(z, x, Tail(q))
  <2>1. /\ Range(q) = {Head(q)} \cup Range(Tail(q)) /\ Tail(q) \in Seq(0..MaxMessages)
        /\ Len(q) \in Nat /\ DOMAIN q = 1..Len(q) /\ Len(q) > 0 /\ m = q[1]
        /\ DOMAIN Tail(q) = 1..(Len(q) - 1) /\ \A i \in 1..(Len(q) - 1) : Tail(q)[i] = q[i + 1]
    <3> HIDE DEF q
    <3> QED BY <1>0, <1>2, RangeIs
  <2>2. /\ u \in States /\ SameReports(z, u)
        /\ u.relay = z.relay /\ u.hist = z.hist
        /\ u.room[x].queue = Tail(q)
        /\ \A v \in Members : v # x => u.room[v] = z.room[v]
    BY <1>0, <2>1, QueueSet
  <2>3. y = Fate(u, {m}, f)
    BY <1>2 DEF RemoveQueued, Dequeue, WithQueue
  <2> HIDE DEF u, y
  <2>4. /\ y \in States /\ y.room = u.room /\ y.relay = u.relay
        /\ y.hist.told = u.hist.told /\ y.hist.sent = u.hist.sent /\ y.hist.late = u.hist.late /\ y.hist.own = u.hist.own
        /\ \A k \in Messages : y.hist.fate[k] = IF k \in {m} THEN f ELSE u.hist.fate[k]
    BY <2>2, <2>3, FateIs DEF Fates
  <2>5. SameReports(z, y)
    BY <2>2, <2>4 DEF SameReports
  <2>6. \A v \in Members : y.room[v].queue = IF v = x THEN Tail(q) ELSE z.room[v].queue
    BY <2>2, <2>4
  <2>7. Queues(y)
    <3> DEFINE Q(v) == z.room[v].queue
               R(v) == y.room[v].queue
    <3>1. \A v \in Workers : R(v) = IF v = x THEN Tail(q) ELSE Q(v)
      BY <2>6, WorkersAre
    <3>2. ASSUME NEW v \in Workers, NEW i \in DOMAIN R(v)
          PROVE  \E k \in DOMAIN Q(v) : R(v)[i] = Q(v)[k] /\ (v = x => k = i + 1) /\ (v # x => k = i)
      <4>1. CASE v = x
        <5>0. R(v) = Tail(q)
          BY <3>1, <4>1
        <5>1. i \in 1..(Len(q) - 1) /\ i + 1 \in DOMAIN q /\ R(v)[i] = q[i + 1]
          <6> HIDE DEF q, R
          <6> QED BY <2>1, <3>2, <5>0
        <5> QED BY <4>1, <5>1
      <4>2. CASE v # x
        BY <3>1, <3>2, <4>2
      <4> QED BY <4>1, <4>2
    <3>3. ASSUME NEW v \in Workers, NEW w \in Workers, NEW i \in DOMAIN R(v), NEW j \in DOMAIN R(w),
                 R(v)[i] = R(w)[j], R(v)[i] # Reminder
          PROVE  v = w /\ i = j
      <4>1. PICK k \in DOMAIN Q(v) : R(v)[i] = Q(v)[k] /\ (v = x => k = i + 1) /\ (v # x => k = i)
        BY <3>2, <3>3
      <4>2. PICK l \in DOMAIN Q(w) : R(w)[j] = Q(w)[l] /\ (w = x => l = j + 1) /\ (w # x => l = j)
        BY <3>2, <3>3
      <4>3. v = w /\ k = l
        <5>1. Q(v)[k] = Q(w)[l] /\ Q(v)[k] # Reminder
          BY <3>3, <4>1, <4>2
        <5> QED BY <5>1 DEF Queues
      <4>4. CASE v = x
        <5>1. i \in Nat /\ j \in Nat
          BY <2>1, <3>1, <4>3, <4>4
        <5> QED BY <4>1, <4>2, <4>3, <4>4, <5>1
      <4> QED BY <4>1, <4>2, <4>3, <4>4
    <3>4. ASSUME NEW k \in Messages
          PROVE  y.hist.fate[k] = "queued" <=> \E v \in Workers : k \in Range(R(v))
      <4>1. CASE k = m
        <5>1. y.hist.fate[k] = f
          BY <2>4, <4>1
        <5>2. ASSUME NEW v \in Workers, k \in Range(R(v)) PROVE FALSE
          <6>1. PICK i \in DOMAIN R(v) : R(v)[i] = m
            BY <4>1, <5>2 DEF Range
          <6>2. PICK l \in DOMAIN Q(v) : m = Q(v)[l] /\ (v = x => l = i + 1) /\ (v # x => l = i)
            BY <3>2, <6>1
          <6>3. 1 \in DOMAIN Q(x) /\ Q(x)[1] = m /\ m # Reminder
            BY <2>1, <4>1 DEF Reminder, Messages
          <6>4. v = x /\ l = 1
            BY <6>2, <6>3 DEF Queues
          <6>5. i \in 1..(Len(q) - 1) /\ l = i + 1
            BY <2>1, <3>1, <6>2, <6>4
          <6> QED BY <6>4, <6>5
        <5> QED BY <5>1, <5>2
      <4>2. CASE k # m
        <5>1. y.hist.fate[k] = z.hist.fate[k]
          BY <2>2, <2>4, <4>2
        <5>2. \A v \in Workers : k \in Range(R(v)) <=> k \in Range(Q(v))
          BY <1>2, <2>1, <3>1, <4>2
        <5> QED BY <5>1, <5>2 DEF Queues
      <4> QED BY <4>1, <4>2
    <3>5. \A k \in Messages : k > y.hist.sent => y.hist.fate[k] = "new"
      <4>1. SUFFICES ASSUME NEW k \in Messages, k > y.hist.sent, k = m PROVE FALSE
        BY <2>2, <2>4 DEF Queues
      <4>2. m \in Range(Q(x))
        BY <1>2, <2>1
      <4>3. z.hist.fate[m] = "queued" /\ z.hist.fate[m] = "new"
        BY <2>2, <2>4, <4>1, <4>2 DEF Queues
      <4> QED BY <4>3
    <3>6. \A k \in Messages : y.hist.fate[k] \in {"taken", "refused"} => <<k, y.hist.fate[k]>> \in y.hist.own
      <4>1. m \in Messages => <<m, f>> \in y.hist.own
        BY <1>2, <2>2, <2>4 DEF HeadIs
      <4> QED BY <2>2, <2>4, <4>1 DEF Queues
    <3> QED BY <2>2, <2>4, <3>3, <3>4, <3>5, <3>6 DEF Queues
  <2> QED BY <2>2, <2>4, <2>5, <2>7 DEF y
<1> QED BY <1>1, <1>2

LEMMA GoodParts ==
  ASSUME NEW z, NEW y, Good(z), y \in States, SameReports(z, y), SameQueues(z, y),
         Heads(y), Sending(y, Members)
  PROVE  Good(y)
BY FrameReports, FrameQueues DEF Good

LEMMA SameRoom ==
  ASSUME NEW z, NEW y, y.room = z.room, y.hist = z.hist
  PROVE  SameReports(z, y) /\ SameQueues(z, y)
BY DEF SameReports, SameQueues

(* The head of each idle worker's queue goes to its session. *)
LEMMA PumpGood ==
  ASSUME NEW z, Good(z), NEW X \in SUBSET Members
  PROVE  Good(Pump(z, X))
<1> DEFINE goes == {x \in X : CanPump(z, x)}
           ts == [x \in goes |-> Turn("message", Head(z.room[x].queue), NoReports)]
           v == Submit(z, ts)
           snd == [x \in Members |-> IF x \in goes THEN [on |-> TRUE, msg |-> Head(z.room[x].queue), delivered |-> FALSE]
                                     ELSE v.relay.sending[x]]
           y == Pump(z, X)
<1>0. z \in States
  BY DEF Good
<1>1. ASSUME NEW x \in goes
      PROVE  /\ x \in Members /\ x \in Workers /\ z.room[x].queue # <<>>
             /\ z.relay.cur[x] = NoTurn /\ z.relay.turns[x] = <<>>
             /\ Head(z.room[x].queue) \in 0..MaxMessages
  <2>1. x \in Members /\ x \in Workers /\ z.room[x].queue # <<>>
        /\ z.relay.cur[x] = NoTurn /\ z.relay.turns[x] = <<>>
    BY DEF CanPump, Busy, Members
  <2> QED BY <1>0, <2>1, QueueIs, RangeIs
<1>2. \A x \in goes : /\ ts[x] \in TurnSet /\ ts[x].kind = "message" /\ ts[x].msg = Head(z.room[x].queue)
                      /\ ~ts[x].taken /\ ~ts[x].stop
  BY <1>1, TurnIs, NoReportsIs DEF Kinds
<1>3. DOMAIN ts = goes /\ goes \in SUBSET Members
  BY <1>1
<1>4. y = [v EXCEPT !.relay.sending = snd]
  <2>1. [x \in goes |-> Turn("message", [u \in goes |-> Head(z.room[u].queue)][x], NoReports)] = ts
    OBVIOUS
  <2> QED BY <2>1 DEF Pump
<1> HIDE DEF goes, ts
<1>5. /\ v \in States /\ v.room = z.room /\ v.hist = z.hist
      /\ v.relay.cur = z.relay.cur /\ v.relay.sending = z.relay.sending
      /\ \A x \in Members : v.relay.turns[x] = IF x \in goes THEN Append(z.relay.turns[x], ts[x]) ELSE z.relay.turns[x]
  BY <1>0, <1>2, <1>3, SubmitIs
<1> HIDE DEF v
<1>6. /\ snd \in [Members -> Sendings]
      /\ \A x \in Members : IF x \in goes THEN snd[x].on /\ snd[x].msg = Head(z.room[x].queue) /\ ~snd[x].delivered
                                          ELSE snd[x] = z.relay.sending[x]
  <2>1. \A x \in Members : v.relay.sending[x] \in Sendings
    BY <1>5 DEF States, RelaySet
  <2> QED BY <1>1, <1>5, <2>1 DEF Sendings
<1> HIDE DEF snd
<1>7. /\ y \in States /\ y.room = z.room /\ y.hist = z.hist
      /\ y.relay.cur = z.relay.cur /\ y.relay.sending = snd /\ y.relay.turns = v.relay.turns
  <2> DEFINE l == [v.relay EXCEPT !.sending = snd]
  <2>1. y = [v EXCEPT !.relay = l]
    BY <1>4, <1>5 DEF States
  <2>2. l \in RelaySet /\ l.cur = v.relay.cur /\ l.turns = v.relay.turns /\ l.sending = snd
    BY <1>5, <1>6 DEF States, RelaySet
  <2> HIDE DEF l, y
  <2> QED BY <1>5, <2>1, <2>2 DEF States
<1> HIDE DEF y
<1>8. ASSUME NEW x \in goes
      PROVE  /\ y.relay.turns[x] # <<>> /\ Len(y.relay.turns[x]) = 1 /\ y.relay.turns[x][1] = ts[x]
             /\ DOMAIN y.relay.turns[x] = {1}
  <2>1. /\ z.relay.turns[x] = <<>> /\ y.relay.turns[x] = Append(z.relay.turns[x], ts[x])
        /\ ts[x] \in TurnSet /\ z.relay.turns[x] \in Seq(TurnSet)
    BY <1>0, <1>1, <1>2, <1>5, <1>7 DEF States, RelaySet
  <2>2. /\ y.relay.turns[x] \in Seq(TurnSet) /\ y.relay.turns[x] # <<>> /\ y.relay.turns[x][1] = ts[x]
        /\ Len(y.relay.turns[x]) = 1
    BY <2>1, AppendKeeps
  <2> QED BY <2>2, LenProperties
<1>9. \A x, m : HeadIs(y, x, m) <=> HeadIs(z, x, m)
  BY <1>7 DEF HeadIs
<1>10. Heads(y)
  <2> SUFFICES ASSUME NEW x \in Members PROVE Heads(y)!(x)
    BY DEF Heads
  <2>1. CASE x \in goes
    <3>1. HeadIs(y, x, y.relay.turns[x][1].msg)
      BY <1>1, <1>2, <1>7, <1>8, <2>1 DEF HeadIs
    <3> QED BY <1>1, <1>2, <1>7, <1>8, <2>1, <3>1, TurnIs, NoReportsIs DEF Kinds
  <2>2. CASE x \notin goes
    BY <1>5, <1>7, <1>9, <2>2 DEF Good, Heads
  <2> QED BY <2>1, <2>2
<1>11. Sending(y, Members)
  <2> SUFFICES ASSUME NEW x \in Members PROVE Sending(y, Members)!(x)
    BY DEF Sending
  <2>1. CASE x \in goes
    BY <1>1, <1>2, <1>6, <1>7, <1>8, <2>1
  <2>2. CASE x \notin goes
    BY <1>5, <1>6, <1>7, <2>2 DEF Good, Sending
  <2> QED BY <2>1, <2>2
<1> QED BY <1>7, <1>10, <1>11, SameRoom, GoodParts DEF y

(* What a part does with reports alone. *)
ReportsOnly(z, y) ==
  /\ y \in States /\ SameQueues(z, y) /\ SameTurns(z, y) /\ y.hist = z.hist
  /\ \A x \in Members : /\ y.room[x].life = z.room[x].life /\ y.room[x].parent = z.room[x].parent
                        /\ y.room[x].stopped = z.room[x].stopped

ReportsGood(z) == Tree(z) /\ Readers(z, Members) /\ Kept(z)

LEMMA QuietReports ==
  ASSUME NEW z, NEW y, Quiet(z, y)
  PROVE  ReportsOnly(z, y) /\ (ReportsGood(z) => ReportsGood(y))
BY SameRoom, FrameReports DEF Quiet, ReportsOnly, SameTurns, ReportsGood

LEMMA ReportsTrans ==
  ASSUME NEW z, NEW y, NEW v, ReportsOnly(z, y), ReportsOnly(y, v)
  PROVE  ReportsOnly(z, v)
BY DEF ReportsOnly, SameQueues, SameTurns

LEMMA AgentsAre ==
  ASSUME NEW z \in States, NEW x \in Members
  PROVE  /\ z.room[x] \in Agents /\ z.room[x].report \in Reports /\ z.room[x].report.at \in Nat
         /\ z.room[x].outbox \in SUBSET Workers /\ z.room[x].life \in Lives /\ z.room[x].stopped \in Stops
         /\ z.room[x].parent \in Members \cup {NoOne}
BY DEF States, RoomSet, Agents, Reports

(* The agents with another outbox for r. *)
WithOutbox(rm, r, b) == [rm EXCEPT ![r] = [rm[r] EXCEPT !.outbox = b]]

LEMMA OutboxSet ==
  ASSUME NEW rm \in RoomSet, NEW r \in Members, NEW b \in SUBSET Workers
  PROVE  LET q == WithOutbox(rm, r, b) IN
         /\ q \in RoomSet
         /\ \A x \in Members :
              /\ q[x].life = rm[x].life /\ q[x].parent = rm[x].parent
              /\ q[x].stopped = rm[x].stopped /\ q[x].queue = rm[x].queue
              /\ q[x].report = rm[x].report
              /\ q[x].outbox = IF x = r THEN b ELSE rm[x].outbox
BY DEF RoomSet, Agents, WithOutbox

LEMMA TreeSame ==
  ASSUME NEW z, NEW y, Tree(z),
         \A x \in Members : /\ y.room[x].life = z.room[x].life /\ y.room[x].parent = z.room[x].parent
                            /\ y.room[x].stopped = z.room[x].stopped,
         \A w \in Workers : z.room[w].life = "unborn" => y.room[w].report = z.room[w].report
  PROVE  /\ Tree(y)
         /\ \A x \in Members : /\ Above(y, x) = Above(z, x) /\ (Live(y, x) <=> Live(z, x))
                               /\ (IsMember(y, x) <=> IsMember(z, x))
<1>1. \A x \in Members : Above(y, x) = Above(z, x)
  BY AboveSame
<1>2. \A x \in Members : (Live(y, x) <=> Live(z, x)) /\ (IsMember(y, x) <=> IsMember(z, x))
  BY DEF Live, IsMember
<1>3. Tree(y)
  BY <1>1, WorkersAre DEF Tree
<1> QED BY <1>1, <1>2, <1>3

(* A report goes to the closest live agent above. *)
LEMMA RecordReportGood ==
  ASSUME NEW z \in States, ReportsGood(z), NEW w \in Workers, z.room[w].life # "unborn",
         NEW urgent \in BOOLEAN, NEW synthetic \in BOOLEAN
  PROVE  LET y == RecordReport(z, w, urgent, synthetic) IN ReportsOnly(z, y) /\ ReportsGood(y)
<1> DEFINE rep == [at |-> z.room[w].report.at + 1, urgent |-> urgent, synthetic |-> synthetic]
           r == LiveAncestor(z, w)
           y == [z EXCEPT !.room[w].report = rep]
           v == [y EXCEPT !.room[r].outbox = @ \cup {w}, !.relay.failed = @ \ {r}]
<1>0. w \in Members
  BY WorkersAre
<1>1. r \in Above(z, w) /\ Live(z, r) /\ r \in Members /\ r # NoOne
  BY LiveAncestorIs, AboveMembers, WorkersAre DEF ReportsGood
<1>2. RecordReport(z, w, urgent, synthetic) = ConsiderDigest(v, {r})
  BY <1>1 DEF RecordReport, Then
<1>3. rep \in Reports
  BY <1>0, AgentsAre DEF Reports
<1> HIDE DEF rep, r
<1>4. /\ y \in States /\ y.relay = z.relay /\ y.hist = z.hist
      /\ y.room = [z.room EXCEPT ![w] = [z.room[w] EXCEPT !.report = rep]]
  <2> DEFINE q == [z.room EXCEPT ![w] = [z.room[w] EXCEPT !.report = rep]]
  <2>1. y = [z EXCEPT !.room = q]
    BY DEF States
  <2>2. q \in RoomSet
    BY <1>0, <1>3 DEF States, RoomSet, Agents
  <2> HIDE DEF q, y
  <2>3. y \in States /\ y.relay = z.relay /\ y.hist = z.hist /\ y.room = q
    BY <2>1, <2>2 DEF States
  <2> QED BY <2>3 DEF q
<1> HIDE DEF y
<1>5. \A x \in Members : IF x = w
        THEN /\ y.room[x].life = z.room[x].life /\ y.room[x].parent = z.room[x].parent
             /\ y.room[x].stopped = z.room[x].stopped /\ y.room[x].queue = z.room[x].queue
             /\ y.room[x].outbox = z.room[x].outbox /\ y.room[x].report = rep
        ELSE y.room[x] = z.room[x]
  BY <1>0, <1>4 DEF States, RoomSet, Agents
<1>6. /\ v \in States /\ v.hist = z.hist /\ v.relay.cur = z.relay.cur /\ v.relay.turns = z.relay.turns
      /\ v.relay.sending = z.relay.sending
      /\ \A x \in Members :
              /\ v.room[x].life = y.room[x].life /\ v.room[x].parent = y.room[x].parent
              /\ v.room[x].stopped = y.room[x].stopped /\ v.room[x].queue = y.room[x].queue
              /\ v.room[x].report = y.room[x].report
              /\ v.room[x].outbox = IF x = r THEN y.room[x].outbox \cup {w} ELSE y.room[x].outbox
  <2> DEFINE b == y.room[r].outbox \cup {w}
             q == WithOutbox(y.room, r, b)
             l == [y.relay EXCEPT !.failed = @ \ {r}]
  <2>1. v = [y EXCEPT !.room = q, !.relay = l]
    BY <1>4 DEF States, WithOutbox
  <2>2. b \in SUBSET Workers /\ y.room \in RoomSet
    BY <1>1, <1>4, AgentsAre DEF States
  <2> HIDE DEF b
  <2>3. /\ q \in RoomSet
        /\ \A x \in Members :
              /\ q[x].life = y.room[x].life /\ q[x].parent = y.room[x].parent
              /\ q[x].stopped = y.room[x].stopped /\ q[x].queue = y.room[x].queue
              /\ q[x].report = y.room[x].report
              /\ q[x].outbox = IF x = r THEN b ELSE y.room[x].outbox
    BY <1>1, <2>2, OutboxSet
  <2>4. l \in RelaySet /\ l.cur = y.relay.cur /\ l.turns = y.relay.turns /\ l.sending = y.relay.sending
    BY <1>4 DEF States, RelaySet
  <2> HIDE DEF q, l, v
  <2>5. v \in States /\ v.relay = l /\ v.hist = y.hist /\ v.room = q
    BY <1>4, <2>1, <2>3, <2>4 DEF States
  <2> QED BY <1>4, <2>3, <2>4, <2>5 DEF b
<1> HIDE DEF v
<1>8. /\ \A x \in Members :
           /\ v.room[x].life = z.room[x].life /\ v.room[x].parent = z.room[x].parent
           /\ v.room[x].stopped = z.room[x].stopped /\ v.room[x].queue = z.room[x].queue
           /\ v.room[x].report = IF x = w THEN rep ELSE z.room[x].report
           /\ v.room[x].outbox = IF x = r THEN z.room[x].outbox \cup {w} ELSE z.room[x].outbox
  BY <1>5, <1>6
<1>9. ReportsOnly(z, v)
  BY <1>6, <1>8 DEF ReportsOnly, SameQueues, SameTurns
<1>10. /\ Tree(v)
       /\ \A x \in Members : /\ Above(v, x) = Above(z, x) /\ (Live(v, x) <=> Live(z, x))
                             /\ (IsMember(v, x) <=> IsMember(z, x))
  <2>1. \A u \in Workers : z.room[u].life = "unborn" => v.room[u].report = z.room[u].report
    BY <1>8, WorkersAre
  <2> QED BY <1>8, <2>1, TreeSame DEF ReportsGood
<1>12. Readers(v, Members)
  BY <1>1, <1>8, <1>10 DEF Readers, ReportsGood
<1>13. Kept(v)
  <2> SUFFICES ASSUME NEW u \in Workers, IsMember(v, u), v.room[u].report.at > v.hist.told[u]
               PROVE  \E x \in Above(v, u) : u \in v.room[x].outbox
    BY DEF Kept
  <2>1. u \in Members /\ Above(v, u) = Above(z, u)
    BY <1>10, WorkersAre
  <2>2. CASE u = w
    BY <1>1, <1>8, <2>1, <2>2
  <2>3. CASE u # w
    <3>1. IsMember(z, u) /\ z.room[u].report.at > z.hist.told[u]
      BY <1>6, <1>8, <1>10, <2>1, <2>3
    <3>2. PICK x \in Above(z, u) : u \in z.room[x].outbox
      BY <3>1 DEF Kept, ReportsGood
    <3> QED BY <1>8, <2>1, <3>2, AboveMembers
  <2> QED BY <2>2, <2>3
<1>14. Quiet(v, ConsiderDigest(v, {r}))
  BY <1>1, <1>6, ConsiderIs
<1> QED BY <1>2, <1>9, <1>10, <1>12, <1>13, <1>14, QuietReports, ReportsTrans DEF ReportsGood

(* The outboxes of agents no longer live go to the closest live one above  *)
(* each: it is above whoever reported too, so no report is lost, and none  *)
(* waits where nobody reads it.                                            *)
LEMMA HandOffGood ==
  ASSUME NEW z \in States, Tree(z), Kept(z), NEW X \in SUBSET Workers, Readers(z, Members \ X),
         \A x \in X : z.room[x].life # "unborn" /\ ~Live(z, x)
  PROVE  LET y == HandOff(z, X) IN ReportsOnly(z, y) /\ ReportsGood(y)
<1> DEFINE to == [x \in X |-> LiveAncestor(z, x)]
           rm == [x \in Members |->
                    IF x \in X /\ to[x] # NoOne THEN [z.room[x] EXCEPT !.outbox = {}]
                    ELSE [z.room[x] EXCEPT !.outbox = UNION {z.room[u].outbox : u \in {x} \cup {v \in X : to[v] = x}}]]
           l == [z.relay EXCEPT !.timers = @ \ X, !.digests = @ \ X]
           y == [z EXCEPT !.room = rm, !.relay = l]
<1>0. X \subseteq Members
  BY WorkersAre
<1>1. \A x \in X : /\ to[x] \in Above(z, x) /\ Live(z, to[x]) /\ to[x] \in Members /\ to[x] # NoOne
                   /\ to[x] \notin X
  BY LiveAncestorIs, AboveMembers, WorkersAre
<1>2. HandOff(z, X) = ConsiderDigest(y, {to[x] : x \in X})
  <2>1. HandUp(z, X) = [z EXCEPT !.relay.timers = @ \ X, !.relay.digests = @ \ X, !.room = rm]
    BY DEF HandUp
  <2>2. HandUp(z, X) = y
    <3> HIDE DEF rm
    <3> QED BY <2>1 DEF States
  <2>3. {LiveAncestor(z, x) : x \in X} = {to[x] : x \in X}
    OBVIOUS
  <2>4. HandOff(z, X) = ConsiderDigest(HandUp(z, X), {LiveAncestor(z, x) : x \in X})
    BY DEF HandOff, Then
  <2> HIDE DEF y, to
  <2> QED BY <2>2, <2>3, <2>4
<1> HIDE DEF to
<1>3. \A x \in Members :
        /\ rm[x] \in Agents
        /\ rm[x].life = z.room[x].life /\ rm[x].parent = z.room[x].parent
        /\ rm[x].stopped = z.room[x].stopped /\ rm[x].queue = z.room[x].queue
        /\ rm[x].report = z.room[x].report
        /\ rm[x].outbox = IF x \in X THEN {}
                          ELSE UNION {z.room[u].outbox : u \in {x} \cup {v \in X : to[v] = x}}
  <2> SUFFICES ASSUME NEW x \in Members PROVE <1>3!(x)
    OBVIOUS
  <2> DEFINE box == UNION {z.room[u].outbox : u \in {x} \cup {v \in X : to[v] = x}}
  <2>1. box \in SUBSET Workers
    BY <1>0, AgentsAre
  <2>2. rm[x] = IF x \in X THEN [z.room[x] EXCEPT !.outbox = {}] ELSE [z.room[x] EXCEPT !.outbox = box]
    BY <1>1
  <2> HIDE DEF box, rm
  <2>3. z.room[x] \in Agents
    BY AgentsAre
  <2>4. CASE x \in X
    BY <2>2, <2>3, <2>4 DEF Agents
  <2>5. CASE x \notin X
    <3>1. /\ rm[x] \in Agents
          /\ rm[x].life = z.room[x].life /\ rm[x].parent = z.room[x].parent
          /\ rm[x].stopped = z.room[x].stopped /\ rm[x].queue = z.room[x].queue
          /\ rm[x].report = z.room[x].report
          /\ rm[x].outbox = box
      BY <2>1, <2>2, <2>3, <2>5 DEF Agents
    <3> QED BY <2>5, <3>1 DEF box
  <2> QED BY <2>4, <2>5
<1>4. rm \in RoomSet
  <2>1. rm = [x \in Members |-> rm[x]]
    OBVIOUS
  <2> QED BY <1>3, <2>1 DEF RoomSet
<1> HIDE DEF rm
<1>5. l \in RelaySet /\ l.cur = z.relay.cur /\ l.turns = z.relay.turns /\ l.sending = z.relay.sending
  BY DEF States, RelaySet
<1> HIDE DEF l
<1>6. y \in States /\ y.room = rm /\ y.relay = l /\ y.hist = z.hist
  BY <1>4, <1>5 DEF States
<1> HIDE DEF y
<1>7. ReportsOnly(z, y)
  BY <1>3, <1>5, <1>6 DEF ReportsOnly, SameQueues, SameTurns
<1>8. /\ Tree(y)
      /\ \A x \in Members : /\ Above(y, x) = Above(z, x) /\ (Live(y, x) <=> Live(z, x))
                            /\ (IsMember(y, x) <=> IsMember(z, x))
  <2>1. \A x \in Members : /\ y.room[x].life = z.room[x].life /\ y.room[x].parent = z.room[x].parent
                           /\ y.room[x].stopped = z.room[x].stopped /\ y.room[x].report = z.room[x].report
    BY <1>3, <1>6
  <2> QED BY <2>1, WorkersAre, TreeSame
<1>9. /\ \A x \in X : y.room[x].outbox = {}
      /\ \A x \in Members \ X : y.room[x].outbox =
            UNION {z.room[u].outbox : u \in {x} \cup {v \in X : to[v] = x}}
  BY <1>0, <1>3, <1>6
<1>10. Readers(y, Members)
  <2> SUFFICES ASSUME NEW x \in Members, y.room[x].outbox # {} PROVE Live(y, x)
    BY DEF Readers
  <2>1. x \in Members \ X
    BY <1>9
  <2>2. CASE z.room[x].outbox # {}
    BY <1>8, <2>1, <2>2 DEF Readers
  <2>3. CASE \E u \in X : to[u] = x
    BY <1>1, <1>8, <2>3
  <2>4. y.room[x].outbox = UNION {z.room[u].outbox : u \in {x} \cup {v \in X : to[v] = x}}
    BY <1>9, <2>1
  <2> QED BY <2>2, <2>3, <2>4
<1>11. Kept(y)
  <2> SUFFICES ASSUME NEW u \in Workers, IsMember(y, u), y.room[u].report.at > y.hist.told[u]
               PROVE  \E x \in Above(y, u) : u \in y.room[x].outbox
    BY DEF Kept
  <2>1. u \in Members /\ Above(y, u) = Above(z, u) /\ IsMember(z, u) /\ z.room[u].report.at > z.hist.told[u]
    BY <1>3, <1>6, <1>8, WorkersAre
  <2>2. PICK x \in Above(z, u) : u \in z.room[x].outbox
    BY <2>1 DEF Kept
  <2>3. x \in Members
    BY AboveMembers
  <2>4. CASE x \in X
    <3>1. to[x] \in Above(z, u) /\ to[x] \in Members /\ to[x] \notin X
      BY <1>1, <2>2, <2>4, AboveTrans
    <3>2. u \in y.room[to[x]].outbox
      <4>1. to[x] \in Members \ X /\ x \in {to[x]} \cup {v \in X : to[v] = to[x]}
        BY <2>4, <3>1
      <4>2. u \in UNION {z.room[t].outbox : t \in {to[x]} \cup {v \in X : to[v] = to[x]}}
        BY <2>2, <4>1
      <4> QED BY <1>9, <4>1, <4>2
    <3> QED BY <2>1, <3>1, <3>2
  <2>5. CASE x \notin X
    BY <1>9, <2>1, <2>2, <2>3, <2>5
  <2> QED BY <2>4, <2>5
<1>12. {to[x] : x \in X} \subseteq Members \cup {NoOne}
  BY <1>1
<1>13. Quiet(y, ConsiderDigest(y, {to[x] : x \in X}))
  BY <1>6, <1>12, ConsiderIs
<1> QED BY <1>2, <1>7, <1>8, <1>10, <1>11, <1>13, QuietReports, ReportsTrans DEF ReportsGood

LEMMA StopTurnsIs ==
  ASSUME NEW z \in States, NEW X, NEW L
  PROVE  LET y == StopTurns(z, X, L) IN
         /\ y \in States /\ y.room = z.room /\ y.hist = z.hist /\ y.relay.sending = z.relay.sending
         /\ y.relay.up = z.relay.up
         /\ \A x \in Members :
              /\ y.relay.turns[x] = IF x \in X THEN <<>> ELSE z.relay.turns[x]
              /\ x \notin X => y.relay.cur[x] = z.relay.cur[x]
              /\ y.relay.cur[x].kind = z.relay.cur[x].kind /\ y.relay.cur[x].msg = z.relay.cur[x].msg
              /\ y.relay.cur[x].taken = z.relay.cur[x].taken
              /\ x \in X /\ z.relay.cur[x] # NoTurn => y.relay.cur[x].stop
              /\ z.relay.cur[x] = NoTurn => y.relay.cur[x] = NoTurn
<1> DEFINE y == StopTurns(z, X, L)
           u == [x \in Members |-> IF x \in X THEN <<>> ELSE z.relay.turns[x]]
           c == [x \in Members |-> IF x \in X /\ z.relay.cur[x] # NoTurn THEN Halt(z.relay.cur[x], x \in L)
                                   ELSE z.relay.cur[x]]
           l == [z.relay EXCEPT !.turns = u, !.cur = c]
<1>1. y = [z EXCEPT !.relay = l]
  BY DEF StopTurns, States
<1>2. u \in [Members -> Seq(TurnSet)]
  <2>1. <<>> \in Seq(TurnSet)
    BY EmptySeq
  <2> QED BY <2>1 DEF States, RelaySet
<1>3. \A x \in Members :
        /\ c[x] \in TurnSet
        /\ x \notin X => c[x] = z.relay.cur[x]
        /\ c[x].kind = z.relay.cur[x].kind /\ c[x].msg = z.relay.cur[x].msg
        /\ c[x].taken = z.relay.cur[x].taken
        /\ x \in X /\ z.relay.cur[x] # NoTurn => c[x].stop
        /\ z.relay.cur[x] = NoTurn => c[x] = NoTurn
  <2> SUFFICES ASSUME NEW x \in Members PROVE <1>3!(x)
    OBVIOUS
  <2>1. z.relay.cur[x] \in TurnSet
    BY DEF States, RelaySet
  <2>2. c[x] = IF x \in X /\ z.relay.cur[x] # NoTurn
                 THEN Halt(z.relay.cur[x], x \in L) ELSE z.relay.cur[x]
    OBVIOUS
  <2> HIDE DEF c
  <2> QED BY <2>1, <2>2 DEF TurnSet, Halt
<1>4. c \in [Members -> TurnSet]
  <2>1. c = [x \in Members |-> c[x]]
    OBVIOUS
  <2> HIDE DEF c
  <2> QED BY <1>3, <2>1
<1>5. \A x \in Members : u[x] = IF x \in X THEN <<>> ELSE z.relay.turns[x]
  OBVIOUS
<1> HIDE DEF u, c
<1>6. /\ l \in RelaySet /\ l.turns = u /\ l.cur = c /\ l.sending = z.relay.sending /\ l.up = z.relay.up
  BY <1>2, <1>4 DEF States, RelaySet
<1> HIDE DEF l, y
<1>7. y \in States /\ y.room = z.room /\ y.hist = z.hist /\ y.relay = l
  BY <1>1, <1>6 DEF States
<1> QED BY <1>3, <1>5, <1>6, <1>7 DEF y

(* Queues dropped whole. *)
LEMMA DroppedGood ==
  ASSUME NEW z, Queues(z), NEW X \in SUBSET Workers, NEW y,
         \A x \in Workers : y.room[x].queue = IF x \in X THEN <<>> ELSE z.room[x].queue,
         \A m \in Messages : y.hist.fate[m] =
            IF m \in UNION {Range(z.room[x].queue) : x \in X} THEN "dropped" ELSE z.hist.fate[m],
         y.hist.sent = z.hist.sent, y.hist.late = z.hist.late /\ y.hist.own = z.hist.own
  PROVE  Queues(y)
<1> DEFINE ms == UNION {Range(z.room[x].queue) : x \in X}
<1>1. DOMAIN <<>> = {} /\ Range(<<>>) = {}
  BY DEF Range
<1>2. ASSUME NEW v \in Workers, NEW w \in Workers, NEW i \in DOMAIN y.room[v].queue, NEW j \in DOMAIN y.room[w].queue,
             y.room[v].queue[i] = y.room[w].queue[j], y.room[v].queue[i] # Reminder
      PROVE  v = w /\ i = j
  <2>1. v \notin X /\ w \notin X
    BY <1>1, <1>2
  <2>2. y.room[v].queue = z.room[v].queue /\ y.room[w].queue = z.room[w].queue
    BY <2>1
  <2> QED BY <1>2, <2>2 DEF Queues
<1>3. ASSUME NEW m \in Messages
      PROVE  y.hist.fate[m] = "queued" <=> \E x \in Workers : m \in Range(y.room[x].queue)
  <2>1. CASE m \in ms
    <3>1. PICK x \in X : m \in Range(z.room[x].queue)
      BY <2>1
    <3>2. PICK i \in DOMAIN z.room[x].queue : z.room[x].queue[i] = m
      BY <3>1 DEF Range
    <3>3. m # Reminder
      BY DEF Messages, Reminder
    <3>4. ASSUME NEW w \in Workers, m \in Range(y.room[w].queue) PROVE FALSE
      <4>1. w \notin X /\ y.room[w].queue = z.room[w].queue
        BY <1>1, <3>4
      <4>2. PICK j \in DOMAIN z.room[w].queue : z.room[w].queue[j] = m
        BY <3>4, <4>1 DEF Range
      <4>3. w = x
        BY <3>2, <3>3, <4>2 DEF Queues
      <4> QED BY <4>1, <4>3
    <3> QED BY <2>1, <3>4
  <2>2. CASE m \notin ms
    <3>1. \A x \in Workers : m \in Range(y.room[x].queue) <=> m \in Range(z.room[x].queue)
      BY <1>1, <2>2
    <3>2. y.hist.fate[m] = z.hist.fate[m]
      BY <2>2
    <3> QED BY <3>1, <3>2 DEF Queues
  <2> QED BY <2>1, <2>2
<1>4. ASSUME NEW m \in Messages, m > y.hist.sent PROVE y.hist.fate[m] = "new"
  <2>1. z.hist.fate[m] = "new"
    BY <1>4 DEF Queues
  <2>2. m \notin ms
    BY <2>1 DEF Queues
  <2> QED BY <2>1, <2>2
<1>5. \A m \in Messages : y.hist.fate[m] \in {"taken", "refused"} => <<m, y.hist.fate[m]>> \in y.hist.own
  BY DEF Queues
<1> QED BY <1>2, <1>3, <1>4, <1>5 DEF Queues

LEMMA MarkStoppedIs ==
  ASSUME NEW z \in States, Queues(z), NEW X \in SUBSET Workers, NEW reason \in Stops
  PROVE  LET y == MarkStopped(z, X, reason) IN
         /\ y \in States /\ y.relay = z.relay /\ y.hist.told = z.hist.told
         /\ Queues(y)
         /\ \A x \in Members :
              /\ y.room[x].life = z.room[x].life /\ y.room[x].parent = z.room[x].parent
              /\ y.room[x].report = z.room[x].report /\ y.room[x].outbox = z.room[x].outbox
              /\ y.room[x].stopped = IF x \in X THEN reason ELSE z.room[x].stopped
              /\ y.room[x].queue = IF x \in X THEN <<>> ELSE z.room[x].queue
<1> DEFINE y == MarkStopped(z, X, reason)
           rm == [x \in Members |-> IF x \in X THEN [z.room[x] EXCEPT !.stopped = reason, !.queue = <<>>] ELSE z.room[x]]
           u == [z EXCEPT !.room = rm]
           ms == UNION {Range(z.room[x].queue) : x \in X}
<1>1. \A x \in Members :
        /\ rm[x] \in Agents
        /\ rm[x].life = z.room[x].life /\ rm[x].parent = z.room[x].parent
        /\ rm[x].report = z.room[x].report /\ rm[x].outbox = z.room[x].outbox
        /\ rm[x].stopped = IF x \in X THEN reason ELSE z.room[x].stopped
        /\ rm[x].queue = IF x \in X THEN <<>> ELSE z.room[x].queue
  <2> SUFFICES ASSUME NEW x \in Members PROVE <1>1!(x)
    OBVIOUS
  <2>1. z.room[x] \in Agents /\ <<>> \in Seq(0..MaxMessages)
    BY AgentsAre, EmptySeq
  <2>2. rm[x] = IF x \in X THEN [z.room[x] EXCEPT !.stopped = reason, !.queue = <<>>] ELSE z.room[x]
    OBVIOUS
  <2> HIDE DEF rm
  <2> QED BY <2>1, <2>2 DEF Agents
<1>2. rm \in RoomSet
  <2>1. rm = [x \in Members |-> rm[x]]
    OBVIOUS
  <2> HIDE DEF rm
  <2> QED BY <1>1, <2>1 DEF RoomSet
<1>3. y = Fate(u, ms, "dropped")
  BY DEF MarkStopped
<1> HIDE DEF rm
<1>4. u \in States /\ u.room = rm /\ u.relay = z.relay /\ u.hist = z.hist
  BY <1>2 DEF States
<1> HIDE DEF u, y
<1>5. /\ y \in States /\ y.room = rm /\ y.relay = z.relay
      /\ y.hist.told = z.hist.told /\ y.hist.sent = z.hist.sent /\ y.hist.late = z.hist.late /\ y.hist.own = z.hist.own
      /\ \A m \in Messages : y.hist.fate[m] = IF m \in ms THEN "dropped" ELSE z.hist.fate[m]
  <2>1. "dropped" \in Fates
    BY DEF Fates
  <2> HIDE DEF ms
  <2> QED BY <1>3, <1>4, <2>1, FateIs
<1>6. \A x \in Workers : y.room[x].queue = IF x \in X THEN <<>> ELSE z.room[x].queue
  BY <1>1, <1>5, WorkersAre
<1>7. Queues(y)
  BY <1>5, <1>6, DroppedGood
<1> QED BY <1>1, <1>5, <1>7 DEF y

(* Between two steps, no session that has turns waiting is without one.    *)
Idle(z) == \A x \in Members : z.relay.cur[x] = NoTurn => z.relay.turns[x] = <<>>

(* Agents marked as stopped and their turns stopped, before their outboxes *)
(* are handed up: all holds but that their reports wait with live agents.  *)
LEMMA SilencedIs ==
  ASSUME NEW z, Good(z), Idle(z), NEW X \in SUBSET Workers, NEW reason \in Stops, reason # "no",
         \A x \in X : z.room[x].life # "unborn", NEW L
  PROVE  LET y == StopTurns(MarkStopped(z, X, reason), X, L) IN
         /\ y \in States /\ Tree(y) /\ Readers(y, Members \ X) /\ Kept(y)
         /\ Queues(y) /\ Heads(y) /\ Sending(y, Members)
         /\ \A x \in Members : y.room[x].life = z.room[x].life
         /\ \A x \in X : ~Live(y, x)
<1> DEFINE v == MarkStopped(z, X, reason)
           y == StopTurns(v, X, L)
<1>0. z \in States /\ X \subseteq Members /\ Principal \notin X
  BY WorkersAre DEF Good
<1>1. /\ v \in States /\ v.relay = z.relay /\ v.hist.told = z.hist.told
      /\ Queues(v)
      /\ \A x \in Members :
              /\ v.room[x].life = z.room[x].life /\ v.room[x].parent = z.room[x].parent
              /\ v.room[x].report = z.room[x].report /\ v.room[x].outbox = z.room[x].outbox
              /\ v.room[x].stopped = IF x \in X THEN reason ELSE z.room[x].stopped
              /\ v.room[x].queue = IF x \in X THEN <<>> ELSE z.room[x].queue
  BY <1>0, MarkStoppedIs DEF Good
<1> HIDE DEF v
<1>2. /\ y \in States /\ y.room = v.room /\ y.hist = v.hist /\ y.relay.sending = z.relay.sending
      /\ \A x \in Members :
              /\ y.relay.turns[x] = IF x \in X THEN <<>> ELSE z.relay.turns[x]
              /\ x \notin X => y.relay.cur[x] = z.relay.cur[x]
              /\ y.relay.cur[x].kind = z.relay.cur[x].kind /\ y.relay.cur[x].msg = z.relay.cur[x].msg
              /\ y.relay.cur[x].taken = z.relay.cur[x].taken
              /\ x \in X /\ z.relay.cur[x] # NoTurn => y.relay.cur[x].stop
              /\ z.relay.cur[x] = NoTurn => y.relay.cur[x] = NoTurn
  BY <1>1, StopTurnsIs
<1> HIDE DEF y
<1>3. \A x \in Members : /\ y.room[x].life = z.room[x].life /\ y.room[x].parent = z.room[x].parent
                         /\ y.room[x].report = z.room[x].report /\ y.room[x].outbox = z.room[x].outbox
                         /\ y.room[x].stopped = IF x \in X THEN reason ELSE z.room[x].stopped
                         /\ y.room[x].queue = IF x \in X THEN <<>> ELSE z.room[x].queue
  BY <1>1, <1>2
<1>4. \A x \in Members : Above(y, x) = Above(z, x) /\ (IsMember(y, x) <=> IsMember(z, x))
  BY <1>3, AboveSame DEF IsMember
<1>5. Tree(y)
  <2>1. \A w \in Workers : w \in Members
    BY WorkersAre
  <2>2. y.room[Principal].life = "member" /\ y.room[Principal].stopped = "no" /\ y.room[Principal].parent = NoOne
    BY <1>0, <1>3, WorkersAre DEF Good, Tree
  <2> QED BY <1>3, <1>4, <2>1, <2>2 DEF Good, Tree
<1>6. Readers(y, Members \ X)
  BY <1>3 DEF Good, Readers, Live, IsMember
<1>7. Kept(y)
  <2> SUFFICES ASSUME NEW u \in Workers, IsMember(y, u), y.room[u].report.at > y.hist.told[u]
               PROVE  \E x \in Above(y, u) : u \in y.room[x].outbox
    BY DEF Kept
  <2>1. u \in Members /\ IsMember(z, u) /\ z.room[u].report.at > z.hist.told[u] /\ Above(y, u) = Above(z, u)
    BY <1>1, <1>2, <1>3, <1>4, WorkersAre
  <2>2. PICK x \in Above(z, u) : u \in z.room[x].outbox
    BY <2>1 DEF Good, Kept
  <2> QED BY <1>3, <2>1, <2>2, AboveMembers
<1>8. Queues(y)
  BY <1>1, <1>2, SameRoom, FrameQueues
<1>9. Heads(y)
  <2> SUFFICES ASSUME NEW x \in Members PROVE Heads(y)!(x)
    BY DEF Heads
  <2>1. CASE x \in X
    <3>1. DOMAIN y.relay.turns[x] = {}
      BY <1>2, <2>1
    <3>2. y.relay.cur[x].kind = "none" \/ y.relay.cur[x].stop
      BY <1>2, <2>1, TurnIs, NoReportsIs, BoundsAssumption DEF NoTurn
    <3>3. x \in Workers
      BY <2>1
    <3> QED BY <3>1, <3>2, <3>3
  <2>2. CASE x \notin X
    <3>1. \A m : HeadIs(z, x, m) => HeadIs(y, x, m)
      BY <1>3, <2>2 DEF HeadIs
    <3> QED BY <1>2, <2>2, <3>1 DEF Good, Heads
  <2> QED BY <2>1, <2>2
<1>10. Sending(y, Members)
  <2> SUFFICES ASSUME NEW x \in Members, y.relay.sending[x].on PROVE Sending(y, Members)!(x)
    BY DEF Sending
  <2>1. /\ z.relay.cur[x].kind = "message" /\ z.relay.cur[x].msg = z.relay.sending[x].msg
        /\ (z.relay.sending[x].delivered <=> z.relay.cur[x].taken)
    BY <1>2 DEF Good, Sending, Idle
  <2> QED BY <1>2, <2>1
<1>11. \A x \in X : ~Live(y, x)
  BY <1>0, <1>3 DEF Live
<1> QED BY <1>2, <1>3, <1>5, <1>6, <1>7, <1>8, <1>9, <1>10, <1>11 DEF y, v

(* What a part does with reports and queues, and not with turns. *)
NoTurns(z, y) ==
  /\ y \in States /\ SameTurns(z, y)
  /\ \A x \in Members : /\ y.room[x].life = z.room[x].life /\ y.room[x].parent = z.room[x].parent
                        /\ y.room[x].stopped = z.room[x].stopped

LEMMA OwedGood ==
  ASSUME NEW z \in States, ReportsGood(z), Queues(z), NEW x \in Workers, z.room[x].life # "unborn",
         NEW t \in TurnSet, NEW out
  PROVE  LET y == Owed(z, x, t, out) IN
         /\ NoTurns(z, y) /\ ReportsGood(y) /\ Queues(y)
         /\ \A v \in Members : \A m : HeadIs(z, v, m) => HeadIs(y, v, m)
<1> DEFINE y == Owed(z, x, t, out)
<1>0. x \in Members /\ z.room[x].report \in Reports
  BY WorkersAre, AgentsAre
<1>1. CASE y = z
  BY <1>1 DEF NoTurns, SameTurns
<1>2. ASSUME NEW urgent \in BOOLEAN, NEW synthetic \in BOOLEAN, y = RecordReport(z, x, urgent, synthetic)
      PROVE  /\ NoTurns(z, y) /\ ReportsGood(y) /\ Queues(y)
             /\ \A v \in Members : \A m : HeadIs(z, v, m) => HeadIs(y, v, m)
  <2> HIDE DEF y
  <2>1. ReportsOnly(z, y) /\ ReportsGood(y)
    BY <1>2, RecordReportGood
  <2> QED BY <2>1, FrameQueues, SameHeads DEF ReportsOnly, NoTurns
<1>3. CASE z.room[x].queue = <<>> /\ y = [z EXCEPT !.room[x].queue = <<Reminder>>]
  <2>1. y = WithQueue(z, x, <<Reminder>>)
    BY <1>3 DEF WithQueue
  <2>2. <<Reminder>> \in Seq(0..MaxMessages)
    BY BoundsAssumption DEF Reminder
  <2> HIDE DEF y
  <2>3. /\ y \in States /\ SameReports(z, y)
        /\ y.relay = z.relay /\ y.hist = z.hist
        /\ y.room[x].queue = <<Reminder>>
        /\ \A v \in Members : v # x => y.room[v] = z.room[v]
    BY <1>0, <2>1, <2>2, QueueSet
  <2>4. \A v \in Members : \A m : HeadIs(z, v, m) => HeadIs(y, v, m)
    BY <1>3, <2>3 DEF HeadIs
  <2>5. \A w \in Workers : y.room[w].queue = IF w = x THEN <<Reminder>> ELSE z.room[w].queue
    BY <2>3, WorkersAre
  <2>6. Queues(y)
    <3>1. DOMAIN <<Reminder>> = {1} /\ <<Reminder>>[1] = Reminder /\ Range(<<Reminder>>) = {Reminder}
          /\ Range(<<>>) = {}
      BY DEF Range
    <3>2. ASSUME NEW v \in Workers, NEW w \in Workers, NEW i \in DOMAIN y.room[v].queue, NEW j \in DOMAIN y.room[w].queue,
                 y.room[v].queue[i] = y.room[w].queue[j], y.room[v].queue[i] # Reminder
          PROVE  v = w /\ i = j
      <4>1. v # x /\ w # x
        BY <2>5, <3>1, <3>2
      <4> QED BY <2>5, <3>2, <4>1 DEF Queues
    <3>3. ASSUME NEW m \in Messages, NEW w \in Workers
          PROVE  m \in Range(y.room[w].queue) <=> m \in Range(z.room[w].queue)
      <4>1. m # Reminder
        BY DEF Messages, Reminder
      <4> QED BY <1>3, <2>5, <3>1, <4>1
    <3> QED BY <2>3, <3>2, <3>3 DEF Queues
  <2> QED BY <2>3, <2>4, <2>6, FrameReports DEF NoTurns, SameTurns, SameReports, ReportsGood, y
<1>4. \/ y = z
      \/ z.room[x].queue = <<>> /\ y = [z EXCEPT !.room[x].queue = <<Reminder>>]
      \/ \E urgent, synthetic \in BOOLEAN : y = RecordReport(z, x, urgent, synthetic)
  <2>1. z.room[x].report.urgent \in BOOLEAN
    BY <1>0 DEF Reports
  <2> QED BY <2>1 DEF Owed
<1> QED BY <1>1, <1>2, <1>3, <1>4

LEMMA ClearSending ==
  ASSUME NEW z \in States, NEW x \in Members
  PROVE  LET y == [z EXCEPT !.relay.sending[x] = NoSending] IN
         /\ y \in States /\ y.room = z.room /\ y.hist = z.hist
         /\ y.relay.cur = z.relay.cur /\ y.relay.turns = z.relay.turns
         /\ ~y.relay.sending[x].on
         /\ \A v \in Members : v # x => y.relay.sending[v] = z.relay.sending[v]
<1> DEFINE y == [z EXCEPT !.relay.sending[x] = NoSending]
           snd == [z.relay.sending EXCEPT ![x] = NoSending]
           l == [z.relay EXCEPT !.sending = snd]
<1>1. y = [z EXCEPT !.relay = l]
  BY DEF States
<1>2. /\ snd \in [Members -> Sendings] /\ ~snd[x].on
      /\ \A v \in Members : v # x => snd[v] = z.relay.sending[v]
  BY NoSendingIs DEF States, RelaySet
<1> HIDE DEF snd
<1>3. l \in RelaySet /\ l.cur = z.relay.cur /\ l.turns = z.relay.turns /\ l.sending = snd
  BY <1>2 DEF States, RelaySet
<1> HIDE DEF l, y
<1>4. y \in States /\ y.room = z.room /\ y.hist = z.hist /\ y.relay = l
  BY <1>1, <1>3 DEF States
<1> QED BY <1>2, <1>3, <1>4 DEF y

(* What history says of a turn's end: of the message at the head of a      *)
(* queue, its own turn.                                                    *)
LEMMA OwnTurnIs ==
  ASSUME NEW z \in States, Queues(z), NEW t, NEW f \in {"taken", "refused"}
  PROVE  LET y == OwnTurn(z, t, f) IN
         /\ y \in States /\ y.room = z.room /\ y.relay = z.relay
         /\ SameReports(z, y) /\ Queues(y)
         /\ \A x \in Members : \A m \in Messages :
              t.kind = "message" /\ t.msg = m /\ HeadIs(z, x, m) => <<m, f>> \in y.hist.own
<1> DEFINE o == z.hist.own \cup ({m \in Messages : t.kind = "message" /\ m = t.msg /\ z.hist.fate[m] = "queued"} \X {f})
           h == [z.hist EXCEPT !.own = o]
           y == OwnTurn(z, t, f)
<1>1. y = [z EXCEPT !.hist = h]
  BY DEF OwnTurn, States
<1>2. /\ o \in SUBSET (Messages \X {"taken", "refused"}) /\ z.hist.own \subseteq o
      /\ \A m \in Messages : t.kind = "message" /\ t.msg = m /\ z.hist.fate[m] = "queued" => <<m, f>> \in o
  BY DEF States, HistSet
<1> HIDE DEF o
<1>3. /\ h \in HistSet /\ h.own = o /\ h.told = z.hist.told /\ h.fate = z.hist.fate
      /\ h.sent = z.hist.sent /\ h.late = z.hist.late
  BY <1>2 DEF States, HistSet
<1> HIDE DEF h, y
<1>4. y \in States /\ y.room = z.room /\ y.relay = z.relay /\ y.hist = h
  BY <1>1, <1>3 DEF States
<1>5. SameReports(z, y)
  BY <1>3, <1>4 DEF SameReports
<1>6. Queues(y)
  BY <1>2, <1>3, <1>4 DEF Queues
<1>7. ASSUME NEW x \in Members, NEW m \in Messages, t.kind = "message", t.msg = m, HeadIs(z, x, m)
      PROVE  <<m, f>> \in y.hist.own
  <2> DEFINE q == z.room[x].queue
  <2>1. x \in Workers /\ q \in Seq(0..MaxMessages) /\ q # <<>> /\ Head(q) = m
    BY <1>7, QueueIs DEF HeadIs
  <2> HIDE DEF q
  <2>2. m \in Range(q)
    BY <2>1, RangeIs
  <2>3. z.hist.fate[m] = "queued"
    BY <2>1, <2>2 DEF Queues, q
  <2> QED BY <1>2, <1>3, <1>4, <1>7, <2>3
<1> QED BY <1>4, <1>5, <1>6, <1>7 DEF y

(* A session's turn is over, before the manager hears of it. *)
LEMMA TurnOver ==
  ASSUME NEW z, Good(z), NEW x \in Members, z.relay.cur[x] # NoTurn,
         NEW y \in States, y.room = z.room, y.hist = z.hist, y.relay.turns = z.relay.turns,
         y.relay.sending = z.relay.sending,
         y.relay.cur[x] = NoTurn, \A v \in Members : v # x => y.relay.cur[v] = z.relay.cur[v]
  PROVE  /\ SameReports(z, y) /\ SameQueues(z, y) /\ ReportsGood(y) /\ Queues(y)
         /\ Heads(y) /\ Free(y, x) /\ Sending(y, Members \ {x})
<1>1. SameReports(z, y) /\ SameQueues(z, y)
  BY SameRoom
<1>2. ReportsGood(y) /\ Queues(y)
  BY <1>1, FrameReports, FrameQueues DEF Good, ReportsGood
<1>3. NoTurn.kind = "none"
  BY TurnIs, NoReportsIs, BoundsAssumption DEF NoTurn
<1>4. Free(y, x)
  BY <1>3 DEF Free, Good, Heads
<1>5. Heads(y)
  <2>1. \A v, m : HeadIs(z, v, m) => HeadIs(y, v, m)
    BY DEF HeadIs
  <2> SUFFICES ASSUME NEW v \in Members PROVE Heads(y)!(v)
    BY DEF Heads
  <2>2. CASE v = x
    BY <1>3, <2>2 DEF Good, Heads
  <2>3. CASE v # x
    BY <2>1, <2>3 DEF Good, Heads
  <2> QED BY <2>2, <2>3
<1>6. Sending(y, Members \ {x})
  BY DEF Good, Sending
<1> QED BY <1>1, <1>2, <1>4, <1>5, <1>6

LEMMA AfterTurnIs ==
  ASSUME NEW z, NEW x, NEW t, NEW out
  PROVE  LET told == [Owed(z, x, t, out) EXCEPT !.relay.sending[x] = NoSending]
             sent == Pump(told, {x})
         IN AfterTurn(z, x, t, out) = ConsiderDigest(sent, {x, LiveAncestor(sent, x)})
BY DEF AfterTurn, Then

LEMMA AncestorIn == \A z, x : LiveAncestor(z, x) \in Members \cup {NoOne}
BY AboveMembers DEF LiveAncestor

(* A turn's end, whatever it leaves to do. *)
LEMMA TurnSettledGood ==
  ASSUME NEW z, Good(z), NEW x \in Members, z.relay.cur[x] # NoTurn, NEW out
  PROVE  Good(TurnSettled(z, x, out))
<1> DEFINE t == z.relay.cur[x]
           s == z.relay.sending[x]
           lost == s.on /\ ~s.delivered
           undelivered == t.kind = "digest" /\ x \in z.relay.digests /\ (t.stop \/ ~t.taken) /\ out # "done"
           z0 == IF ~t.taken /\ z.relay.up THEN OwnTurn(z, t, "refused") ELSE z
           ds == IF t.kind = "digest" THEN z0.relay.digests \ {x} ELSE z0.relay.digests
           fs == IF undelivered THEN z0.relay.failed \cup {x}
                 ELSE IF t.kind = "digest" THEN z0.relay.failed ELSE z0.relay.failed \ {x}
           z1 == [z0 EXCEPT !.relay.cur[x] = NoTurn, !.relay.rejected = @ \ {x},
                            !.relay.digests = ds, !.relay.failed = fs]
           over == [z1 EXCEPT !.relay.sending[x] = NoSending]
           kept == IF lost THEN RemoveQueued(z1, x, s.msg, "refused") ELSE z1
           owed == Owed(kept, x, t, out)
           told == [owed EXCEPT !.relay.sending[x] = NoSending]
           sent == Pump(told, {x})
           y == TurnSettled(z, x, out)
<1>0. z \in States /\ t \in TurnSet /\ s \in Sendings
  BY DEF Good, States, RelaySet
<1>1. \/ x = Principal /\ y = ConsiderDigest(over, {x})
      \/ y = over
      \/ /\ x # Principal /\ Live(z0, x) /\ ~(lost /\ ~z0.relay.up)
         /\ y = ConsiderDigest(sent, {x, LiveAncestor(sent, x)})
  <2>1. \/ x = Principal /\ y = ConsiderDigest(over, {x})
        \/ y = over
        \/ x # Principal /\ Live(z0, x) /\ ~(lost /\ ~z0.relay.up) /\ y = AfterTurn(kept, x, t, out)
    BY DEF TurnSettled
  <2> HIDE DEF y, kept, over, z0
  <2> QED BY <2>1, AfterTurnIs
<1>own. /\ Good(z0) /\ z0 \in States /\ z0.relay = z.relay /\ z0.room = z.room
        /\ lost /\ z0.relay.up /\ s.msg \in Messages /\ HeadIs(z, x, s.msg) => <<s.msg, "refused">> \in z0.hist.own
  <2>1. CASE ~t.taken /\ z.relay.up
    <3>1. /\ z0 \in States /\ z0.room = z.room /\ z0.relay = z.relay
          /\ SameReports(z, z0) /\ Queues(z0)
          /\ \A m \in Messages : t.kind = "message" /\ t.msg = m /\ HeadIs(z, x, m) => <<m, "refused">> \in z0.hist.own
      BY <1>0, <2>1, OwnTurnIs DEF Good
    <3> HIDE DEF z0
    <3>2. Heads(z0) /\ Sending(z0, Members)
      BY <3>1 DEF Good, Heads, HeadIs, Sending
    <3>3. Good(z0)
      BY <3>1, <3>2, FrameReports DEF Good
    <3>4. lost => t.kind = "message" /\ t.msg = s.msg
      BY DEF Good, Sending
    <3> QED BY <3>1, <3>3, <3>4
  <2>2. CASE ~(~t.taken /\ z.relay.up)
    <3>1. z0 = z
      BY <2>2
    <3>2. lost => ~t.taken
      BY <1>0 DEF Good, Sending, TurnSet, Sendings
    <3> QED BY <1>0, <2>2, <3>1, <3>2
  <2> QED BY <2>1, <2>2
<1> HIDE DEF z0
<1> HIDE DEF y
<1>2. /\ z1 \in States /\ z1.room = z0.room /\ z1.hist = z0.hist /\ z1.relay.turns = z0.relay.turns
      /\ z1.relay.sending = z0.relay.sending
      /\ z1.relay.cur[x] = NoTurn /\ \A v \in Members : v # x => z1.relay.cur[v] = z0.relay.cur[v]
  <2> DEFINE c == [z0.relay.cur EXCEPT ![x] = NoTurn]
             l == [z0.relay EXCEPT !.cur = c, !.rejected = @ \ {x}, !.digests = ds, !.failed = fs]
  <2>1. z1 = [z0 EXCEPT !.relay = l]
    BY <1>own DEF States
  <2>2. /\ c \in [Members -> TurnSet] /\ c[x] = NoTurn /\ \A v \in Members : v # x => c[v] = z0.relay.cur[v]
    <3>1. NoTurn \in TurnSet
      BY TurnIs, NoReportsIs, BoundsAssumption DEF Kinds
    <3> QED BY <1>own, <3>1 DEF States, RelaySet
  <2>3. ds \in SUBSET Members /\ fs \in SUBSET Members
    BY <1>own DEF States, RelaySet
  <2> HIDE DEF c, ds, fs
  <2>4. l \in RelaySet /\ l.cur = c /\ l.turns = z0.relay.turns /\ l.sending = z0.relay.sending
    BY <1>own, <2>2, <2>3 DEF States, RelaySet
  <2> HIDE DEF l, z1
  <2> QED BY <1>own, <2>1, <2>2, <2>4 DEF States
<1> HIDE DEF z1
<1>3. /\ SameReports(z0, z1) /\ SameQueues(z0, z1) /\ ReportsGood(z1) /\ Queues(z1)
      /\ Heads(z1) /\ Free(z1, x) /\ Sending(z1, Members \ {x})
  BY <1>2, <1>own, TurnOver
<1>4. Good(over)
  <2>1. /\ over \in States /\ over.room = z1.room /\ over.hist = z1.hist
        /\ over.relay.cur = z1.relay.cur /\ over.relay.turns = z1.relay.turns
        /\ ~over.relay.sending[x].on
        /\ \A v \in Members : v # x => over.relay.sending[v] = z1.relay.sending[v]
    BY <1>2, ClearSending
  <2> HIDE DEF over
  <2>2. Heads(over)
    BY <1>3, <2>1 DEF Heads, HeadIs
  <2>3. Sending(over, Members)
    BY <1>3, <2>1 DEF Sending
  <2> QED BY <1>2, <1>own, <2>1, <2>2, <2>3, SameRoom, GoodParts
<1>5. CASE x = Principal /\ y = ConsiderDigest(over, {x})
  <2> HIDE DEF over
  <2>1. over \in States
    BY <1>4 DEF Good
  <2> QED BY <1>4, <1>5, <2>1, ConsiderIs, QuietGood DEF y
<1>6. CASE y = over
  BY <1>4, <1>6 DEF y
<1>7. CASE /\ x # Principal /\ Live(z0, x) /\ ~(lost /\ ~z0.relay.up)
           /\ y = ConsiderDigest(sent, {x, LiveAncestor(sent, x)})
  <2>0. x \in Workers /\ z0.room[x].life = "member"
    BY <1>7 DEF Members, Live, IsMember
  <2>1. /\ kept \in States /\ SameReports(z1, kept) /\ kept.relay = z1.relay /\ Queues(kept)
        /\ \A v \in Members : v # x => kept.room[v] = z1.room[v]
    <3>1. s.msg \in 0..MaxMessages
      BY <1>0 DEF Sendings
    <3>2. CASE lost
      <4>1. HeadIs(z1, x, s.msg) /\ s.msg \in Messages => <<s.msg, "refused">> \in z1.hist.own
        BY <1>2, <1>7, <1>own, <3>2 DEF HeadIs
      <4> QED BY <1>2, <1>3, <2>0, <3>1, <3>2, <4>1, RemoveQueuedIs
    <3>3. CASE ~lost
      BY <1>2, <1>3, <3>3 DEF SameReports
    <3> QED BY <3>2, <3>3
  <2> HIDE DEF kept
  <2>2. ReportsGood(kept) /\ kept.room[x].life = "member"
    BY <1>2, <1>3, <2>0, <2>1, FrameReports DEF ReportsGood, SameReports
  <2>3. Heads(kept) /\ Free(kept, x) /\ Sending(kept, Members \ {x})
    <3>1. \A v \in Members : Free(z1, v) \/ \A m : HeadIs(z1, v, m) => HeadIs(kept, v, m)
      BY <1>3, <2>1 DEF HeadIs
    <3> QED BY <1>3, <2>1, <3>1, FrameTurns DEF SameTurns, Free
  <2>4. /\ NoTurns(kept, owed) /\ ReportsGood(owed) /\ Queues(owed)
        /\ \A v \in Members : \A m : HeadIs(kept, v, m) => HeadIs(owed, v, m)
    BY <1>0, <2>0, <2>1, <2>2, OwedGood
  <2> HIDE DEF owed
  <2>5. Heads(owed) /\ Sending(owed, Members \ {x})
    BY <2>3, <2>4, FrameTurns DEF NoTurns
  <2>6. /\ told \in States /\ told.room = owed.room /\ told.hist = owed.hist
        /\ told.relay.cur = owed.relay.cur /\ told.relay.turns = owed.relay.turns
        /\ ~told.relay.sending[x].on
        /\ \A v \in Members : v # x => told.relay.sending[v] = owed.relay.sending[v]
    BY <2>4, ClearSending DEF NoTurns
  <2> HIDE DEF told
  <2>7. Good(told)
    <3>1. Heads(told)
      BY <2>5, <2>6 DEF Heads, HeadIs
    <3>2. Sending(told, Members)
      BY <2>5, <2>6 DEF Sending
    <3>3. ReportsGood(told) /\ Queues(told)
      BY <2>4, <2>6, SameRoom, FrameReports, FrameQueues DEF ReportsGood
    <3> QED BY <2>6, <3>1, <3>2, <3>3 DEF Good, ReportsGood
  <2>8. Good(sent) /\ sent \in States
    BY <2>7, PumpGood DEF Good
  <2> HIDE DEF sent
  <2>9. {x, LiveAncestor(sent, x)} \subseteq Members \cup {NoOne}
    BY AncestorIn
  <2> QED BY <1>7, <2>8, <2>9, ConsiderIs, QuietGood DEF y
<1> QED BY <1>1, <1>5, <1>6, <1>7

-----------------------------------------------------------------------------
(* The end of a step: idle sessions start their turns.                     *)

LEMMA StartedGood ==
  ASSUME NEW z, Good(z)
  PROVE  Good(Started(z)) /\ Idle(Started(z))
<1> DEFINE starts == {x \in Members : z.relay.cur[x] = NoTurn /\ z.relay.turns[x] # <<>>}
           wakes == {x \in starts : z.room[x].stopped = "stopped" /\ Head(z.relay.turns[x]).kind # "digest"}
           c == [x \in Members |-> IF x \in starts THEN [Head(z.relay.turns[x]) EXCEPT !.since = z.room[x].report.at]
                                   ELSE z.relay.cur[x]]
           u == [x \in Members |-> IF x \in starts THEN Tail(z.relay.turns[x]) ELSE z.relay.turns[x]]
           rm == [x \in Members |-> IF x \in wakes THEN [z.room[x] EXCEPT !.stopped = "no"] ELSE z.room[x]]
           l == [z.relay EXCEPT !.cur = c, !.turns = u]
           y == Started(z)
<1>0. z \in States
  BY DEF Good
<1>1. y = [z EXCEPT !.relay = l, !.room = rm]
  <2>1. y = [z EXCEPT !.relay.cur = c, !.relay.turns = u, !.room = rm]
    BY DEF Started
  <2> HIDE DEF c, u, rm, y
  <2> QED BY <1>0, <2>1 DEF States
<1> HIDE DEF y
<1>2. \A x \in Members :
        /\ z.relay.turns[x] \in Seq(TurnSet) /\ z.relay.cur[x] \in TurnSet
        /\ DOMAIN z.relay.turns[x] = 1..Len(z.relay.turns[x]) /\ Len(z.relay.turns[x]) \in Nat
  BY <1>0, LenProperties DEF States, RelaySet
<1>3. ASSUME NEW x \in starts
      PROVE  /\ x \in Members /\ z.relay.cur[x] = NoTurn
             /\ Head(z.relay.turns[x]) = z.relay.turns[x][1] /\ 1 \in DOMAIN z.relay.turns[x]
             /\ z.relay.turns[x][1] \in TurnSet /\ Tail(z.relay.turns[x]) \in Seq(TurnSet)
             /\ \A i \in DOMAIN Tail(z.relay.turns[x]) :
                  i \in Nat \ {0} /\ i + 1 \in DOMAIN z.relay.turns[x] /\ Tail(z.relay.turns[x])[i] = z.relay.turns[x][i + 1]
  <2> DEFINE q == z.relay.turns[x]
  <2>1. x \in Members /\ z.relay.cur[x] = NoTurn /\ q \in Seq(TurnSet) /\ q # <<>>
    BY <1>2
  <2> HIDE DEF q
  <2>2. /\ Head(q) = q[1] /\ Len(q) > 0 /\ Head(q) \in TurnSet /\ DOMAIN q = 1..Len(q) /\ Len(q) \in Nat
        /\ Tail(q) \in Seq(TurnSet) /\ DOMAIN Tail(q) = 1..(Len(q) - 1)
        /\ \A i \in 1..(Len(q) - 1) : Tail(q)[i] = q[i + 1]
    BY <2>1, RangeIs
  <2> QED BY <2>1, <2>2 DEF q
<1>4. \A x \in Members :
        /\ c[x] \in TurnSet
        /\ x \notin starts => c[x] = z.relay.cur[x]
        /\ x \in starts => /\ c[x].kind = z.relay.turns[x][1].kind /\ c[x].msg = z.relay.turns[x][1].msg
                          /\ c[x].taken = z.relay.turns[x][1].taken
  <2> SUFFICES ASSUME NEW x \in Members PROVE <1>4!(x)
    OBVIOUS
  <2>1. CASE x \in starts
    <3>1. c[x] = [z.relay.turns[x][1] EXCEPT !.since = z.room[x].report.at]
      BY <1>3, <2>1
    <3>2. z.room[x].report.at \in Nat
      BY <1>0, AgentsAre
    <3>3. z.relay.turns[x][1] \in TurnSet
      BY <1>3, <2>1
    <3> HIDE DEF c, starts
    <3> QED BY <2>1, <3>1, <3>2, <3>3 DEF TurnSet
  <2>2. CASE x \notin starts
    BY <1>2, <2>2
  <2> QED BY <2>1, <2>2
<1>5. c \in [Members -> TurnSet]
  <2>1. c = [x \in Members |-> c[x]]
    OBVIOUS
  <2> HIDE DEF c
  <2> QED BY <1>4, <2>1
<1>6. /\ \A x \in Members : u[x] = IF x \in starts THEN Tail(z.relay.turns[x]) ELSE z.relay.turns[x]
      /\ u \in [Members -> Seq(TurnSet)]
  BY <1>2, <1>3
<1>7. \A x \in Members :
        /\ rm[x] \in Agents
        /\ rm[x].life = z.room[x].life /\ rm[x].parent = z.room[x].parent
        /\ rm[x].report = z.room[x].report /\ rm[x].outbox = z.room[x].outbox /\ rm[x].queue = z.room[x].queue
        /\ rm[x].stopped = z.room[x].stopped \/ rm[x].stopped = "no"
  <2> SUFFICES ASSUME NEW x \in Members PROVE <1>7!(x)
    OBVIOUS
  <2>1. rm[x] = z.room[x] \/ rm[x] = [z.room[x] EXCEPT !.stopped = "no"]
    OBVIOUS
  <2> HIDE DEF rm
  <2> QED BY <1>0, <2>1, AgentsAre DEF Agents, Stops
<1>8. rm \in RoomSet
  <2>1. rm = [x \in Members |-> rm[x]]
    OBVIOUS
  <2> HIDE DEF rm
  <2> QED BY <1>7, <2>1 DEF RoomSet
<1> HIDE DEF c, u, rm
<1>9. l \in RelaySet /\ l.cur = c /\ l.turns = u /\ l.sending = z.relay.sending
  BY <1>0, <1>5, <1>6 DEF States, RelaySet
<1> HIDE DEF l
<1>10. y \in States /\ y.room = rm /\ y.relay = l /\ y.hist = z.hist
  BY <1>0, <1>1, <1>8, <1>9 DEF States
<1>11. \A x \in Members : Above(y, x) = Above(z, x) /\ (Live(z, x) => Live(y, x)) /\ (IsMember(y, x) <=> IsMember(z, x))
  <2>1. \A x \in Members : y.room[x].parent = z.room[x].parent
    BY <1>7, <1>10
  <2> QED BY <1>7, <1>10, <2>1, AboveSame DEF Live, IsMember
<1>12. Tree(y)
  <2>1. \A w \in Workers : w \in Members
    BY WorkersAre
  <2>2. y.room[Principal].life = "member" /\ y.room[Principal].stopped = "no" /\ y.room[Principal].parent = NoOne
    BY <1>7, <1>10, WorkersAre DEF Good, Tree
  <2> QED BY <1>7, <1>10, <1>11, <2>1, <2>2 DEF Good, Tree
<1>13. Readers(y, Members)
  BY <1>7, <1>10, <1>11 DEF Good, Readers
<1>14. Kept(y)
  <2> SUFFICES ASSUME NEW w \in Workers, IsMember(y, w), y.room[w].report.at > y.hist.told[w]
               PROVE  \E x \in Above(y, w) : w \in y.room[x].outbox
    BY DEF Kept
  <2>1. w \in Members /\ IsMember(z, w) /\ z.room[w].report.at > z.hist.told[w] /\ Above(y, w) = Above(z, w)
    BY <1>7, <1>10, <1>11, WorkersAre
  <2>2. PICK x \in Above(z, w) : w \in z.room[x].outbox
    BY <2>1 DEF Good, Kept
  <2> QED BY <1>7, <1>10, <2>1, <2>2, AboveMembers
<1>15. Queues(y)
  <2>1. SameQueues(z, y)
    BY <1>7, <1>10 DEF SameQueues
  <2> QED BY <2>1, FrameQueues DEF Good
<1>16. NoTurn.kind = "none"
  BY TurnIs, NoReportsIs, BoundsAssumption DEF NoTurn
<1>17. Heads(y)
  <2>1. \A x \in Members : \A m : HeadIs(z, x, m) => HeadIs(y, x, m)
    BY <1>7, <1>10 DEF HeadIs
  <2> SUFFICES ASSUME NEW x \in Members PROVE Heads(y)!(x)
    BY DEF Heads
  <2>2. CASE x \in starts
    <3>1. ASSUME NEW i \in DOMAIN y.relay.turns[x]
          PROVE  y.relay.turns[x][i].kind \notin {"none", "message"}
      <4>1. y.relay.turns[x] = Tail(z.relay.turns[x])
        BY <1>6, <1>9, <1>10, <2>2
      <4>2. /\ i \in Nat \ {0} /\ i + 1 \in DOMAIN z.relay.turns[x]
            /\ y.relay.turns[x][i] = z.relay.turns[x][i + 1]
        BY <1>3, <2>2, <3>1, <4>1
      <4>3. i + 1 # 1
        BY <4>2
      <4> QED BY <4>2, <4>3 DEF Good, Heads
    <3>2. ASSUME y.relay.cur[x].kind = "message" PROVE HeadIs(y, x, y.relay.cur[x].msg)
      <4>1. /\ y.relay.cur[x].kind = z.relay.turns[x][1].kind
            /\ y.relay.cur[x].msg = z.relay.turns[x][1].msg /\ 1 \in DOMAIN z.relay.turns[x]
        BY <1>3, <1>4, <1>9, <1>10, <2>2
      <4>2. HeadIs(z, x, z.relay.turns[x][1].msg)
        BY <3>2, <4>1 DEF Good, Heads
      <4> QED BY <2>1, <4>1, <4>2
    <3> QED BY <3>1, <3>2 DEF HeadIs
  <2>3. CASE x \notin starts
    <3>1. y.relay.cur[x] = z.relay.cur[x] /\ y.relay.turns[x] = z.relay.turns[x]
      BY <1>4, <1>6, <1>9, <1>10, <2>3
    <3> QED BY <2>1, <3>1 DEF Good, Heads
  <2> QED BY <2>2, <2>3
<1>18. Sending(y, Members)
  <2> SUFFICES ASSUME NEW x \in Members, y.relay.sending[x].on PROVE Sending(y, Members)!(x)
    BY DEF Sending
  <2>1. y.relay.sending[x] = z.relay.sending[x]
    BY <1>9, <1>10
  <2>2. CASE x \in starts
    <3>1. /\ z.relay.cur[x] = NoTurn
          /\ y.relay.cur[x].kind = z.relay.turns[x][1].kind /\ y.relay.cur[x].msg = z.relay.turns[x][1].msg
          /\ y.relay.cur[x].taken = z.relay.turns[x][1].taken
      BY <1>3, <1>4, <1>9, <1>10, <2>2
    <3> QED BY <1>16, <2>1, <3>1 DEF Good, Sending
  <2>3. CASE x \notin starts
    <3>1. y.relay.cur[x] = z.relay.cur[x] /\ y.relay.turns[x] = z.relay.turns[x]
      BY <1>4, <1>6, <1>9, <1>10, <2>3
    <3> QED BY <2>1, <3>1 DEF Good, Sending
  <2> QED BY <2>2, <2>3
<1>19. Idle(y)
  <2> SUFFICES ASSUME NEW x \in Members, y.relay.cur[x] = NoTurn PROVE y.relay.turns[x] = <<>>
    BY DEF Idle
  <2>1. CASE x \in starts
    <3>1. y.relay.cur[x].kind = z.relay.turns[x][1].kind /\ 1 \in DOMAIN z.relay.turns[x]
      BY <1>3, <1>4, <1>9, <1>10, <2>1
    <3> QED BY <1>16, <3>1 DEF Good, Heads
  <2>2. CASE x \notin starts
    <3>1. y.relay.cur[x] = z.relay.cur[x] /\ y.relay.turns[x] = z.relay.turns[x]
      BY <1>4, <1>6, <1>9, <1>10, <2>2
    <3> QED BY <2>2, <3>1
  <2> QED BY <2>1, <2>2
<1> QED BY <1>10, <1>12, <1>13, <1>14, <1>15, <1>17, <1>18, <1>19 DEF Good, y

(* The inductive invariant. *)
IInv == Good(Here) /\ Idle(Here) /\ works \subseteq Members

LEMMA BecomeGood ==
  ASSUME NEW z, Good(z), Become(z), works' \subseteq Members
  PROVE  IInv'
<1> DEFINE y == Started(z)
<1>1. Then(z, Started) = y
  BY DEF Then
<1>2. room' = y.room /\ relay' = y.relay /\ hist' = y.hist
  BY <1>1 DEF Become
<1>3. Good(y) /\ Idle(y) /\ y \in States
  BY StartedGood DEF Good
<1>4. Here' = y
  <2> HIDE DEF y
  <2> QED BY <1>2, <1>3 DEF Here, States
<1> QED BY <1>3, <1>4 DEF IInv

-----------------------------------------------------------------------------
(* The steps.                                                              *)

LEMMA ReportsOnlyGood ==
  ASSUME NEW z, NEW y, Queues(z), Heads(z), Sending(z, Members), ReportsOnly(z, y), ReportsGood(y)
  PROVE  Good(y)
<1>1. \A x \in Members : \A m : HeadIs(z, x, m) => HeadIs(y, x, m)
  BY SameHeads DEF ReportsOnly
<1>2. Heads(y) /\ Sending(y, Members)
  BY <1>1, FrameTurns DEF ReportsOnly
<1> QED BY <1>2, FrameQueues DEF ReportsOnly, ReportsGood, Good

LEMMA ConsiderGood ==
  ASSUME NEW z, Good(z), NEW X, X \subseteq Members \cup {NoOne}
  PROVE  Good(ConsiderDigest(z, X))
<1>1. z \in States
  BY DEF Good
<1> QED BY <1>1, ConsiderIs, QuietGood

(* Agents woken, and nothing else that the invariant speaks of. *)
LEMMA AwakeGood ==
  ASSUME NEW z, Good(z), NEW y \in States, SameTurns(z, y), y.hist.told = z.hist.told, y.hist.fate = z.hist.fate,
         y.hist.sent = z.hist.sent, y.hist.late = z.hist.late /\ y.hist.own = z.hist.own,
         \A x \in Members :
           /\ y.room[x].life = z.room[x].life /\ y.room[x].parent = z.room[x].parent
           /\ y.room[x].report = z.room[x].report /\ y.room[x].outbox = z.room[x].outbox
           /\ y.room[x].queue = z.room[x].queue
           /\ y.room[x].stopped = z.room[x].stopped \/ y.room[x].stopped = "no"
  PROVE  Good(y)
<1>1. \A x \in Members : Above(y, x) = Above(z, x) /\ (Live(z, x) => Live(y, x)) /\ (IsMember(y, x) <=> IsMember(z, x))
  BY AboveSame DEF Live, IsMember
<1>2. Tree(y)
  <2>1. \A w \in Workers : w \in Members
    BY WorkersAre
  <2>2. y.room[Principal].life = "member" /\ y.room[Principal].stopped = "no" /\ y.room[Principal].parent = NoOne
    BY WorkersAre DEF Good, Tree
  <2> QED BY <1>1, <2>1, <2>2 DEF Good, Tree
<1>3. Readers(y, Members)
  BY <1>1 DEF Good, Readers
<1>4. Kept(y)
  <2> SUFFICES ASSUME NEW w \in Workers, IsMember(y, w), y.room[w].report.at > y.hist.told[w]
               PROVE  \E x \in Above(y, w) : w \in y.room[x].outbox
    BY DEF Kept
  <2>1. w \in Members /\ IsMember(z, w) /\ z.room[w].report.at > z.hist.told[w] /\ Above(y, w) = Above(z, w)
    BY <1>1, WorkersAre
  <2>2. PICK x \in Above(z, w) : w \in z.room[x].outbox
    BY <2>1 DEF Good, Kept
  <2> QED BY <2>1, <2>2, AboveMembers
<1>5. SameQueues(z, y)
  BY DEF SameQueues
<1>6. Queues(y) /\ Heads(y) /\ Sending(y, Members)
  BY <1>5, SameHeads, FrameQueues, FrameTurns DEF Good
<1> QED BY <1>2, <1>3, <1>4, <1>6 DEF Good

LEMMA HereGood ==
  ASSUME IInv
  PROVE  /\ Good(Here) /\ Idle(Here) /\ Here \in States
         /\ Here.room = room /\ Here.relay = relay /\ Here.hist = hist
         /\ room \in RoomSet /\ relay \in RelaySet /\ hist \in HistSet
BY DEF IInv, Good, Here, States

LEMMA TallyIs ==
  ASSUME NEW z, Good(z)
  PROVE  LET y == Tally(z) IN
         /\ Good(y) /\ y.room = z.room /\ y.relay = z.relay
         /\ y.hist.told = z.hist.told
         /\ Idle(z) => Idle(y)
<1> DEFINE y == Tally(z)
<1>0. z \in States
  BY DEF Good
<1>1. /\ y \in States /\ y.room = z.room /\ y.relay = z.relay
      /\ y.hist.told = z.hist.told /\ y.hist.fate = z.hist.fate /\ y.hist.sent = z.hist.sent
      /\ y.hist.late = z.hist.late /\ y.hist.own = z.hist.own
  <2> DEFINE h == [z.hist EXCEPT !.asked = @ + 1]
  <2>1. y = [z EXCEPT !.hist = h]
    BY <1>0 DEF Tally, States
  <2>2. /\ h \in HistSet /\ h.told = z.hist.told /\ h.fate = z.hist.fate /\ h.sent = z.hist.sent
        /\ h.late = z.hist.late /\ h.own = z.hist.own
    BY <1>0 DEF States, HistSet
  <2> HIDE DEF h, y
  <2> QED BY <1>0, <2>1, <2>2 DEF States
<1> HIDE DEF y
<1>2. SameReports(z, y) /\ SameQueues(z, y) /\ Heads(y) /\ Sending(y, Members)
  BY <1>1 DEF SameReports, SameQueues, Good, Heads, HeadIs, Sending
<1>3. Good(y)
  BY <1>1, <1>2, GoodParts
<1> QED BY <1>1, <1>3 DEF y, Idle

(* A worker that is born under a live agent. *)
LEMMA BornGood ==
  ASSUME NEW z, Good(z), NEW w \in Workers, z.room[w].life = "unborn", NEW p \in Members, Live(z, p)
  PROVE  LET y == [z EXCEPT !.room[w].life = "member", !.room[w].parent = p] IN
         Good(y) /\ y.hist = z.hist
<1> DEFINE y == [z EXCEPT !.room[w].life = "member", !.room[w].parent = p]
           q == [z.room EXCEPT ![w] = [z.room[w] EXCEPT !.life = "member", !.parent = p]]
<1>0. z \in States /\ w \in Members /\ z.room \in RoomSet
  BY WorkersAre DEF Good, States
<1>1. y = [z EXCEPT !.room = q]
  BY <1>0 DEF States, RoomSet
<1>2. /\ q \in RoomSet /\ q[w].life = "member" /\ q[w].parent = p
      /\ q[w].stopped = z.room[w].stopped /\ q[w].queue = z.room[w].queue
      /\ q[w].report = z.room[w].report /\ q[w].outbox = z.room[w].outbox
      /\ \A x \in Members : x # w => q[x] = z.room[x]
  BY <1>0 DEF RoomSet, Agents, Lives
<1> HIDE DEF q, y
<1>3. y \in States /\ y.room = q /\ y.relay = z.relay /\ y.hist = z.hist
  BY <1>0, <1>1, <1>2 DEF States
<1>4. z.room[w].parent = NoOne /\ z.room[w].report.at = 0 /\ p # w
  BY DEF Good, Tree, Live, IsMember
<1>5. \A x \in Members : y.room[x].parent = IF x = w THEN p ELSE z.room[x].parent
  BY <1>2, <1>3
<1>6. ASSUME NEW u \in Members, NEW v \in Above(z, u) PROVE v \in Above(y, u)
  <2>1. ASSUME NEW S \in SUBSET Members, Closed(y, u, S) PROVE Closed(z, u, S)
    BY <1>4, <1>5, <2>1 DEF Closed
  <2> QED BY <2>1, AboveIn, AboveAll, AboveMembers
<1>7. \A x \in Members : IsMember(z, x) => IsMember(y, x)
  BY <1>2, <1>3 DEF IsMember
<1>8. \A x \in Members : Live(z, x) => Live(y, x)
  BY <1>2, <1>3, <1>4 DEF Live, IsMember
<1>9. Tree(y)
  <2>1. y.room[Principal] = z.room[Principal] /\ \A x \in Workers : x \in Members
    BY <1>2, <1>3, WorkersAre
  <2>2. Principal \in Above(y, w)
    <3>1. p \in Above(y, w)
      BY <1>0, <1>5, ParentAbove
    <3>2. CASE p = Principal
      BY <3>1, <3>2
    <3>3. CASE p \in Workers
      <4>1. z.room[p].life # "unborn"
        BY DEF Live, IsMember
      <4>2. Principal \in Above(y, p)
        BY <1>6, <3>3, <4>1 DEF Good, Tree
      <4> QED BY <3>1, <4>2, AboveTrans
    <3> QED BY <3>2, <3>3 DEF Members
  <2>3. ASSUME NEW x \in Workers, y.room[x].life = "unborn"
        PROVE  y.room[x].parent = NoOne /\ y.room[x].report.at = 0 /\ y.room[x].stopped = "no"
    <3>1. x # w /\ y.room[x] = z.room[x]
      BY <1>2, <1>3, <2>1, <2>3
    <3> QED BY <2>3, <3>1 DEF Good, Tree
  <2>4. ASSUME NEW x \in Workers, y.room[x].life # "unborn"
        PROVE  Principal \in Above(y, x)
    <3>1. CASE x = w
      BY <2>2, <3>1
    <3>2. CASE x # w
      <4>1. y.room[x] = z.room[x]
        BY <1>2, <1>3, <2>1, <3>2
      <4> QED BY <1>6, <2>1, <2>4, <4>1 DEF Good, Tree
    <3> QED BY <3>1, <3>2
  <2> QED BY <2>1, <2>3, <2>4 DEF Good, Tree
<1>10. \A x \in Members : y.room[x].outbox = z.room[x].outbox /\ y.room[x].queue = z.room[x].queue
                          /\ y.room[x].report = z.room[x].report
  BY <1>2, <1>3
<1>11. Readers(y, Members)
  BY <1>8, <1>10 DEF Good, Readers
<1>12. Kept(y)
  <2> SUFFICES ASSUME NEW u \in Workers, IsMember(y, u), y.room[u].report.at > y.hist.told[u]
               PROVE  \E x \in Above(y, u) : u \in y.room[x].outbox
    BY DEF Kept
  <2>1. u \in Members /\ z.hist.told[u] \in Nat
    BY <1>0, WorkersAre DEF States, HistSet
  <2>2. u # w
    BY <1>3, <1>4, <1>10, <2>1
  <2>3. IsMember(z, u) /\ z.room[u].report.at > z.hist.told[u]
    BY <1>2, <1>3, <2>1, <2>2 DEF IsMember
  <2>4. PICK x \in Above(z, u) : u \in z.room[x].outbox
    BY <2>3 DEF Good, Kept
  <2> QED BY <1>6, <1>10, <2>1, <2>4, AboveMembers
<1>13. SameQueues(z, y) /\ SameTurns(z, y)
  BY <1>3, <1>10 DEF SameQueues, SameTurns
<1>14. Queues(y) /\ Heads(y) /\ Sending(y, Members)
  BY <1>13, SameHeads, FrameQueues, FrameTurns DEF Good
<1> QED BY <1>3, <1>9, <1>11, <1>12, <1>14 DEF Good, y

LEMMA SendsGood ==
  ASSUME NEW z, Good(z), NEW w \in Workers, z.hist.sent < MaxMessages
  PROVE  Good(Sends(z, w))
<1> DEFINE m == z.hist.sent + 1
           q == Append(z.room[w].queue, m)
           v == [z EXCEPT !.hist.sent = m, !.room[w].queue = q]
           y == Sends(z, w)
<1>0. /\ z \in States /\ w \in Members /\ z.hist \in HistSet /\ z.hist.sent \in 0..MaxMessages
      /\ z.room[w].queue \in Seq(0..MaxMessages)
  BY WorkersAre, QueueIs DEF Good, States, HistSet
<1>1. m \in Messages /\ m \in 0..MaxMessages /\ m # Reminder
  BY <1>0, BoundsAssumption DEF Messages, Reminder
<1>2. y = Fate(v, {m}, "queued")
  BY DEF Sends
<1>3. /\ q \in Seq(0..MaxMessages) /\ q # <<>>
      /\ z.room[w].queue # <<>> => Head(q) = Head(z.room[w].queue)
      /\ \A i \in DOMAIN q : \/ i \in DOMAIN z.room[w].queue /\ q[i] = z.room[w].queue[i]
                             \/ i = Len(z.room[w].queue) + 1 /\ q[i] = m
      /\ Range(q) = Range(z.room[w].queue) \cup {m}
  <2> DEFINE o == z.room[w].queue
  <2>1. o \in Seq(0..MaxMessages)
    BY <1>0
  <2> HIDE DEF o, m
  <2>2. /\ Append(o, m) \in Seq(0..MaxMessages) /\ Append(o, m) # <<>>
        /\ o # <<>> => Append(o, m)[1] = o[1]
        /\ \A i \in DOMAIN Append(o, m) : (i \in DOMAIN o /\ Append(o, m)[i] = o[i]) \/ (i = Len(o) + 1 /\ Append(o, m)[i] = m)
    BY <1>1, <2>1, AppendKeeps
  <2>3. Head(Append(o, m)) = Append(o, m)[1] /\ (o # <<>> => Head(o) = o[1])
    BY <2>1, <2>2, RangeIs
  <2>4. Range(Append(o, m)) = Range(o) \cup {m}
    <3>1. /\ DOMAIN o = 1..Len(o) /\ Len(o) \in Nat
          /\ DOMAIN Append(o, m) = 1..(Len(o) + 1)
          /\ \A i \in 1..Len(o) : Append(o, m)[i] = o[i]
          /\ Append(o, m)[Len(o) + 1] = m
      BY <1>1, <2>1, AppendProperties, LenProperties
    <3>2. 1..(Len(o) + 1) = 1..Len(o) \cup {Len(o) + 1}
      BY <3>1
    <3> QED BY <3>1, <3>2 DEF Range
  <2> QED BY <2>2, <2>3, <2>4 DEF o
<1> HIDE DEF m, q
<1>4. /\ v \in States /\ v.relay = z.relay
      /\ v.hist.sent = m /\ v.hist.told = z.hist.told /\ v.hist.fate = z.hist.fate /\ v.hist.late = z.hist.late /\ v.hist.own = z.hist.own
      /\ \A x \in Members :
           /\ v.room[x].life = z.room[x].life /\ v.room[x].parent = z.room[x].parent
           /\ v.room[x].stopped = z.room[x].stopped
           /\ v.room[x].report = z.room[x].report /\ v.room[x].outbox = z.room[x].outbox
           /\ v.room[x].queue = IF x = w THEN q ELSE z.room[x].queue
  <2> DEFINE r == [z.room EXCEPT ![w] = [z.room[w] EXCEPT !.queue = q]]
             h == [z.hist EXCEPT !.sent = m]
  <2>1. v = [z EXCEPT !.room = r, !.hist = h]
    BY <1>0 DEF States
  <2>2. /\ r \in RoomSet
        /\ \A x \in Members :
           /\ r[x].life = z.room[x].life /\ r[x].parent = z.room[x].parent
           /\ r[x].stopped = z.room[x].stopped
           /\ r[x].report = z.room[x].report /\ r[x].outbox = z.room[x].outbox
           /\ r[x].queue = IF x = w THEN q ELSE z.room[x].queue
    BY <1>0, <1>3 DEF States, RoomSet, Agents
  <2>3. /\ h \in HistSet /\ h.sent = m /\ h.told = z.hist.told /\ h.fate = z.hist.fate /\ h.late = z.hist.late /\ h.own = z.hist.own
    BY <1>0, <1>1 DEF HistSet
  <2> HIDE DEF r, h, v
  <2> QED BY <1>0, <2>1, <2>2, <2>3 DEF States
<1> HIDE DEF v, y
<1>5. /\ y \in States /\ y.room = v.room /\ y.relay = v.relay
      /\ y.hist.told = v.hist.told /\ y.hist.sent = v.hist.sent /\ y.hist.late = v.hist.late /\ y.hist.own = v.hist.own
      /\ \A k \in Messages : y.hist.fate[k] = IF k \in {m} THEN "queued" ELSE v.hist.fate[k]
  BY <1>2, <1>4, FateIs DEF Fates
<1>6. SameReports(z, y)
  BY <1>4, <1>5 DEF SameReports
<1>7. \A x \in Members : y.room[x].queue = IF x = w THEN q ELSE z.room[x].queue
  BY <1>4, <1>5
<1>8. z.hist.fate[m] = "new"
  BY <1>0, <1>1 DEF Good, Queues, m
<1>9. \A x \in Workers : m \notin Range(z.room[x].queue)
  BY <1>1, <1>8 DEF Good, Queues
<1>10. Queues(y)
  <2>1. \A x \in Workers : y.room[x].queue = IF x = w THEN q ELSE z.room[x].queue
    BY <1>7, WorkersAre
  <2>2. ASSUME NEW a \in Workers, NEW i \in DOMAIN y.room[a].queue
        PROVE  \/ i \in DOMAIN z.room[a].queue /\ y.room[a].queue[i] = z.room[a].queue[i]
               \/ a = w /\ i = Len(z.room[w].queue) + 1 /\ y.room[a].queue[i] = m
    BY <1>3, <2>1, <2>2
  <2>3. ASSUME NEW a \in Workers, NEW b \in Workers, NEW i \in DOMAIN y.room[a].queue, NEW j \in DOMAIN y.room[b].queue,
               y.room[a].queue[i] = y.room[b].queue[j], y.room[a].queue[i] # Reminder
        PROVE  a = b /\ i = j
    <3>1. CASE y.room[a].queue[i] = m
      <4>1. \A c \in Workers : \A k \in DOMAIN z.room[c].queue : z.room[c].queue[k] # m
        BY <1>9 DEF Range
      <4>2. a = w /\ i = Len(z.room[w].queue) + 1
        BY <2>2, <2>3, <3>1, <4>1
      <4>3. y.room[b].queue[j] = m
        BY <2>3, <3>1
      <4>4. b = w /\ j = Len(z.room[w].queue) + 1
        BY <2>2, <2>3, <4>1, <4>3
      <4> QED BY <4>2, <4>4
    <3>2. CASE y.room[a].queue[i] # m
      <4>1. i \in DOMAIN z.room[a].queue /\ y.room[a].queue[i] = z.room[a].queue[i]
        BY <2>2, <2>3, <3>2
      <4>2. j \in DOMAIN z.room[b].queue /\ y.room[b].queue[j] = z.room[b].queue[j]
        BY <2>2, <2>3, <3>2
      <4>3. z.room[a].queue[i] = z.room[b].queue[j] /\ z.room[a].queue[i] # Reminder
        BY <2>3, <4>1, <4>2
      <4> QED BY <4>1, <4>2, <4>3 DEF Good, Queues
    <3> QED BY <3>1, <3>2
  <2>4. ASSUME NEW k \in Messages
        PROVE  y.hist.fate[k] = "queued" <=> \E x \in Workers : k \in Range(y.room[x].queue)
    <3>1. CASE k = m
      BY <1>3, <1>5, <2>1, <3>1
    <3>2. CASE k # m
      <4>1. \A x \in Workers : k \in Range(y.room[x].queue) <=> k \in Range(z.room[x].queue)
        BY <1>3, <2>1, <3>2
      <4>2. y.hist.fate[k] = z.hist.fate[k]
        BY <1>4, <1>5, <3>2
      <4> QED BY <4>1, <4>2 DEF Good, Queues
    <3> QED BY <3>1, <3>2
  <2>5. ASSUME NEW k \in Messages, k > y.hist.sent PROVE y.hist.fate[k] = "new"
    <3>1. k > m /\ k > z.hist.sent /\ k # m
      BY <1>0, <1>4, <1>5, <2>5 DEF m, Messages
    <3> QED BY <1>4, <1>5, <3>1 DEF Good, Queues
  <2>6. /\ y.hist.late = {}
        /\ \A k \in Messages : y.hist.fate[k] \in {"taken", "refused"} => <<k, y.hist.fate[k]>> \in y.hist.own
    BY <1>4, <1>5 DEF Good, Queues
  <2> QED BY <2>3, <2>4, <2>5, <2>6 DEF Queues
<1>11. \A x \in Members : \A k : HeadIs(z, x, k) => HeadIs(y, x, k)
  BY <1>3, <1>7 DEF HeadIs
<1>12. Heads(y) /\ Sending(y, Members)
  BY <1>4, <1>5, <1>11, FrameTurns DEF SameTurns, Good
<1> QED BY <1>5, <1>6, <1>10, <1>12, FrameReports DEF Good, y
LEMMA WakesGood ==
  ASSUME NEW z, Good(z), NEW w \in Members
  PROVE  LET y == [z EXCEPT !.room[w].stopped = "no"] IN Good(y) /\ y.hist = z.hist
<1> DEFINE y == [z EXCEPT !.room[w].stopped = "no"]
           q == [z.room EXCEPT ![w] = [z.room[w] EXCEPT !.stopped = "no"]]
<1>0. z \in States /\ z.room \in RoomSet
  BY DEF Good, States
<1>1. y = [z EXCEPT !.room = q]
  BY <1>0 DEF States
<1>2. /\ q \in RoomSet
      /\ \A x \in Members :
           /\ q[x].life = z.room[x].life /\ q[x].parent = z.room[x].parent
           /\ q[x].report = z.room[x].report /\ q[x].outbox = z.room[x].outbox
           /\ q[x].queue = z.room[x].queue
           /\ q[x].stopped = z.room[x].stopped \/ q[x].stopped = "no"
  BY <1>0 DEF RoomSet, Agents, Stops
<1> HIDE DEF q, y
<1>3. y \in States /\ y.room = q /\ y.relay = z.relay /\ y.hist = z.hist
  BY <1>0, <1>1, <1>2 DEF States
<1>4. SameTurns(z, y)
  BY <1>3 DEF SameTurns
<1>5. Good(y)
  BY <1>2, <1>3, <1>4, AwakeGood
<1> QED BY <1>3, <1>5 DEF y

LEMMA LaunchWorkerGood ==
  ASSUME IInv, NEW w \in Workers, NEW p \in Members, LaunchWorker(w, p)
  PROVE  IInv'
<1> DEFINE born == [Here EXCEPT !.room[w].life = "member", !.room[w].parent = p]
           sent == Sends(born, w)
           y == Pump(sent, {w})
<1>1. Good(born) /\ born.hist = hist
  <2>1. Here.room[w].life = "unborn" /\ Live(Here, p) /\ Good(Here) /\ Here.hist = hist
    BY HereGood DEF LaunchWorker
  <2> HIDE DEF born
  <2>2. Good([Here EXCEPT !.room[w].life = "member", !.room[w].parent = p])
        /\ [Here EXCEPT !.room[w].life = "member", !.room[w].parent = p].hist = Here.hist
    BY <2>1, BornGood
  <2> QED BY <2>1, <2>2 DEF born
<1>2. Become(y) /\ works' = works /\ hist.sent < MaxMessages
  BY DEF LaunchWorker, Then
<1> HIDE DEF born
<1>3. Good(sent)
  BY <1>1, <1>2, SendsGood
<1> HIDE DEF sent
<1>4. Good(y)
  BY <1>3, PumpGood, WorkersAre
<1> HIDE DEF y
<1> QED BY <1>2, <1>4, BecomeGood DEF IInv

LEMMA MessageAgentGood ==
  ASSUME IInv, NEW w \in Workers, MessageAgent(w)
  PROVE  IInv'
<1> DEFINE woken == [Here EXCEPT !.room[w].stopped = "no"]
           sent == Sends(woken, w)
           y == Pump(sent, {w})
<1>1. Good(woken) /\ woken.hist = hist
  BY HereGood, WakesGood, WorkersAre
<1>2. Become(y) /\ works' = works /\ hist.sent < MaxMessages
  BY DEF MessageAgent, Then
<1> HIDE DEF woken
<1>3. Good(sent)
  BY <1>1, <1>2, SendsGood
<1> HIDE DEF sent
<1>4. Good(y)
  BY <1>3, PumpGood, WorkersAre
<1> HIDE DEF y
<1> QED BY <1>2, <1>4, BecomeGood DEF IInv

LEMMA PersonWritesGood ==
  ASSUME IInv, NEW x \in Members, PersonWrites(x)
  PROVE  IInv'
<1> DEFINE ts == [v \in {x} |-> Turn("own", 0, NoReports)]
           y == Submit(Tally(Here), ts)
<1>1. Become(y) /\ works' = works
  BY DEF PersonWrites
<1>2. Good(Tally(Here))
  BY HereGood, TallyIs
<1>3. DOMAIN ts \subseteq Members /\ \A v \in DOMAIN ts : ts[v] \in TurnSet /\ ts[v].kind \notin {"none", "message"}
  BY TurnIs, NoReportsIs, BoundsAssumption DEF Kinds
<1> HIDE DEF ts
<1>4. Good(y)
  BY <1>2, <1>3, SubmitGood
<1> HIDE DEF y
<1> QED BY <1>1, <1>4, BecomeGood DEF IInv

LEMMA ReportGood ==
  ASSUME IInv, NEW w \in Workers, NEW urgent \in BOOLEAN, Report(w, urgent)
  PROVE  IInv'
<1> DEFINE z == [Here EXCEPT !.hist.reports = @ + 1]
           h == [hist EXCEPT !.reports = @ + 1]
           y == RecordReport(z, w, urgent, FALSE)
<1>1. Become(y) /\ works' = works /\ room[w].life = "member"
  BY HereGood DEF Report, Admitted, IsMember
<1>2. z = [Here EXCEPT !.hist = h]
  BY DEF Here
<1>3. /\ h \in HistSet /\ h.told = hist.told /\ h.fate = hist.fate /\ h.sent = hist.sent
      /\ h.late = hist.late /\ h.own = hist.own
  BY HereGood DEF HistSet
<1> HIDE DEF h, z
<1>4. /\ z \in States /\ z.room = room /\ z.relay = relay /\ z.hist = h
  BY <1>2, <1>3, HereGood DEF States
<1>5. /\ SameReports(Here, z) /\ SameQueues(Here, z) /\ SameTurns(Here, z)
  BY <1>3, <1>4, HereGood DEF SameReports, SameQueues, SameTurns
<1>6. Good(z)
  <2>1. Heads(z) /\ Sending(z, Members)
    BY <1>5, HereGood, SameHeads, FrameTurns DEF Good
  <2> QED BY <1>4, <1>5, <2>1, HereGood, GoodParts
<1>7. ReportsOnly(z, y) /\ ReportsGood(y)
  <2>1. ReportsGood(z) /\ z.room[w].life # "unborn"
    BY <1>1, <1>4, <1>6 DEF Good, ReportsGood
  <2> QED BY <1>4, <2>1, RecordReportGood
<1> HIDE DEF y
<1>8. Good(y)
  BY <1>6, <1>7, ReportsOnlyGood DEF Good
<1> QED BY <1>1, <1>8, BecomeGood DEF IInv

LEMMA StopAgentGood ==
  ASSUME IInv, NEW w \in Workers, StopAgent(w)
  PROVE  IInv'
<1> DEFINE reason == IF room[w].stopped = "no" THEN "stopped" ELSE room[w].stopped
<1>1. PICK L : /\ Become(HandOff(StopTurns(MarkStopped(Tally(Here), {w}, reason), {w}, L), {w}))
               /\ works' = works /\ room[w].life = "member"
  BY HereGood DEF StopAgent, Then, IsMember
<1> DEFINE z == StopTurns(MarkStopped(Tally(Here), {w}, reason), {w}, L)
           y == HandOff(z, {w})
<1>b. Become(y) /\ works' = works
  BY <1>1
<1>2. Good(Tally(Here)) /\ Idle(Tally(Here)) /\ Tally(Here).room = room
  BY HereGood, TallyIs
<1>3. reason \in Stops /\ reason # "no" /\ {w} \in SUBSET Workers
  <2>1. room[w].stopped \in Stops
    BY HereGood, AgentsAre, WorkersAre
  <2> QED BY <2>1 DEF Stops
<1> HIDE DEF reason
<1>4. /\ z \in States /\ Tree(z) /\ Readers(z, Members \ {w}) /\ Kept(z)
      /\ Queues(z) /\ Heads(z) /\ Sending(z, Members)
      /\ \A x \in Members : z.room[x].life = room[x].life
      /\ \A x \in {w} : ~Live(z, x)
  <2>1. \A x \in {w} : Tally(Here).room[x].life # "unborn"
    BY <1>1, <1>2
  <2> QED BY <1>2, <1>3, <2>1, SilencedIs
<1> HIDE DEF z
<1>5. ReportsOnly(z, y) /\ ReportsGood(y)
  <2>1. \A x \in {w} : z.room[x].life # "unborn" /\ ~Live(z, x)
    BY <1>1, <1>4, WorkersAre
  <2> QED BY <1>3, <1>4, <2>1, HandOffGood
<1> HIDE DEF y
<1>6. Good(y)
  BY <1>4, <1>5, ReportsOnlyGood
<1> QED BY <1>b, <1>6, BecomeGood DEF IInv

LEMMA ResumeAgentGood ==
  ASSUME IInv, NEW w \in Workers, ResumeAgent(w)
  PROVE  IInv'
<1> DEFINE z == Tally(Here)
           y == [z EXCEPT !.room[w].stopped = "no"]
<1>1. Become(y) /\ works' = works
  BY DEF ResumeAgent
<1>2. Good(z)
  BY HereGood, TallyIs
<1> HIDE DEF z
<1>3. Good(y)
  BY <1>2, WakesGood, WorkersAre
<1> HIDE DEF y
<1> QED BY <1>1, <1>3, BecomeGood DEF IInv
LEMMA RelaySetQuiet ==
  ASSUME NEW z \in States, NEW l \in RelaySet,
         l.cur = z.relay.cur, l.turns = z.relay.turns, l.sending = z.relay.sending
  PROVE  Quiet(z, [z EXCEPT !.relay = l])
<1> DEFINE y == [z EXCEPT !.relay = l]
<1>1. y \in States /\ y.room = z.room /\ y.hist = z.hist /\ y.relay = l
  BY DEF States
<1> HIDE DEF y
<1>2. Quiet(z, y)
  BY <1>1 DEF Quiet
<1> QED BY <1>2 DEF y

LEMMA SubtreeIn == \A z : \A w \in Workers : Subtree(z, w) \subseteq Workers /\ w \in Subtree(z, w)
BY DEF Subtree, Below

LEMMA RemoveAgentGood ==
  ASSUME IInv, NEW w \in Workers, RemoveAgent(w)
  PROVE  IInv'
<1> DEFINE z == Tally(Here)
           e == [phase |-> "listing", ids |-> {x \in Subtree(Here, w) : Admitted(Here, x)}]
           f == [z.relay.removals EXCEPT ![w] = e]
           l == [z.relay EXCEPT !.removals = f]
           y == [z EXCEPT !.relay.removals[w] = e]
<1>1. Become(y) /\ works' = works
  BY DEF RemoveAgent
<1>2. e \in Removals
  BY SubtreeIn DEF Removals, Phases
<1> HIDE DEF e
<1>3. Good(z) /\ z \in States /\ w \in Members
  BY HereGood, TallyIs, WorkersAre DEF Good
<1> HIDE DEF z
<1>4. y = [z EXCEPT !.relay = l]
  BY <1>3 DEF States
<1>5. f \in [Members -> Removals]
  BY <1>2, <1>3 DEF States, RelaySet
<1> HIDE DEF f
<1>6. l \in RelaySet /\ l.cur = z.relay.cur /\ l.turns = z.relay.turns /\ l.sending = z.relay.sending
  BY <1>3, <1>5 DEF States, RelaySet
<1> HIDE DEF l, y
<1>7. Good(y)
  BY <1>3, <1>4, <1>6, RelaySetQuiet, QuietGood
<1> QED BY <1>1, <1>7, BecomeGood DEF IInv

LEMMA WindowOpensGood ==
  ASSUME IInv, NEW w \in Workers, WindowOpens(w)
  PROVE  IInv'
<1> DEFINE f == [relay.removals EXCEPT ![w] = NoRemoval]
           l == [relay EXCEPT !.removals = f, !.purges = @ \cup {w}]
           y == [Here EXCEPT !.relay.removals[w] = NoRemoval, !.relay.purges = @ \cup {w}]
<1>1. Become(y) /\ works' \subseteq Members
  BY DEF WindowOpens, IInv
<1>2. Good(Here) /\ Here \in States /\ relay \in RelaySet /\ Here.relay = relay /\ w \in Members
  BY HereGood, WorkersAre
<1>3. y = [Here EXCEPT !.relay = l]
  BY <1>2 DEF States
<1>4. f \in [Members -> Removals]
  BY <1>2 DEF RelaySet, Removals, Phases, NoRemoval
<1> HIDE DEF f
<1>5. l \in RelaySet /\ l.cur = relay.cur /\ l.turns = relay.turns /\ l.sending = relay.sending
  BY <1>2, <1>4 DEF RelaySet
<1> HIDE DEF l, y
<1>6. Good(y)
  BY <1>2, <1>3, <1>5, RelaySetQuiet, QuietGood
<1> QED BY <1>1, <1>6, BecomeGood

LEMMA ClearSendings ==
  ASSUME NEW z \in States, NEW X
  PROVE  LET y == [z EXCEPT !.relay.sending = [x \in Members |-> IF x \in X THEN NoSending ELSE @[x]]] IN
         /\ y \in States /\ y.room = z.room /\ y.hist = z.hist
         /\ y.relay.cur = z.relay.cur /\ y.relay.turns = z.relay.turns
         /\ \A x \in Members : IF x \in X THEN ~y.relay.sending[x].on
                               ELSE y.relay.sending[x] = z.relay.sending[x]
<1> DEFINE snd == [x \in Members |-> IF x \in X THEN NoSending ELSE z.relay.sending[x]]
           l == [z.relay EXCEPT !.sending = snd]
           y == [z EXCEPT !.relay.sending = [x \in Members |-> IF x \in X THEN NoSending ELSE @[x]]]
<1>1. y = [z EXCEPT !.relay = l]
  BY DEF States
<1>2. /\ snd \in [Members -> Sendings]
      /\ \A x \in Members : IF x \in X THEN ~snd[x].on ELSE snd[x] = z.relay.sending[x]
  BY NoSendingIs DEF States, RelaySet
<1> HIDE DEF snd
<1>3. l \in RelaySet /\ l.cur = z.relay.cur /\ l.turns = z.relay.turns /\ l.sending = snd
  BY <1>2 DEF States, RelaySet
<1> HIDE DEF l, y
<1>4. y \in States /\ y.room = z.room /\ y.hist = z.hist /\ y.relay = l
  BY <1>1, <1>3 DEF States
<1> QED BY <1>2, <1>3, <1>4 DEF y

LEMMA HideGood ==
  ASSUME NEW z, Good(z), Idle(z), NEW X \in SUBSET Workers, \A x \in X : z.room[x].life # "unborn",
         NEW L
  PROVE  Good(Hide(z, X, L))
<1> DEFINE v == StopTurns(MarkStopped(z, X, "removed"), X, L)
           u == [v EXCEPT !.relay.sending = [x \in Members |-> IF x \in X THEN NoSending ELSE @[x]]]
           y == HandOff(u, X)
<1>1. Hide(z, X, L) = y
  BY DEF Hide, Then
<1>2. /\ v \in States /\ Tree(v) /\ Readers(v, Members \ X) /\ Kept(v)
      /\ Queues(v) /\ Heads(v) /\ Sending(v, Members)
      /\ \A x \in Members : v.room[x].life = z.room[x].life
      /\ \A x \in X : ~Live(v, x)
  <2>1. "removed" \in Stops
    BY DEF Stops
  <2> QED BY <2>1, SilencedIs
<1> HIDE DEF v
<1>3. /\ u \in States /\ u.room = v.room /\ u.hist = v.hist
      /\ u.relay.cur = v.relay.cur /\ u.relay.turns = v.relay.turns
      /\ \A x \in Members : IF x \in X THEN ~u.relay.sending[x].on
                            ELSE u.relay.sending[x] = v.relay.sending[x]
  BY <1>2, ClearSendings
<1> HIDE DEF u
<1>4. SameReports(v, u) /\ SameQueues(v, u)
  BY <1>3, SameRoom
<1>5. Tree(u) /\ Readers(u, Members \ X) /\ Kept(u) /\ Queues(u)
  BY <1>2, <1>4, FrameReports, FrameQueues
<1>6. Heads(u) /\ Sending(u, Members)
  <2>1. Heads(u)
    BY <1>2, <1>3 DEF Heads, HeadIs
  <2>2. Sending(u, Members)
    BY <1>2, <1>3 DEF Sending
  <2> QED BY <2>1, <2>2
<1>7. ReportsOnly(u, y) /\ ReportsGood(y)
  <2>1. \A x \in X : u.room[x].life # "unborn" /\ ~Live(u, x)
    BY <1>2, <1>3, WorkersAre DEF Live, IsMember
  <2> QED BY <1>3, <1>5, <2>1, HandOffGood
<1> HIDE DEF y
<1> QED BY <1>1, <1>5, <1>6, <1>7, ReportsOnlyGood

LEMMA HideRemovedGood ==
  ASSUME IInv, NEW w \in Workers, HideRemoved(w)
  PROVE  IInv'
<1> DEFINE ids == relay.removals[w].ids
<1>1. PICK L : /\ Become([Hide(Here, ids, L) EXCEPT !.relay.removals =
                   [x \in Members |-> IF x = w THEN [@[x] EXCEPT !.phase = "stopping"]
                          ELSE IF x \in ids /\ @[x].phase = "stopping" THEN NoRemoval ELSE @[x]]])
               /\ works' = works
  BY DEF HideRemoved
<1> DEFINE z == Hide(Here, ids, L)
           f == [x \in Members |-> IF x = w THEN [z.relay.removals[x] EXCEPT !.phase = "stopping"]
                                   ELSE IF x \in ids /\ z.relay.removals[x].phase = "stopping" THEN NoRemoval
                                   ELSE z.relay.removals[x]]
           l == [z.relay EXCEPT !.removals = f]
           y == [z EXCEPT !.relay.removals =
                   [x \in Members |-> IF x = w THEN [@[x] EXCEPT !.phase = "stopping"]
                          ELSE IF x \in ids /\ @[x].phase = "stopping" THEN NoRemoval ELSE @[x]]]
<1>b. Become(y) /\ works' = works
  BY <1>1
<1>2. ids \in SUBSET Workers /\ \A x \in ids : Here.room[x].life # "unborn"
  <2>1. relay.removals[w] \in Removals
    BY HereGood, WorkersAre DEF RelaySet
  <2>2. \A x \in ids : Here.room[x].life # "unborn"
    BY DEF HideRemoved, IsMember
  <2> QED BY <2>1, <2>2 DEF Removals
<1> HIDE DEF ids
<1>3. Good(z) /\ z \in States
  <2>1. Good(z)
    BY <1>2, HereGood, HideGood
  <2> QED BY <2>1 DEF Good
<1> HIDE DEF z
<1>4. y = [z EXCEPT !.relay = l]
  BY <1>3 DEF States
<1>5. f \in [Members -> Removals]
  <2> SUFFICES ASSUME NEW x \in Members
               PROVE  f[x] \in Removals
    OBVIOUS
  <2>1. z.relay.removals[x] \in Removals
    BY <1>3 DEF States, RelaySet
  <2> QED BY <2>1 DEF Removals, Phases, NoRemoval
<1> HIDE DEF f
<1>6. l \in RelaySet /\ l.cur = z.relay.cur /\ l.turns = z.relay.turns /\ l.sending = z.relay.sending
  BY <1>3, <1>5 DEF States, RelaySet
<1> HIDE DEF l, y
<1>7. Good(y)
  BY <1>3, <1>4, <1>6, RelaySetQuiet, QuietGood
<1> QED BY <1>b, <1>7, BecomeGood DEF IInv

LEMMA RestoreAgentGood ==
  ASSUME IInv, NEW w \in Workers, RestoreAgent(w)
  PROVE  IInv'
<1> DEFINE back == {x \in Subtree(Here, w) : room[x].stopped = "removed"}
           v == Tally(Here)
           rm == [x \in Members |-> IF x \in back THEN [v.room[x] EXCEPT !.stopped = "no"] ELSE v.room[x]]
           f == [x \in Members |-> IF x \in back /\ v.relay.removals[x].phase = "stopping" THEN NoRemoval
                                   ELSE v.relay.removals[x]]
           l == [v.relay EXCEPT !.purges = @ \ {w}, !.removals = f]
           z == [v EXCEPT
                 !.room = [x \in Members |-> IF x \in back THEN [@[x] EXCEPT !.stopped = "no"] ELSE @[x]],
                 !.relay.purges = @ \ {w},
                 !.relay.removals = [x \in Members |-> IF x \in back /\ @[x].phase = "stopping" THEN NoRemoval ELSE @[x]]]
           y == ConsiderDigest(z, {LiveAncestor(z, w)})
<1>1. Become(y) /\ works' = works
  BY DEF RestoreAgent, Then
<1> HIDE DEF back
<1>2. Good(v) /\ v \in States
  BY HereGood, TallyIs DEF Good
<1> HIDE DEF v
<1>3. z = [v EXCEPT !.room = rm, !.relay = l]
  BY <1>2 DEF States
<1>4. \A x \in Members :
        /\ rm[x] \in Agents
        /\ rm[x].life = v.room[x].life /\ rm[x].parent = v.room[x].parent
        /\ rm[x].report = v.room[x].report /\ rm[x].outbox = v.room[x].outbox /\ rm[x].queue = v.room[x].queue
        /\ rm[x].stopped = v.room[x].stopped \/ rm[x].stopped = "no"
  <2> SUFFICES ASSUME NEW x \in Members PROVE <1>4!(x)
    OBVIOUS
  <2>1. rm[x] = v.room[x] \/ rm[x] = [v.room[x] EXCEPT !.stopped = "no"]
    OBVIOUS
  <2> HIDE DEF rm
  <2> QED BY <1>2, <2>1, AgentsAre DEF Agents, Stops
<1>5. rm \in RoomSet
  <2>1. rm = [x \in Members |-> rm[x]]
    OBVIOUS
  <2> HIDE DEF rm
  <2> QED BY <1>4, <2>1 DEF RoomSet
<1>6. f \in [Members -> Removals]
  BY <1>2 DEF States, RelaySet, Removals, Phases, NoRemoval
<1> HIDE DEF rm, f
<1>7. l \in RelaySet /\ l.cur = v.relay.cur /\ l.turns = v.relay.turns /\ l.sending = v.relay.sending
  BY <1>2, <1>6 DEF States, RelaySet
<1> HIDE DEF l, z
<1>8. z \in States /\ z.room = rm /\ z.relay = l /\ z.hist = v.hist
  BY <1>2, <1>3, <1>5, <1>7 DEF States
<1>9. Good(z)
  <2>1. SameTurns(v, z)
    BY <1>7, <1>8 DEF SameTurns
  <2> QED BY <1>2, <1>4, <1>8, <2>1, AwakeGood
<1>10. Good(y)
  BY <1>9, AncestorIn, ConsiderGood
<1> HIDE DEF y
<1> QED BY <1>1, <1>10, BecomeGood DEF IInv
LEMMA HistSetGood ==
  ASSUME NEW z, Good(z), NEW h \in HistSet, h.told = z.hist.told, h.fate = z.hist.fate,
         h.sent = z.hist.sent, h.late = z.hist.late /\ h.own = z.hist.own
  PROVE  LET y == [z EXCEPT !.hist = h] IN
         /\ Good(y) /\ y \in States /\ y.room = z.room /\ y.relay = z.relay /\ y.hist = h
<1> DEFINE y == [z EXCEPT !.hist = h]
<1>1. y \in States /\ y.room = z.room /\ y.relay = z.relay /\ y.hist = h
  BY DEF Good, States
<1> HIDE DEF y
<1>2. SameReports(z, y) /\ SameQueues(z, y) /\ SameTurns(z, y)
  BY <1>1 DEF SameReports, SameQueues, SameTurns
<1>3. Heads(y) /\ Sending(y, Members)
  BY <1>2, SameHeads, FrameTurns DEF Good
<1>4. Good(y)
  BY <1>1, <1>2, <1>3, GoodParts
<1> QED BY <1>1, <1>4 DEF y

(* What deleting the agents X leaves of the state z. *)
Deleted(z, X) ==
  [z EXCEPT
     !.room = [x \in Members |-> IF x \in X THEN [@[x] EXCEPT !.life = "gone", !.outbox = {}, !.queue = <<>>]
                                 ELSE [@[x] EXCEPT !.outbox = z.room[x].outbox \ X]],
     !.relay.cur = [x \in Members |-> IF x \in X THEN NoTurn ELSE @[x]],
     !.relay.turns = [x \in Members |-> IF x \in X THEN <<>> ELSE @[x]],
     !.relay.sending = [x \in Members |-> IF x \in X THEN NoSending ELSE @[x]],
     !.relay.timers = @ \ X, !.relay.digests = @ \ X,
     !.relay.failed = @ \ X, !.relay.rejected = @ \ X]

LEMMA DeletedIs ==
  ASSUME NEW z \in States, NEW X \in SUBSET Workers
  PROVE  LET y == Deleted(z, X) IN
         /\ y \in States /\ y.hist = z.hist
         /\ \A x \in Members :
              /\ y.room[x].parent = z.room[x].parent /\ y.room[x].report = z.room[x].report
              /\ y.room[x].stopped = z.room[x].stopped
              /\ y.room[x].life = IF x \in X THEN "gone" ELSE z.room[x].life
              /\ y.room[x].queue = IF x \in X THEN <<>> ELSE z.room[x].queue
              /\ y.room[x].outbox = IF x \in X THEN {} ELSE z.room[x].outbox \ X
         /\ \A x \in Members : IF x \in X
              THEN y.relay.cur[x] = NoTurn /\ y.relay.turns[x] = <<>> /\ ~y.relay.sending[x].on
              ELSE /\ y.relay.cur[x] = z.relay.cur[x] /\ y.relay.turns[x] = z.relay.turns[x]
                   /\ y.relay.sending[x] = z.relay.sending[x]
<1> DEFINE y == Deleted(z, X)
           rm == [x \in Members |-> IF x \in X THEN [z.room[x] EXCEPT !.life = "gone", !.outbox = {}, !.queue = <<>>]
                                    ELSE [z.room[x] EXCEPT !.outbox = z.room[x].outbox \ X]]
           c == [x \in Members |-> IF x \in X THEN NoTurn ELSE z.relay.cur[x]]
           u == [x \in Members |-> IF x \in X THEN <<>> ELSE z.relay.turns[x]]
           snd == [x \in Members |-> IF x \in X THEN NoSending ELSE z.relay.sending[x]]
           l == [z.relay EXCEPT !.cur = c, !.turns = u, !.sending = snd, !.timers = @ \ X, !.digests = @ \ X,
                                !.failed = @ \ X, !.rejected = @ \ X]
<1>1. y = [z EXCEPT !.room = rm, !.relay = l]
  <2>1. y = [z EXCEPT !.room = rm, !.relay.cur = c, !.relay.turns = u, !.relay.sending = snd,
                      !.relay.timers = @ \ X, !.relay.digests = @ \ X,
                      !.relay.failed = @ \ X, !.relay.rejected = @ \ X]
    BY DEF Deleted
  <2> HIDE DEF rm, c, u, snd, y
  <2> QED BY <2>1 DEF States
<1> HIDE DEF y
<1>2. \A x \in Members :
        /\ rm[x] \in Agents
        /\ rm[x].parent = z.room[x].parent /\ rm[x].report = z.room[x].report
        /\ rm[x].stopped = z.room[x].stopped
        /\ rm[x].life = IF x \in X THEN "gone" ELSE z.room[x].life
        /\ rm[x].queue = IF x \in X THEN <<>> ELSE z.room[x].queue
        /\ rm[x].outbox = IF x \in X THEN {} ELSE z.room[x].outbox \ X
  <2> SUFFICES ASSUME NEW x \in Members PROVE <1>2!(x)
    OBVIOUS
  <2>1. rm[x] = IF x \in X THEN [z.room[x] EXCEPT !.life = "gone", !.outbox = {}, !.queue = <<>>]
                ELSE [z.room[x] EXCEPT !.outbox = z.room[x].outbox \ X]
    OBVIOUS
  <2>2. z.room[x] \in Agents /\ <<>> \in Seq(0..MaxMessages)
    BY AgentsAre, EmptySeq
  <2> HIDE DEF rm
  <2> QED BY <2>1, <2>2 DEF Agents, Lives
<1>3. rm \in RoomSet
  <2>1. rm = [x \in Members |-> rm[x]]
    OBVIOUS
  <2> HIDE DEF rm
  <2> QED BY <1>2, <2>1 DEF RoomSet
<1>4. /\ c \in [Members -> TurnSet] /\ u \in [Members -> Seq(TurnSet)] /\ snd \in [Members -> Sendings]
      /\ \A x \in Members : IF x \in X THEN c[x] = NoTurn /\ u[x] = <<>> /\ ~snd[x].on
                            ELSE c[x] = z.relay.cur[x] /\ u[x] = z.relay.turns[x] /\ snd[x] = z.relay.sending[x]
  <2>1. NoTurn \in TurnSet /\ <<>> \in Seq(TurnSet)
    BY TurnIs, NoReportsIs, BoundsAssumption, EmptySeq DEF Kinds
  <2>2. /\ z.relay.cur \in [Members -> TurnSet] /\ z.relay.turns \in [Members -> Seq(TurnSet)]
        /\ z.relay.sending \in [Members -> Sendings]
    BY DEF States, RelaySet
  <2> QED BY <2>1, <2>2, NoSendingIs
<1> HIDE DEF rm, c, u, snd
<1>5. l \in RelaySet /\ l.cur = c /\ l.turns = u /\ l.sending = snd
  BY <1>4 DEF States, RelaySet
<1> HIDE DEF l
<1>6. y \in States /\ y.room = rm /\ y.relay = l /\ y.hist = z.hist
  BY <1>1, <1>3, <1>5 DEF States
<1> QED BY <1>2, <1>4, <1>5, <1>6 DEF y

(* Nobody is left whose report waited with a deleted agent: who is below   *)
(* one is deleted too.                                                     *)
LEMMA PurgedGood ==
  ASSUME NEW z, Good(z), NEW w \in Workers, z.room[w].stopped = "removed"
  PROVE  LET ids == Subtree(z, w) IN
         Good(Fate(Deleted(z, ids), UNION {Range(z.room[x].queue) : x \in ids}, "dropped"))
<1> DEFINE ids == Subtree(z, w)
           ms == UNION {Range(z.room[x].queue) : x \in ids}
           d == Deleted(z, ids)
           y == Fate(d, ms, "dropped")
<1>0. z \in States
  BY DEF Good
<1>1. /\ ids \in SUBSET Workers /\ w \in ids
      /\ \A x \in ids : x = w \/ w \in Above(z, x)
      /\ \A x \in Workers : IsMember(z, x) /\ w \in Above(z, x) => x \in ids
      /\ \A x \in ids : z.room[x].life # "unborn"
  <2>1. z.room[w].life # "unborn"
    BY DEF Good, Tree
  <2> QED BY <2>1 DEF Subtree, Below, IsMember
<1> HIDE DEF ids
<1>2. /\ d \in States /\ d.hist = z.hist
      /\ \A x \in Members :
              /\ d.room[x].parent = z.room[x].parent /\ d.room[x].report = z.room[x].report
              /\ d.room[x].stopped = z.room[x].stopped
              /\ d.room[x].life = IF x \in ids THEN "gone" ELSE z.room[x].life
              /\ d.room[x].queue = IF x \in ids THEN <<>> ELSE z.room[x].queue
              /\ d.room[x].outbox = IF x \in ids THEN {} ELSE z.room[x].outbox \ ids
      /\ \A x \in Members : IF x \in ids
              THEN d.relay.cur[x] = NoTurn /\ d.relay.turns[x] = <<>> /\ ~d.relay.sending[x].on
              ELSE /\ d.relay.cur[x] = z.relay.cur[x] /\ d.relay.turns[x] = z.relay.turns[x]
                   /\ d.relay.sending[x] = z.relay.sending[x]
  BY <1>0, <1>1, DeletedIs
<1> HIDE DEF d, y, ms
<1>3. /\ y \in States /\ y.room = d.room /\ y.relay = d.relay
      /\ y.hist.told = z.hist.told /\ y.hist.sent = z.hist.sent /\ y.hist.late = z.hist.late /\ y.hist.own = z.hist.own
      /\ \A m \in Messages : y.hist.fate[m] = IF m \in ms THEN "dropped" ELSE z.hist.fate[m]
  <2>1. "dropped" \in Fates
    BY DEF Fates
  <2>2. y = Fate(d, ms, "dropped")
    BY DEF y
  <2> QED BY <1>2, <2>1, <2>2, FateIs
<1>room. \A x \in Members :
              /\ y.room[x].parent = z.room[x].parent /\ y.room[x].report = z.room[x].report
              /\ y.room[x].stopped = z.room[x].stopped
              /\ y.room[x].life = IF x \in ids THEN "gone" ELSE z.room[x].life
              /\ y.room[x].queue = IF x \in ids THEN <<>> ELSE z.room[x].queue
              /\ y.room[x].outbox = IF x \in ids THEN {} ELSE z.room[x].outbox \ ids
  <2>1. \A x \in Members :
              /\ d.room[x].parent = z.room[x].parent /\ d.room[x].report = z.room[x].report
              /\ d.room[x].stopped = z.room[x].stopped
              /\ d.room[x].life = IF x \in ids THEN "gone" ELSE z.room[x].life
              /\ d.room[x].queue = IF x \in ids THEN <<>> ELSE z.room[x].queue
              /\ d.room[x].outbox = IF x \in ids THEN {} ELSE z.room[x].outbox \ ids
    BY <1>2
  <2>2. y.room = d.room
    BY <1>3
  <2> QED BY <2>1, <2>2
<1>turns. \A x \in Members : IF x \in ids
              THEN y.relay.cur[x] = NoTurn /\ y.relay.turns[x] = <<>> /\ ~y.relay.sending[x].on
              ELSE /\ y.relay.cur[x] = z.relay.cur[x] /\ y.relay.turns[x] = z.relay.turns[x]
                   /\ y.relay.sending[x] = z.relay.sending[x]
  <2>1. \A x \in Members : IF x \in ids
              THEN d.relay.cur[x] = NoTurn /\ d.relay.turns[x] = <<>> /\ ~d.relay.sending[x].on
              ELSE /\ d.relay.cur[x] = z.relay.cur[x] /\ d.relay.turns[x] = z.relay.turns[x]
                   /\ d.relay.sending[x] = z.relay.sending[x]
    BY <1>2
  <2>2. y.relay = d.relay
    BY <1>3
  <2> QED BY <2>1, <2>2
<1>told. /\ y \in States /\ y.hist.told = z.hist.told
  BY <1>3
<1>4. \A x \in Members : Above(y, x) = Above(z, x)
  <2>1. \A x \in Members : y.room[x].parent = z.room[x].parent
    BY <1>room
  <2> QED BY <2>1, AboveSame
<1>5. Tree(y)
  <2>1. Principal \notin ids /\ Principal \in Members /\ \A x \in Workers : x \in Members
    BY <1>1, WorkersAre
  <2>2. y.room[Principal].life = "member" /\ y.room[Principal].stopped = "no" /\ y.room[Principal].parent = NoOne
    BY <1>told, <1>room, <2>1 DEF Good, Tree
  <2>3. ASSUME NEW x \in Workers, y.room[x].life = "unborn"
        PROVE  y.room[x].parent = NoOne /\ y.room[x].report.at = 0 /\ y.room[x].stopped = "no"
    <3>1. z.room[x].life = "unborn"
      BY <1>told, <1>room, <2>1, <2>3
    <3> QED BY <1>told, <1>room, <2>1, <3>1 DEF Good, Tree
  <2>4. ASSUME NEW x \in Workers, y.room[x].life # "unborn" PROVE Principal \in Above(y, x)
    <3>1. z.room[x].life # "unborn"
      BY <1>1, <1>told, <1>room, <2>1, <2>4
    <3> QED BY <1>4, <2>1, <3>1 DEF Good, Tree
  <2> QED BY <2>2, <2>3, <2>4 DEF Tree
<1>6. Readers(y, Members)
  BY <1>room DEF Good, Readers, Live, IsMember
<1>7. Kept(y)
  <2> SUFFICES ASSUME NEW u \in Workers, IsMember(y, u), y.room[u].report.at > y.hist.told[u]
               PROVE  \E x \in Above(y, u) : u \in y.room[x].outbox
    BY DEF Kept
  <2>1. /\ u \in Members /\ u \notin ids /\ IsMember(z, u) /\ z.room[u].report.at > z.hist.told[u]
        /\ Above(y, u) = Above(z, u)
    BY <1>told, <1>room, <1>4, WorkersAre DEF IsMember
  <2>2. PICK x \in Above(z, u) : u \in z.room[x].outbox
    BY <2>1 DEF Good, Kept
  <2>3. x \notin ids
    <3>1. SUFFICES ASSUME x \in ids PROVE w \in Above(z, u)
      BY <1>1, <2>1
    <3> QED BY <1>1, <2>2, <3>1, AboveTrans
  <2> QED BY <1>told, <1>room, <2>1, <2>2, <2>3, AboveMembers
<1>8. Queues(y)
  <2>1. \A x \in Workers : y.room[x].queue = IF x \in ids THEN <<>> ELSE z.room[x].queue
    BY <1>room, WorkersAre
  <2>2. Queues(z)
    BY DEF Good
  <2>3. /\ y.hist.sent = z.hist.sent /\ y.hist.late = z.hist.late /\ y.hist.own = z.hist.own
        /\ \A m \in Messages : y.hist.fate[m] =
             IF m \in UNION {Range(z.room[x].queue) : x \in ids} THEN "dropped" ELSE z.hist.fate[m]
    BY <1>3 DEF ms
  <2> QED BY <1>1, <2>1, <2>2, <2>3, DroppedGood
<1>9. Heads(y)
  <2> SUFFICES ASSUME NEW x \in Members PROVE Heads(y)!(x)
    BY DEF Heads
  <2>1. CASE x \in ids
    <3>1. DOMAIN y.relay.turns[x] = {} /\ y.relay.cur[x].kind = "none"
      BY <1>3, <1>room, <1>turns, <2>1, TurnIs, NoReportsIs, BoundsAssumption DEF NoTurn
    <3> QED BY <3>1
  <2>2. CASE x \notin ids
    <3>1. \A m : HeadIs(z, x, m) => HeadIs(y, x, m)
      BY <1>3, <1>room, <1>turns, <2>2 DEF HeadIs
    <3> QED BY <1>3, <1>room, <1>turns, <2>2, <3>1 DEF Good, Heads
  <2> QED BY <2>1, <2>2
<1>10. Sending(y, Members)
  BY <1>turns DEF Good, Sending
<1>11. Good(y)
  BY <1>3, <1>5, <1>6, <1>7, <1>8, <1>9, <1>10 DEF Good
<1> QED BY <1>11 DEF y, d, ms, ids

LEMMA PurgeGood ==
  ASSUME IInv, NEW w \in Workers, Purge(w)
  PROVE  IInv'
<1> DEFINE l == [relay EXCEPT !.purges = @ \ {w}]
           z == [Here EXCEPT !.relay.purges = @ \ {w}]
           ids == Subtree(z, w)
           gone == Fate(Deleted(z, ids), UNION {Range(room[x].queue) : x \in ids}, "dropped")
           y == ConsiderDigest(gone, {LiveAncestor(z, w)})
<1>1. z = [Here EXCEPT !.relay = l]
  BY HereGood DEF States
<1>2. l \in RelaySet /\ l.cur = relay.cur /\ l.turns = relay.turns /\ l.sending = relay.sending
  BY HereGood DEF RelaySet
<1>3. Good(z) /\ z.room = room
  <2> HIDE DEF l, z
  <2>1. Quiet(Here, z)
    BY <1>1, <1>2, HereGood, RelaySetQuiet
  <2> QED BY <2>1, HereGood, QuietGood DEF Quiet
<1>4. /\ works' \subseteq Members
      /\ Become(z) \/ (room[w].stopped = "removed" /\ Become(y))
  BY DEF Purge, Then, Deleted, IInv
<1> HIDE DEF z
<1>5. CASE Become(z)
  BY <1>3, <1>4, <1>5, BecomeGood
<1>6. CASE room[w].stopped = "removed" /\ Become(y)
  <2>1. Good(gone)
    BY <1>3, <1>6, PurgedGood
  <2> HIDE DEF gone
  <2>2. Good(y)
    BY <2>1, AncestorIn, ConsiderGood
  <2> HIDE DEF y
  <2> QED BY <1>4, <1>6, <2>2, BecomeGood
<1> QED BY <1>4, <1>5, <1>6

(* The turn of x, in the host's hands: what is being sent is then to be     *)
(* noted as delivered, which a digest's turn and a person's need not.      *)
LEMMA TakenIs ==
  ASSUME NEW z, Good(z), NEW x \in Members, z.relay.cur[x] # NoTurn
  PROVE  LET y == [z EXCEPT !.relay.cur[x] = [@ EXCEPT !.taken = TRUE, !.left = FALSE, !.told = NoReports]] IN
         /\ y \in States /\ y.room = z.room /\ y.hist = z.hist
         /\ y.relay.sending = z.relay.sending /\ y.relay.cur[x].taken
         /\ y.relay.cur[x].kind = z.relay.cur[x].kind /\ y.relay.cur[x].msg = z.relay.cur[x].msg
         /\ Free(y, x) /\ Heads(y) /\ Sending(y, Members \ {x})
         /\ z.relay.cur[x].kind # "message" => Good(y)
<1> DEFINE y == [z EXCEPT !.relay.cur[x] = [@ EXCEPT !.taken = TRUE, !.left = FALSE, !.told = NoReports]]
           n == [z.relay.cur[x] EXCEPT !.taken = TRUE, !.left = FALSE, !.told = NoReports]
           c == [z.relay.cur EXCEPT ![x] = n]
           l == [z.relay EXCEPT !.cur = c]
<1>0. z \in States /\ z.relay.cur[x] \in TurnSet /\ z.relay.cur \in [Members -> TurnSet]
  BY DEF Good, States, RelaySet
<1>1. y = [z EXCEPT !.relay = l]
  <2>1. y = [z EXCEPT !.relay.cur[x] = n]
    BY <1>0 DEF States, RelaySet
  <2> HIDE DEF n, y
  <2> QED BY <1>0, <2>1 DEF States
<1>2. n \in TurnSet /\ n.kind = z.relay.cur[x].kind /\ n.msg = z.relay.cur[x].msg /\ n.taken
  BY <1>0, NoReportsIs DEF TurnSet
<1> HIDE DEF n
<1>3. c \in [Members -> TurnSet] /\ c[x] = n /\ \A v \in Members : v # x => c[v] = z.relay.cur[v]
  BY <1>0, <1>2
<1> HIDE DEF c
<1>4. l \in RelaySet /\ l.cur = c /\ l.turns = z.relay.turns /\ l.sending = z.relay.sending
  BY <1>0, <1>3 DEF States, RelaySet
<1> HIDE DEF l, y
<1>5. y \in States /\ y.room = z.room /\ y.hist = z.hist /\ y.relay = l
  BY <1>0, <1>1, <1>4 DEF States
<1>6. \A i \in DOMAIN y.relay.turns[x] : y.relay.turns[x][i].kind # "message"
  BY <1>4, <1>5 DEF Good, Heads
<1>7. Free(y, x)
  BY <1>2, <1>3, <1>4, <1>5, <1>6 DEF Free
<1>8. Heads(y)
  <2>1. \A v, m : HeadIs(z, v, m) => HeadIs(y, v, m)
    BY <1>5 DEF HeadIs
  <2> SUFFICES ASSUME NEW v \in Members PROVE Heads(y)!(v)
    BY DEF Heads
  <2>2. CASE v = x
    <3>1. \A i \in DOMAIN y.relay.turns[x] : y.relay.turns[x][i].kind # "none"
      BY <1>4, <1>5 DEF Good, Heads
    <3>2. y.relay.cur[x].kind = "message" => x \in Workers
      BY <1>2, <1>3, <1>4, <1>5 DEF Good, Heads
    <3> QED BY <1>2, <1>3, <1>4, <1>5, <1>6, <2>2, <3>1, <3>2
  <2>3. CASE v # x
    <3>1. y.relay.cur[v] = z.relay.cur[v] /\ y.relay.turns[v] = z.relay.turns[v]
      BY <1>3, <1>4, <1>5, <2>3
    <3> QED BY <2>1, <3>1 DEF Good, Heads
  <2> QED BY <2>2, <2>3
<1>9. Sending(y, Members \ {x})
  <2> SUFFICES ASSUME NEW v \in Members \ {x} PROVE Sending(y, Members \ {x})!(v)
    BY DEF Sending
  <2> QED BY <1>3, <1>4, <1>5 DEF Good, Sending
<1>10. ASSUME z.relay.cur[x].kind # "message" PROVE Good(y)
  <2>1. ~z.relay.sending[x].on
    BY <1>10 DEF Good, Sending
  <2>2. Sending(y, Members)
    BY <1>4, <1>5, <1>9, <2>1 DEF Sending
  <2> QED BY <1>5, <1>8, <2>2, SameRoom, GoodParts
<1> QED BY <1>2, <1>3, <1>4, <1>5, <1>7, <1>8, <1>9, <1>10 DEF y

(* A message the host has taken leaves its queue. *)
LEMMA MessageTaken ==
  ASSUME NEW z \in States, ReportsGood(z), Queues(z), NEW x \in Workers, Heads(z), Sending(z, Members \ {x}), Free(z, x),
         NEW t \in TurnSet, t.kind = "message",
         z.relay.sending[x].on =>
           /\ z.relay.cur[x].kind = "message" /\ z.relay.cur[x].msg = z.relay.sending[x].msg /\ z.relay.cur[x].taken,
         NEW b \in BOOLEAN, b = z.relay.sending[x].on, NEW L, L = {}
  PROVE  Good(RemoveQueued(OwnTurn([z EXCEPT !.relay.sending[x].delivered = b, !.hist.late = @ \cup L], t, "taken"),
                           x, t.msg, "taken"))
<1> DEFINE v == [z EXCEPT !.relay.sending[x].delivered = b, !.hist.late = @ \cup L]
           n == [z.relay.sending[x] EXCEPT !.delivered = b]
           snd == [z.relay.sending EXCEPT ![x] = n]
           l == [z.relay EXCEPT !.sending = snd]
           h == [z.hist EXCEPT !.late = @ \cup L]
           u == OwnTurn(v, t, "taken")
           y == RemoveQueued(u, x, t.msg, "taken")
<1>0. /\ x \in Members /\ z.relay.sending \in [Members -> Sendings]
      /\ z.relay.sending[x] \in Sendings /\ z.relay \in RelaySet /\ z.hist \in HistSet
      /\ t.msg \in 0..MaxMessages
  BY WorkersAre DEF States, RelaySet, TurnSet
<1>1. v = [z EXCEPT !.relay = l, !.hist = h]
  BY <1>0 DEF States, RelaySet
<1>2. n \in Sendings /\ n.on = z.relay.sending[x].on /\ n.msg = z.relay.sending[x].msg /\ n.delivered = b
  BY <1>0 DEF Sendings
<1> HIDE DEF n
<1>3. snd \in [Members -> Sendings] /\ snd[x] = n /\ \A w \in Members : w # x => snd[w] = z.relay.sending[w]
  BY <1>0, <1>2
<1> HIDE DEF snd
<1>4. l \in RelaySet /\ l.cur = z.relay.cur /\ l.turns = z.relay.turns /\ l.sending = snd
  BY <1>0, <1>3 DEF RelaySet
<1>5. h = z.hist
  <2>1. z.hist.late \cup L = z.hist.late
    OBVIOUS
  <2> QED BY <1>0, <2>1 DEF HistSet
<1> HIDE DEF l, h, v
<1>6. v \in States /\ v.room = z.room /\ v.hist = z.hist /\ v.relay = l
  BY <1>0, <1>1, <1>4, <1>5 DEF States
<1>7. ReportsGood(v) /\ Queues(v) /\ Heads(v) /\ Free(v, x)
  <2>1. Heads(v) /\ Free(v, x)
    BY <1>4, <1>6 DEF Heads, HeadIs, Free
  <2> QED BY <1>6, <2>1, SameRoom, FrameReports, FrameQueues DEF ReportsGood
<1>8. Sending(v, Members)
  <2> SUFFICES ASSUME NEW w \in Members PROVE Sending(v, Members)!(w)
    BY DEF Sending
  <2>1. CASE w = x
    BY <1>2, <1>3, <1>4, <1>6, <2>1
  <2>2. CASE w # x
    BY <1>3, <1>4, <1>6, <2>2 DEF Sending
  <2> QED BY <2>1, <2>2
<1>9. /\ u \in States /\ u.room = v.room /\ u.relay = v.relay
      /\ SameReports(v, u) /\ Queues(u)
      /\ \A w \in Members : \A m \in Messages :
           t.kind = "message" /\ t.msg = m /\ HeadIs(v, w, m) => <<m, "taken">> \in u.hist.own
  BY <1>6, <1>7, OwnTurnIs
<1> HIDE DEF u
<1>10. /\ y \in States /\ SameReports(u, y) /\ y.relay = u.relay /\ Queues(y)
       /\ \A w \in Members : w # x => y.room[w] = u.room[w]
  <2>1. HeadIs(u, x, t.msg) /\ t.msg \in Messages => <<t.msg, "taken">> \in u.hist.own
    BY <1>0, <1>9 DEF HeadIs
  <2> QED BY <1>0, <1>9, <2>1, RemoveQueuedIs
<1> HIDE DEF y
<1>11. Heads(y) /\ Sending(y, Members)
  <2>1. \A w \in Members : Free(v, w) \/ \A k : HeadIs(v, w, k) => HeadIs(y, w, k)
    BY <1>7, <1>9, <1>10 DEF HeadIs
  <2> QED BY <1>7, <1>8, <1>9, <1>10, <2>1, FrameTurns DEF SameTurns
<1>12. ReportsGood(y)
  BY <1>7, <1>9, <1>10, FrameReports DEF ReportsGood
<1>13. Good(y)
  BY <1>10, <1>11, <1>12 DEF Good, ReportsGood
<1> QED BY <1>13 DEF y, u, v

(* A digest the host has taken: what it told leaves the outbox, unless it  *)
(* was reported again.                                                     *)
LEMMA DigestTaken ==
  ASSUME NEW z, Good(z), NEW x \in Members, NEW told \in Tolds
  PROVE  Good(ClearFromOutbox(
           [z EXCEPT !.hist.told = [w \in Workers |-> IF w \in DOMAIN told /\ told[w] > @[w] THEN told[w] ELSE @[w]]],
           x, told))
<1> DEFINE g == [w \in Workers |-> IF w \in DOMAIN told /\ told[w] > z.hist.told[w] THEN told[w] ELSE z.hist.told[w]]
           h == [z.hist EXCEPT !.told = g]
           v == [z EXCEPT !.hist.told =
                    [w \in Workers |-> IF w \in DOMAIN told /\ told[w] > @[w] THEN told[w] ELSE @[w]]]
           box == {w \in v.room[x].outbox : /\ IsMember(v, w) /\ v.room[w].report.at # 0
                                            /\ w \in DOMAIN told => told[w] # v.room[w].report.at}
           rm == WithOutbox(v.room, x, box)
           y == ClearFromOutbox(v, x, told)
<1>0. z \in States /\ z.hist \in HistSet /\ z.hist.told \in [Workers -> Nat] /\ z.room \in RoomSet
  BY DEF Good, States, HistSet
<1>1. v = [z EXCEPT !.hist = h]
  BY <1>0 DEF States
<1>2. \A w \in DOMAIN told : w \in Workers /\ told[w] \in Nat
  BY DEF Tolds
<1>3. /\ g \in [Workers -> Nat]
      /\ \A w \in Workers : g[w] >= z.hist.told[w] /\ (w \in DOMAIN told => g[w] >= told[w])
  <2> SUFFICES ASSUME NEW w \in Workers
               PROVE  g[w] \in Nat /\ g[w] >= z.hist.told[w] /\ (w \in DOMAIN told => g[w] >= told[w])
    OBVIOUS
  <2>1. z.hist.told[w] \in Nat
    BY <1>0
  <2> QED BY <1>2, <2>1
<1> HIDE DEF g
<1>4. h \in HistSet /\ h.told = g /\ h.fate = z.hist.fate /\ h.sent = z.hist.sent /\ h.late = z.hist.late /\ h.own = z.hist.own
  BY <1>0, <1>3 DEF HistSet
<1> HIDE DEF h, v
<1>5. v \in States /\ v.room = z.room /\ v.relay = z.relay /\ v.hist = h
  BY <1>0, <1>1, <1>4 DEF States
<1>6. y = [v EXCEPT !.room = rm]
  BY <1>5 DEF ClearFromOutbox, States, WithOutbox
<1>7. box \in SUBSET Workers
  BY <1>5, AgentsAre
<1>8. \A w \in z.room[x].outbox : IsMember(z, w) /\ z.room[w].report.at # 0
          /\ (w \in DOMAIN told => told[w] # z.room[w].report.at) => w \in box
  BY <1>5 DEF IsMember
<1>9. box \subseteq z.room[x].outbox
  BY <1>5
<1> HIDE DEF box
<1>10. /\ rm \in RoomSet
       /\ \A u \in Members :
              /\ rm[u].life = z.room[u].life /\ rm[u].parent = z.room[u].parent
              /\ rm[u].stopped = z.room[u].stopped /\ rm[u].queue = z.room[u].queue
              /\ rm[u].report = z.room[u].report
              /\ rm[u].outbox = IF u = x THEN box ELSE z.room[u].outbox
  BY <1>0, <1>5, <1>7, OutboxSet
<1> HIDE DEF rm, y
<1>11. y \in States /\ y.room = rm /\ y.relay = z.relay /\ y.hist = h
  BY <1>5, <1>6, <1>10 DEF States
<1>12. /\ Tree(y)
       /\ \A u \in Members : /\ Above(y, u) = Above(z, u) /\ (Live(y, u) <=> Live(z, u))
                             /\ (IsMember(y, u) <=> IsMember(z, u))
  <2>1. \A u \in Members : /\ y.room[u].life = z.room[u].life /\ y.room[u].parent = z.room[u].parent
                           /\ y.room[u].stopped = z.room[u].stopped
    BY <1>10, <1>11
  <2>2. \A w \in Workers : z.room[w].life = "unborn" => y.room[w].report = z.room[w].report
    BY <1>10, <1>11, WorkersAre
  <2> QED BY <2>1, <2>2, TreeSame DEF Good
<1>13. Readers(y, Members)
  BY <1>9, <1>10, <1>11, <1>12 DEF Good, Readers
<1>14. Kept(y)
  <2> SUFFICES ASSUME NEW u \in Workers, IsMember(y, u), y.room[u].report.at > y.hist.told[u]
               PROVE  \E a \in Above(y, u) : u \in y.room[a].outbox
    BY DEF Kept
  <2>1. /\ u \in Members /\ IsMember(z, u) /\ Above(y, u) = Above(z, u)
        /\ z.room[u].report.at > g[u] /\ z.room[u].report.at \in Nat
    BY <1>0, <1>4, <1>10, <1>11, <1>12, WorkersAre, AgentsAre
  <2>2. /\ g[u] \in Nat /\ z.hist.told[u] \in Nat /\ g[u] >= z.hist.told[u]
        /\ u \in DOMAIN told => g[u] >= told[u] /\ told[u] \in Nat
    BY <1>0, <1>2, <1>3
  <2>3. /\ z.room[u].report.at > z.hist.told[u] /\ z.room[u].report.at # 0
        /\ u \in DOMAIN told => told[u] # z.room[u].report.at
    BY <2>1, <2>2
  <2>4. PICK a \in Above(z, u) : u \in z.room[a].outbox
    BY <2>1, <2>3 DEF Good, Kept
  <2>5. a \in Members
    BY AboveMembers
  <2>6. u \in y.room[a].outbox
    BY <1>8, <1>10, <1>11, <2>1, <2>3, <2>4, <2>5
  <2> QED BY <2>1, <2>4, <2>6
<1>15. Queues(y) /\ Heads(y) /\ Sending(y, Members)
  <2>1. SameQueues(z, y) /\ SameTurns(z, y)
    BY <1>4, <1>10, <1>11 DEF SameQueues, SameTurns
  <2> QED BY <2>1, SameHeads, FrameQueues, FrameTurns DEF Good
<1>16. Good(y)
  BY <1>11, <1>12, <1>13, <1>14, <1>15 DEF Good
<1> QED BY <1>16 DEF y, v

LEMMA TakenGood ==
  ASSUME IInv, NEW x \in Members, Taken(x)
  PROVE  IInv'
<1> DEFINE t == relay.cur[x]
           b == relay.sending[x].on
           z == [Here EXCEPT !.relay.cur[x] = [@ EXCEPT !.taken = TRUE, !.left = FALSE, !.told = NoReports]]
           L == {m \in {t.msg} \ {Reminder} : ~t.left /\ hist.fate[m] # "queued"}
           y == RemoveQueued(OwnTurn([z EXCEPT !.relay.sending[x].delivered = b, !.hist.late = @ \cup L], t, "taken"),
                             x, t.msg, "taken")
           d == ClearFromOutbox(
                  [z EXCEPT !.hist.told = [w \in Workers |-> IF w \in DOMAIN t.told /\ t.told[w] > @[w] THEN t.told[w] ELSE @[w]]],
                  x, t.told)
<1>1. /\ t # NoTurn /\ ~t.taken /\ (t.stop => t.left) /\ works' \subseteq Members
      /\ \/ t.kind = "message" /\ Become(y)
         \/ t.kind = "digest" /\ Become(d)
         \/ t.kind \notin {"message", "digest"} /\ Become(z)
  BY HereGood DEF Taken, IInv, OnWay, Untaken
<1>2. t \in TurnSet /\ relay.sending[x] \in Sendings
  BY HereGood DEF RelaySet
<1>3. /\ z \in States /\ z.room = room /\ z.hist = hist
      /\ z.relay.sending = relay.sending /\ z.relay.cur[x].taken
      /\ z.relay.cur[x].kind = t.kind /\ z.relay.cur[x].msg = t.msg
      /\ Free(z, x) /\ Heads(z) /\ Sending(z, Members \ {x})
      /\ t.kind # "message" => Good(z)
  <2> HIDE DEF y, d, L, b, t
  <2>1. Here.relay.cur[x] # NoTurn /\ Here.relay.cur[x] = t
    BY <1>1, HereGood DEF t
  <2>2. Here.room = room /\ Here.hist = hist /\ Here.relay = relay /\ Good(Here)
    BY HereGood
  <2>3. /\ z \in States /\ z.room = Here.room /\ z.hist = Here.hist
        /\ z.relay.sending = Here.relay.sending /\ z.relay.cur[x].taken
        /\ z.relay.cur[x].kind = Here.relay.cur[x].kind /\ z.relay.cur[x].msg = Here.relay.cur[x].msg
        /\ Free(z, x) /\ Heads(z) /\ Sending(z, Members \ {x})
        /\ Here.relay.cur[x].kind # "message" => Good(z)
    BY <2>1, <2>2, TakenIs
  <2> HIDE DEF z
  <2> QED BY <2>1, <2>2, <2>3
<1> HIDE DEF z
<1>4. CASE t.kind = "message" /\ Become(y)
  <2>1. ReportsGood(z) /\ Queues(z)
    BY <1>3, HereGood, SameRoom, FrameReports, FrameQueues DEF Good, ReportsGood
  <2>2. x \in Workers
    BY <1>4, HereGood DEF Good, Heads
  <2>3. L = {}
    <3> SUFFICES ASSUME t.msg # Reminder, ~t.left PROVE hist.fate[t.msg] = "queued"
      OBVIOUS
    <3> DEFINE q == room[x].queue
    <3>1. q # <<>> /\ q \in Seq(0..MaxMessages) /\ Head(q) = t.msg
      BY <1>1, <1>4, HereGood, QueueIs, WorkersAre DEF Good, Heads, HeadIs
    <3> HIDE DEF q
    <3>0. Range(q) = {Head(q)} \cup Range(Tail(q)) /\ Head(q) \in 0..MaxMessages
      BY <3>1, RangeIs
    <3>2. t.msg \in Range(q) /\ t.msg \in 0..MaxMessages
      BY <3>0, <3>1
    <3>3. t.msg \in Messages
      BY <3>2, BoundsAssumption DEF Messages, Reminder
    <3> QED BY <2>2, <3>2, <3>3, HereGood DEF Good, Queues, q
  <2> HIDE DEF L
  <2>4. z.relay.sending[x].on =>
           /\ z.relay.cur[x].kind = "message" /\ z.relay.cur[x].msg = z.relay.sending[x].msg /\ z.relay.cur[x].taken
    <3> HIDE DEF t
    <3>1. z.relay.sending[x].on => Here.relay.sending[x].on /\ z.relay.sending[x].msg = Here.relay.sending[x].msg
      BY <1>3, HereGood
    <3>2. Here.relay.cur[x] # NoTurn /\ Here.relay.cur[x].msg = t.msg
      BY <1>1, HereGood DEF t
    <3>3. Here.relay.sending[x].on => t.msg = Here.relay.sending[x].msg
      BY <3>2, HereGood DEF Good, Sending
    <3> QED BY <1>3, <1>4, <3>1, <3>3
  <2>5. b \in BOOLEAN /\ b = z.relay.sending[x].on
    BY <1>2, <1>3 DEF Sendings
  <2> HIDE DEF b, t
  <2>6. Good(y)
    BY <1>2, <1>3, <1>4, <2>1, <2>2, <2>3, <2>4, <2>5, MessageTaken
  <2> HIDE DEF y
  <2> QED BY <1>1, <1>4, <2>6, BecomeGood
<1>5. CASE t.kind = "digest" /\ Become(d)
  <2>1. t.told \in Tolds
    BY <1>2 DEF TurnSet
  <2>2. Good(z)
    BY <1>3, <1>5
  <2>3. Good(d)
    BY <2>1, <2>2, DigestTaken
  <2> HIDE DEF d
  <2> QED BY <1>1, <1>5, <2>3, BecomeGood
<1>6. CASE t.kind \notin {"message", "digest"} /\ Become(z)
  BY <1>1, <1>3, <1>6, BecomeGood
<1> QED BY <1>1, <1>4, <1>5, <1>6

LEMMA SettleGood ==
  ASSUME IInv, NEW x \in Members, NEW out \in {"done", "stopped", "failed"}, Settle(x, out)
  PROVE  IInv'
<1> DEFINE n == IF out = "failed" /\ relay.up /\ Admitted(Here, x) /\ ~relay.cur[x].left THEN hist.faults + 1 ELSE hist.faults
           h == [hist EXCEPT !.faults = n]
           z == [Here EXCEPT !.hist.faults = IF out = "failed" /\ relay.up /\ Admitted(Here, x) /\ ~relay.cur[x].left THEN @ + 1 ELSE @]
           y == TurnSettled(z, x, out)
<1>1. relay.cur[x] # NoTurn /\ Become(y) /\ works' \subseteq Members
  BY DEF Settle, IInv
<1>2. z = [Here EXCEPT !.hist = h]
  BY HereGood DEF States
<1>3. n \in Nat
  BY HereGood DEF HistSet
<1> HIDE DEF n
<1>4. h \in HistSet /\ h.told = hist.told /\ h.fate = hist.fate /\ h.sent = hist.sent /\ h.late = hist.late /\ h.own = hist.own
  BY <1>3, HereGood DEF HistSet
<1> HIDE DEF h, z
<1>5. Good(z) /\ z.relay = relay
  BY <1>2, <1>4, HereGood, HistSetGood
<1>6. Good(y)
  BY <1>1, <1>5, TurnSettledGood
<1> HIDE DEF y
<1> QED BY <1>1, <1>6, BecomeGood

LEMMA HostEndsGood ==
  ASSUME IInv, NEW x \in Members, HostEnds(x)
  PROVE  IInv'
<1>1. Here' = Here /\ works' \subseteq Members
  BY DEF HostEnds, Here, IInv
<1> QED BY <1>1 DEF IInv

LEMMA DeliverDigestGood ==
  ASSUME IInv, NEW x \in Members, DeliverDigest(x)
  PROVE  IInv'
<1> DEFINE l == [relay EXCEPT !.timers = @ \ {x}]
           z == [Here EXCEPT !.relay.timers = @ \ {x}]
           told == [w \in Entries(z, x) |-> room[w].report.at]
           k == [z.relay EXCEPT !.digests = @ \cup {x}]
           v == [z EXCEPT !.relay.digests = @ \cup {x}]
           ts == [u \in {x} |-> Turn("digest", 0, told)]
           y == Submit(v, ts)
<1>1. works' = works /\ (Become(z) \/ Become(y))
  BY DEF DeliverDigest
<1>2. z = [Here EXCEPT !.relay = l]
  BY HereGood DEF States
<1>3. l \in RelaySet /\ l.cur = relay.cur /\ l.turns = relay.turns /\ l.sending = relay.sending
  BY HereGood DEF RelaySet
<1> HIDE DEF l, z
<1>4. Good(z) /\ z \in States /\ z.room = room
  <2>1. Quiet(Here, z)
    BY <1>2, <1>3, HereGood, RelaySetQuiet
  <2> QED BY <2>1, HereGood, QuietGood DEF Quiet
<1>5. told \in Tolds
  <2>1. Entries(z, x) \in SUBSET Workers
    BY <1>4, AgentsAre DEF Entries
  <2>2. \A w \in Workers : room[w].report.at \in Nat
    BY HereGood, AgentsAre, WorkersAre
  <2> QED BY <2>1, <2>2 DEF Tolds
<1> HIDE DEF told
<1>6. v = [z EXCEPT !.relay = k]
  BY <1>4 DEF States
<1>7. k \in RelaySet /\ k.cur = z.relay.cur /\ k.turns = z.relay.turns /\ k.sending = z.relay.sending
  BY <1>4 DEF States, RelaySet
<1> HIDE DEF k, v
<1>8. Good(v)
  BY <1>4, <1>6, <1>7, RelaySetQuiet, QuietGood
<1>9. DOMAIN ts \subseteq Members /\ \A u \in DOMAIN ts : ts[u] \in TurnSet /\ ts[u].kind \notin {"none", "message"}
  BY <1>5, TurnIs, BoundsAssumption DEF Kinds
<1> HIDE DEF ts
<1>10. Good(y)
  BY <1>8, <1>9, SubmitGood
<1> HIDE DEF y
<1> QED BY <1>1, <1>4, <1>10, BecomeGood DEF IInv

LEMMA DisconnectGood ==
  ASSUME IInv, NEW S \in SUBSET Untaken(Here), NEW T \in SUBSET S, Disconnect(S, T)
  PROVE  IInv'
<1> DEFINE h == [hist EXCEPT !.faults = @ + 1]
           l == [relay EXCEPT !.up = FALSE, !.reconciling = FALSE, !.rejected = S]
           z == [Here EXCEPT !.hist = h]
           y == [Here EXCEPT !.hist.faults = @ + 1, !.relay.up = FALSE, !.relay.reconciling = FALSE,
                             !.relay.rejected = S]
<1>1. Become(y) /\ works' \subseteq Members
  BY DEF Disconnect, IInv, Untaken
<1>2. h \in HistSet /\ h.told = hist.told /\ h.fate = hist.fate /\ h.sent = hist.sent /\ h.late = hist.late /\ h.own = hist.own
  BY HereGood DEF HistSet
<1>3. l \in RelaySet /\ l.cur = relay.cur /\ l.turns = relay.turns /\ l.sending = relay.sending
  BY HereGood DEF RelaySet, Untaken
<1>4. y = [z EXCEPT !.relay = l]
  BY HereGood DEF States
<1> HIDE DEF h, l, z, y
<1>5. Good(z) /\ z \in States /\ z.relay = relay
  BY <1>2, HereGood, HistSetGood DEF z
<1>6. Good(y)
  BY <1>3, <1>4, <1>5, RelaySetQuiet, QuietGood
<1> QED BY <1>1, <1>6, BecomeGood

LEMMA ConnectGood ==
  ASSUME IInv, Connect
  PROVE  IInv'
<1> DEFINE l == [relay EXCEPT !.up = TRUE, !.reconciling = TRUE]
           y == [Here EXCEPT !.relay.up = TRUE, !.relay.reconciling = TRUE]
<1>1. Become(y) /\ works' = works
  BY DEF Connect
<1>2. y = [Here EXCEPT !.relay = l]
  BY HereGood DEF States
<1>3. l \in RelaySet /\ l.cur = relay.cur /\ l.turns = relay.turns /\ l.sending = relay.sending
  BY HereGood DEF RelaySet
<1> HIDE DEF l, y
<1>4. Good(y)
  BY <1>2, <1>3, HereGood, RelaySetQuiet, QuietGood
<1> QED BY <1>1, <1>4, BecomeGood DEF IInv

LEMMA ReconcileGood ==
  ASSUME IInv, Reconcile
  PROVE  IInv'
<1> DEFINE l == [relay EXCEPT !.reconciling = FALSE, !.failed = {}]
           z == [Here EXCEPT !.relay.reconciling = FALSE, !.relay.failed = {}]
           on == {x \in works : IsMember(z, x) /\ ~Busy(z, x)}
           ts == [x \in on |-> [Turn("follow", 0, NoReports) EXCEPT !.taken = TRUE]]
           v == Submit(z, ts)
           u == Pump(v, Workers)
           y == ConsiderDigest(u, Members)
<1>1. Become(y) /\ works' = works
  BY DEF Reconcile, Reconciled, Followed, Then
<1>2. z = [Here EXCEPT !.relay = l]
  BY HereGood DEF States
<1>3. l \in RelaySet /\ l.cur = relay.cur /\ l.turns = relay.turns /\ l.sending = relay.sending
  BY HereGood DEF RelaySet
<1> HIDE DEF l, z
<1>4. Good(z)
  BY <1>2, <1>3, HereGood, RelaySetQuiet, QuietGood
<1>5. DOMAIN ts \subseteq Members /\ \A x \in DOMAIN ts : ts[x] \in TurnSet /\ ts[x].kind \notin {"none", "message"}
  <2> DEFINE f == Turn("follow", 0, NoReports)
             g == [f EXCEPT !.taken = TRUE]
  <2>1. f \in TurnSet /\ f.kind = "follow"
    BY TurnIs, NoReportsIs, BoundsAssumption DEF Kinds
  <2> HIDE DEF f
  <2>2. g \in TurnSet /\ g.kind = "follow"
    BY <2>1 DEF TurnSet
  <2>3. DOMAIN ts \subseteq Members /\ \A x \in DOMAIN ts : ts[x] = g
    BY DEF IInv, f
  <2> QED BY <2>2, <2>3
<1> HIDE DEF ts
<1>6. Good(v)
  BY <1>4, <1>5, SubmitGood
<1> HIDE DEF v
<1>7. Good(u)
  BY <1>6, PumpGood, WorkersAre
<1> HIDE DEF u
<1>8. Good(y)
  BY <1>7, ConsiderGood
<1> HIDE DEF y
<1> QED BY <1>1, <1>8, BecomeGood DEF IInv

LEMMA FreshIs ==
  /\ Fresh \in RelaySet
  /\ \A x \in Members : Fresh.cur[x] = NoTurn /\ Fresh.turns[x] = <<>> /\ ~Fresh.sending[x].on
<1>1. NoTurn \in TurnSet /\ <<>> \in Seq(TurnSet) /\ NoRemoval \in Removals
  BY TurnIs, NoReportsIs, BoundsAssumption, EmptySeq DEF Kinds, NoRemoval, Removals, Phases
<1> QED BY <1>1, NoSendingIs DEF Fresh, RelaySet

LEMMA RestartGood ==
  ASSUME NEW z, Good(z), NEW l \in RelaySet,
         \A x \in Members : l.cur[x] = NoTurn /\ l.turns[x] = <<>> /\ ~l.sending[x].on
  PROVE  Good([z EXCEPT !.relay = l])
<1> DEFINE y == [z EXCEPT !.relay = l]
<1>1. y \in States /\ y.room = z.room /\ y.hist = z.hist /\ y.relay = l
  BY DEF Good, States
<1> HIDE DEF y
<1>2. \A x \in Members : DOMAIN y.relay.turns[x] = {} /\ y.relay.cur[x].kind = "none"
  BY <1>1, TurnIs, NoReportsIs, BoundsAssumption DEF NoTurn
<1>3. Heads(y) /\ Sending(y, Members)
  BY <1>1, <1>2 DEF Heads, Sending
<1>4. Good(y)
  BY <1>1, <1>3, SameRoom, GoodParts
<1> QED BY <1>4 DEF y

LEMMA RelayRestartsGood ==
  ASSUME IInv, NEW T \in SUBSET Untaken(Here), RelayRestarts(T)
  PROVE  IInv'
<1> DEFINE P == {w \in Workers : IsMember(Here, w) /\ room[w].stopped = "removed" /\ room[room[w].parent].stopped # "removed"}
           h == [hist EXCEPT !.faults = @ + 1]
           l == [Fresh EXCEPT !.purges = P]
           z == [Here EXCEPT !.hist = h]
           y == [Here EXCEPT !.hist.faults = @ + 1, !.relay = l]
<1>1. Become(y) /\ works' \subseteq Members
  BY DEF RelayRestarts, IInv, Untaken
<1>2. P \in SUBSET Workers
  OBVIOUS
<1> HIDE DEF P
<1>3. h \in HistSet /\ h.told = hist.told /\ h.fate = hist.fate /\ h.sent = hist.sent /\ h.late = hist.late /\ h.own = hist.own
  BY HereGood DEF HistSet
<1>4. l \in RelaySet /\ \A x \in Members : l.cur[x] = NoTurn /\ l.turns[x] = <<>> /\ ~l.sending[x].on
  BY <1>2, FreshIs DEF RelaySet
<1> HIDE DEF l
<1>5. y = [z EXCEPT !.relay = l]
  BY HereGood DEF States
<1> HIDE DEF h, z, y
<1>6. Good(z)
  BY <1>3, HereGood, HistSetGood DEF z
<1>7. Good(y)
  BY <1>4, <1>5, <1>6, RestartGood
<1> QED BY <1>1, <1>7, BecomeGood

-----------------------------------------------------------------------------
(* The specification.                                                      *)

LEMMA InitGood == Init => IInv
<1> SUFFICES ASSUME Init PROVE IInv
  OBVIOUS
<1> DEFINE l == [Fresh EXCEPT !.up = TRUE]
<1>1. l \in RelaySet /\ \A x \in Members : l.cur[x] = NoTurn /\ l.turns[x] = <<>> /\ ~l.sending[x].on
  BY FreshIs DEF RelaySet
<1>2. relay = l /\ works = {}
  BY DEF Init
<1> HIDE DEF l
<1>3. /\ room \in RoomSet
      /\ \A x \in Members : /\ room[x].life = IF x = Principal THEN "member" ELSE "unborn"
                            /\ room[x].parent = NoOne /\ room[x].stopped = "no"
                            /\ room[x].queue = <<>> /\ room[x].report.at = 0 /\ room[x].outbox = {}
  <2>1. <<>> \in Seq(0..MaxMessages)
    BY EmptySeq
  <2> QED BY <2>1 DEF Init, RoomSet, Agents, Lives, Stops, Reports, NoReport
<1>4. hist \in HistSet /\ hist.sent = 0 /\ hist.late = {} /\ hist.own = {} /\ \A m \in Messages : hist.fate[m] = "new"
  BY BoundsAssumption DEF Init, HistSet, Fates
<1>5. Here \in States /\ Here.room = room /\ Here.relay = relay /\ Here.hist = hist
  BY <1>1, <1>2, <1>3, <1>4 DEF Here, States
<1>6. Tree(Here) /\ Readers(Here, Members) /\ Kept(Here)
  BY <1>3, <1>5, WorkersAre DEF Tree, Readers, Kept, IsMember
<1>7. Queues(Here)
  <2>1. DOMAIN <<>> = {} /\ Range(<<>>) = {}
    BY DEF Range
  <2>2. \A x \in Workers : Here.room[x].queue = <<>>
    BY <1>3, <1>5, WorkersAre
  <2> QED BY <1>4, <1>5, <2>1, <2>2 DEF Queues
<1>8. Heads(Here) /\ Sending(Here, Members) /\ Idle(Here)
  <2>1. \A x \in Members : DOMAIN Here.relay.turns[x] = {} /\ Here.relay.cur[x].kind = "none"
    BY <1>1, <1>2, <1>5, TurnIs, NoReportsIs, BoundsAssumption DEF NoTurn
  <2> QED BY <1>1, <1>2, <1>5, <2>1 DEF Heads, Sending, Idle
<1> QED BY <1>2, <1>5, <1>6, <1>7, <1>8 DEF IInv, Good

LEMMA NextGood == IInv /\ [Next]_vars => IInv'
<1> SUFFICES ASSUME IInv, [Next]_vars PROVE IInv'
  OBVIOUS
<1>1. CASE UNCHANGED vars
  BY <1>1 DEF vars, IInv, Here
<1>2. CASE Rejected
  <2>1. PICK x \in relay.rejected : Settle(x, "failed")
    BY <1>2 DEF Rejected
  <2>2. x \in Members
    BY HereGood DEF RelaySet
  <2> QED BY <2>1, <2>2, SettleGood
<1>3. CASE People
  BY <1>3, BoundsAssumption, LaunchWorkerGood, MessageAgentGood, ReportGood, StopAgentGood, ResumeAgentGood, RemoveAgentGood,
     RestoreAgentGood, PersonWritesGood DEF People
<1>4. CASE Goes
  BY <1>4, TakenGood, SettleGood, HostEndsGood, DeliverDigestGood, HideRemovedGood, WindowOpensGood, PurgeGood,
     ConnectGood, ReconcileGood DEF Goes, Turns
<1>5. CASE Wrong
  BY <1>5, SettleGood, DisconnectGood, RelayRestartsGood DEF Wrong
<1> QED BY <1>1, <1>2, <1>3, <1>4, <1>5 DEF Next

(* The invariant above holds in every state the manager and its sessions   *)
(* reach, through lost connections, restarts and failed turns.             *)
THEOREM RoomInvariant == Spec => []IInv
BY InitGood, NextGood, PTL DEF Spec

(* The room, the manager's memory and the sessions' turns have their       *)
(* types; while the manager is sending a message to an agent, that agent's *)
(* turn is of that message (roomManager.ts: sending, set by pump, cleared  *)
(* by onTurnSettled).                                                      *)
THEOREM TypeCorrect == Spec => []TypeOK
<1>1. IInv => TypeOK
  <2> SUFFICES ASSUME IInv PROVE TypeOK
    OBVIOUS
  <2>1. ASSUME NEW x \in Members PROVE TypeOK!1!(x)
    <3>1. /\ room[x] \in Agents /\ relay.cur[x] \in TurnSet /\ relay.removals[x] \in Removals
      BY HereGood DEF RoomSet, RelaySet
    <3>2. relay.sending[x].on => relay.cur[x].kind = "message" /\ relay.cur[x].msg = relay.sending[x].msg
      BY HereGood DEF Good, Sending, Idle
    <3> QED BY <3>1, <3>2 DEF Agents, Lives, Stops, Reports, TurnSet, Removals
  <2>2. relay.digests \cup relay.failed \cup relay.timers \cup relay.rejected \cup works \subseteq Members
        /\ relay.purges \subseteq Workers
    BY HereGood DEF RelaySet, IInv
  <2> QED BY <2>1, <2>2 DEF TypeOK
<1> QED BY <1>1, RoomInvariant, PTL

(* A report that no digest has handed over waits in the outbox of a live   *)
(* agent above whoever made it: recordReport, handOffOutbox and            *)
(* clearFromOutbox lose none, in rooms of any shape and size.              *)
THEOREM ReportsReachReaders == Spec => []NoReportLost
<1>1. IInv => NoReportLost
  <2> SUFFICES ASSUME IInv, NEW w \in Workers, Admitted(Here, w), room[w].report.at > hist.told[w]
               PROVE  \E x \in Above(Here, w) : Live(Here, x) /\ w \in room[x].outbox
    BY DEF NoReportLost
  <2>1. PICK x \in Above(Here, w) : w \in Here.room[x].outbox
    BY HereGood DEF Good, Kept, Admitted
  <2> QED BY <2>1, HereGood, AboveMembers DEF Good, Readers
<1> QED BY <1>1, RoomInvariant, PTL

(* Reports wait only for agents that are there and not stopped:            *)
(* liveAncestorId always finds a reader, and stopAgent, removeAgent and    *)
(* purge leave none behind with an agent that is not one.                  *)
THEOREM OutboxesAreRead == Spec => []ReadersAreLive
<1>1. IInv => ReadersAreLive
  BY HereGood DEF ReadersAreLive, Good, Readers
<1> QED BY <1>1, RoomInvariant, PTL

(* A queued message stays in one queue until the host took that message or *)
(* refused it, or its agent was stopped or removed: the answer to another  *)
(* message, whose turn a stop ended after its request left, never takes it *)
(* out.  And no request for a message leaves for the host once it is out   *)
(* of its queue (pump, removeQueued, onTurnSettled, stopAgent,             *)
(* removeAgent, purge).                                                    *)
THEOREM QueuesHoldMessages == Spec => []QueuedUntilTaken
<1>1. IInv => QueuedUntilTaken
  BY HereGood DEF QueuedUntilTaken, Good, Queues
<1> QED BY <1>1, RoomInvariant, PTL
=============================================================================
