--------------------------- MODULE LogStreamProofs ---------------------------
(* Theorems about LogStream, for every value of its constants. *)
EXTENDS LogStream, SequenceTheorems, FiniteSetTheorems, WellFoundedInduction, TLAPS

-----------------------------------------------------------------------------
(* A live subscription stands at the end of the log.                         *)
(*                                                                           *)
(* The typing is only as deep as this needs: which fields a record has, and  *)
(* that the log's records are a sequence, so that it has a length.           *)

IsLog(L) ==
    /\ L = [inc |-> L.inc, recs |-> L.recs, cuts |-> L.cuts, first |-> L.first,
            packed |-> L.packed, torn |-> L.torn, failed |-> L.failed, named |-> L.named]
    /\ L.recs \in Seq(Records)

IsSub(s) == s = [mode |-> s.mode, cur |-> s.cur, id |-> s.id, told |-> s.told]

Hosts == [up : BOOLEAN, known : BOOLEAN, removing : BOOLEAN, life : Nat]

Budgets ==
    [records : Nat, drops : Nat, crashes : Nat, losses : Nat, removals : Nat,
     subs : Nat, fails : Nat]

Shaped == IsLog(log) /\ IsSub(srv) /\ host \in Hosts /\ spent \in Budgets

\* The reader works only for a subscription that catches up, so no late result
\* of a read moves a live one or revives a closed one.
ReadsToCatchUp == rd.io # "none" => srv.mode = "catchup"

\* Only a known agent has a subscription, and an agent whose log is being
\* deleted is not known: a log is never replaced under a subscription.
OnlyKnownServed ==
    /\ ~host.known => srv.mode = "closed"
    /\ host.removing => ~host.known

LiveInv == Shaped /\ LiveAtEnd /\ ReadsToCatchUp /\ OnlyKnownServed

LEMMA CatchingUp ==
  ASSUME NEW s, NEW r, NEW w, NEW L, IsSub(s), s.mode = "catchup", CatchUp(s, r, w, L)
  PROVE  IsSub(srv') /\ srv'.mode = "catchup"
<1>1. CASE srv' = s
  BY <1>1
<1>2. CASE srv' = [s EXCEPT !.cur = Resume(r, L)]
  BY <1>2 DEF IsSub
<1>3. QED BY <1>1, <1>2 DEF CatchUp

LEMMA SubUpdates ==
  ASSUME NEW s, IsSub(s), NEW c
  PROVE  /\ IsSub([s EXCEPT !.cur = c]) /\ [s EXCEPT !.cur = c].mode = s.mode
         /\ [s EXCEPT !.cur = c].cur = c
BY DEF IsSub

LEMMA ReturningAStep ==
  ASSUME NEW r, IsSub(srv), srv.mode = "catchup", StepReturns(r)
  PROVE  IsSub(srv') /\ srv'.mode = "catchup"
<1> DEFINE out == InOrder(r.acc)
           w == wire \o [i \in 1 .. Len(out) |-> Event(srv, log, out[i])]
           s == [srv EXCEPT !.cur = out[Len(out)] + 1]
<1>1. CatchUp(s, [r EXCEPT !.acc = {}], w, log)
  BY DEF StepReturns
<1>2. IsSub(s) /\ s.mode = "catchup"
  BY SubUpdates
<1> HIDE DEF out, w, s
<1>3. QED BY <1>1, <1>2, CatchingUp

LEMMA Reopening ==
  ASSUME NEW r, IsSub(srv), srv.mode = "catchup", OpensOrGap(r)
  PROVE  IsSub(srv') /\ srv'.mode = "catchup"
<1>1. CASE UNCHANGED srv
  BY <1>1
<1>2. CASE CatchUp(srv, [r EXCEPT !.seg = None], wire, log)
  BY <1>2, CatchingUp
<1>3. CASE StepReturns([r EXCEPT !.seg = None, !.cur = Resume(r, log)])
  BY <1>3, ReturningAStep
<1>4. QED BY <1>1, <1>2, <1>3 DEF OpensOrGap

\* A record is appended: a live subscription is handed it, or catches up.
LEMMA Pushing ==
  ASSUME IsSub(srv), LiveAtEnd, ReadsToCatchUp, EndOffset(log) \in Nat,
         NEW L, OnLive(L, EndOffset(log))
  PROVE  /\ IsSub(srv')
         /\ srv'.mode = "live" => srv'.cur = EndOffset(log) + 1
         /\ ReadsToCatchUp'
         /\ srv.mode = "closed" => srv'.mode = "closed"
<1> DEFINE o == EndOffset(log)
<1>1. CASE srv.mode # "live"
  BY <1>1 DEF OnLive, ReadsToCatchUp
<1>2. CASE srv.mode = "live" /\ (o # srv.cur \/ AboveHighWater(wire))
  <2>1. CatchUp([srv EXCEPT !.mode = "catchup"], ReaderAt(srv.cur), wire, L)
    BY <1>2 DEF OnLive
  <2>2. IsSub([srv EXCEPT !.mode = "catchup"]) /\ [srv EXCEPT !.mode = "catchup"].mode = "catchup"
    BY DEF IsSub
  <2>3. IsSub(srv') /\ srv'.mode = "catchup"
    BY <2>1, <2>2, CatchingUp
  <2>4. QED BY <2>3, <1>2 DEF ReadsToCatchUp
<1>3. CASE srv.mode = "live" /\ ~(o # srv.cur \/ AboveHighWater(wire))
  <2>1. srv' = [srv EXCEPT !.cur = o + 1] /\ rd' = rd
    BY <1>3 DEF OnLive
  <2>2. IsSub(srv') /\ srv'.mode = "live" /\ srv'.cur = o + 1
    BY <2>1, <1>3, SubUpdates
  <2>3. rd.io = "none"
    BY <1>3 DEF ReadsToCatchUp
  <2>4. QED BY <2>1, <2>2, <2>3, <1>3 DEF ReadsToCatchUp
<1>4. QED BY <1>1, <1>2, <1>3

\* Changing anything but the records leaves the length.
LEMMA LogUpdates ==
  ASSUME NEW L, IsLog(L), NEW x
  PROVE  /\ IsLog([L EXCEPT !.cuts = x]) /\ [L EXCEPT !.cuts = x].recs = L.recs
         /\ IsLog([L EXCEPT !.first = x]) /\ [L EXCEPT !.first = x].recs = L.recs
         /\ IsLog([L EXCEPT !.packed = x]) /\ [L EXCEPT !.packed = x].recs = L.recs
         /\ IsLog([L EXCEPT !.torn = x]) /\ [L EXCEPT !.torn = x].recs = L.recs
         /\ IsLog([L EXCEPT !.failed = x]) /\ [L EXCEPT !.failed = x].recs = L.recs
         /\ IsLog([L EXCEPT !.named = x]) /\ [L EXCEPT !.named = x].recs = L.recs
         /\ IsLog([L EXCEPT !.inc = x]) /\ [L EXCEPT !.inc = x].recs = L.recs
<1>1. IsLog([L EXCEPT !.cuts = x]) /\ [L EXCEPT !.cuts = x].recs = L.recs
  BY DEF IsLog
<1>2. IsLog([L EXCEPT !.first = x]) /\ [L EXCEPT !.first = x].recs = L.recs
  BY DEF IsLog
<1>3. IsLog([L EXCEPT !.packed = x]) /\ [L EXCEPT !.packed = x].recs = L.recs
  BY DEF IsLog
<1>4. IsLog([L EXCEPT !.torn = x]) /\ [L EXCEPT !.torn = x].recs = L.recs
  BY DEF IsLog
<1>5. IsLog([L EXCEPT !.failed = x]) /\ [L EXCEPT !.failed = x].recs = L.recs
  BY DEF IsLog
<1>6. IsLog([L EXCEPT !.named = x]) /\ [L EXCEPT !.named = x].recs = L.recs
  BY DEF IsLog
<1>7. IsLog([L EXCEPT !.inc = x]) /\ [L EXCEPT !.inc = x].recs = L.recs
  BY DEF IsLog
<1>8. QED BY <1>1, <1>2, <1>3, <1>4, <1>5, <1>6, <1>7

\* One record longer.
LEMMA Writing ==
  ASSUME Shaped, NEW kind \in Kinds
  PROVE  /\ IsLog(Written(kind)) /\ IsLog(Rotated(Written(kind)))
         /\ IsLog([Written(kind) EXCEPT !.failed = TRUE])
         /\ EndOffset(Written(kind)) = EndOffset(log) + 1
         /\ EndOffset(Rotated(Written(kind))) = EndOffset(log) + 1
         /\ EndOffset([Written(kind) EXCEPT !.failed = TRUE]) = EndOffset(log) + 1
<1> DEFINE new == [id |-> spent.records + 1, life |-> host.life,
                   kind |-> IF log.torn THEN "glued" ELSE kind]
           L == Written(kind)
<1>1. new \in Records
  BY ParametersAssumption DEF Shaped, Hosts, Budgets, Records
<1>2. log.recs \in Seq(Records)
  BY DEF Shaped, IsLog
<1> HIDE DEF new
<1>3. Append(log.recs, new) \in Seq(Records) /\ Len(Append(log.recs, new)) = Len(log.recs) + 1
  BY <1>1, <1>2, AppendProperties
<1>4. L = [log EXCEPT !.recs = Append(@, new), !.torn = FALSE]
  BY DEF Written, new
<1>5. IsLog(L) /\ L.recs = Append(log.recs, new)
  BY <1>3, <1>4 DEF Shaped, IsLog
<1> HIDE DEF L
<1>6. /\ IsLog(Rotated(L)) /\ Rotated(L).recs = L.recs
      /\ IsLog([L EXCEPT !.failed = TRUE]) /\ [L EXCEPT !.failed = TRUE].recs = L.recs
  <2>1. /\ IsLog([L EXCEPT !.cuts = L.cuts \cup {EndOffset(L)}])
        /\ [L EXCEPT !.cuts = L.cuts \cup {EndOffset(L)}].recs = L.recs
    BY <1>5, LogUpdates
  <2>2. IsLog([L EXCEPT !.failed = TRUE]) /\ [L EXCEPT !.failed = TRUE].recs = L.recs
    BY <1>5, LogUpdates
  <2>3. QED BY <2>1, <2>2 DEF Rotated
<1>7. QED BY <1>3, <1>5, <1>6 DEF EndOffset, L

\* Other records, still a log.
LEMMA OtherRecords ==
  ASSUME NEW L, IsLog(L), NEW q \in Seq(Records)
  PROVE  IsLog([L EXCEPT !.recs = q])
BY DEF IsLog

\* A log cut short anywhere is a log.
LEMMA CutShort ==
  ASSUME IsLog(log), NEW k \in Int, k <= EndOffset(log)
  PROVE  IsLog([log EXCEPT !.recs = SubSeq(@, 1, k)])
<1>1. log.recs \in Seq(Records) /\ Len(log.recs) \in Nat
  BY DEF IsLog
<1>2. CASE k < 1
  <2>1. SubSeq(log.recs, 1, k) \in Seq(Records)
    BY <1>1, <1>2, SubSeqEmpty
  <2>2. QED BY <2>1, OtherRecords
<1>3. CASE k >= 1
  <2>1. SubSeq(log.recs, 1, k) \in Seq(Records)
    BY <1>1, <1>3, SubSeqProperties DEF EndOffset
  <2>2. QED BY <2>1, OtherRecords
<1>4. QED BY <1>2, <1>3

LEMMA EmptyLog == ASSUME NEW n PROVE IsLog(NewLog(n))
BY DEF IsLog, NewLog

-----------------------------------------------------------------------------
\* Steps that leave the log, the host and the bounds as they are, and a
\* subscription that catches up where it is, keep the invariant.
LEMMA SubscriptionStep ==
  ASSUME LiveInv, UNCHANGED <<log, host, spent>>, IsSub(srv'),
         srv'.mode = "catchup", host.known
  PROVE  LiveInv'
BY DEF LiveInv, Shaped, LiveAtEnd, ReadsToCatchUp, OnlyKnownServed

LEMMA ServedIsKnown ==
  ASSUME LiveInv, rd.io # "none"
  PROVE  host.known /\ srv.mode = "catchup" /\ IsSub(srv)
BY DEF LiveInv, Shaped, ReadsToCatchUp, OnlyKnownServed

\* So do steps that change nothing the invariant speaks of.
LEMMA ElsewhereStep ==
  ASSUME LiveInv, UNCHANGED <<log, host, srv, rd>>, spent' \in Budgets
  PROVE  LiveInv'
BY DEF LiveInv, Shaped, LiveAtEnd, ReadsToCatchUp, OnlyKnownServed, EndOffset

\* And steps after which nothing is subscribed.
LEMMA ClosingStep ==
  ASSUME srv' = NoSubscription, rd' = NoReader, IsLog(log'), host' \in Hosts, spent' \in Budgets,
         host'.removing => ~host'.known
  PROVE  LiveInv'
BY DEF LiveInv, Shaped, IsSub, LiveAtEnd, ReadsToCatchUp, OnlyKnownServed, NoSubscription,
       NoReader

\* And steps that change the log but not where it ends.
LEMMA SameEndStep ==
  ASSUME LiveInv, UNCHANGED <<host, srv, rd>>, IsLog(log'), log'.recs = log.recs,
         spent' \in Budgets
  PROVE  LiveInv'
BY DEF LiveInv, Shaped, LiveAtEnd, ReadsToCatchUp, OnlyKnownServed, EndOffset

LEMMA Spending ==
  ASSUME spent \in Budgets
  PROVE  /\ \A what \in {"records", "drops", "crashes", "losses", "removals", "subs", "fails"} :
              Spend(what) => spent' \in Budgets
         /\ spent' = [spent EXCEPT !.records = @ + 1, !.fails = @ + 1] => spent' \in Budgets
<1>1. ASSUME NEW what \in {"records", "drops", "crashes", "losses", "removals", "subs", "fails"},
             Spend(what)
      PROVE  spent' \in Budgets
  <2>1. spent[what] + 1 \in Nat
    BY DEF Budgets
  <2>2. \A n \in Nat : [spent EXCEPT ![what] = n] \in Budgets
    BY DEF Budgets
  <2>3. QED BY <1>1, <2>1, <2>2 DEF Spend
<1>2. ASSUME spent' = [spent EXCEPT !.records = @ + 1, !.fails = @ + 1]
      PROVE  spent' \in Budgets
  <2>1. spent.records + 1 \in Nat /\ spent.fails + 1 \in Nat
    BY DEF Budgets
  <2>2. \A n, m \in Nat : [spent EXCEPT !.records = n, !.fails = m] \in Budgets
    BY DEF Budgets
  <2>3. QED BY <1>2, <2>1, <2>2
<1>3. QED BY <1>1, <1>2

\* The host's own steps keep its fields, and tell what becomes of the agent.
LEMMA HostUpdates ==
  ASSUME host \in Hosts
  PROVE  /\ \A x \in BOOLEAN :
              /\ [host EXCEPT !.up = x] \in Hosts
              /\ [host EXCEPT !.up = x].known = host.known
              /\ [host EXCEPT !.up = x].removing = host.removing
         /\ [host EXCEPT !.removing = FALSE] \in Hosts
         /\ [host EXCEPT !.removing = FALSE].known = host.known
         /\ ~[host EXCEPT !.removing = FALSE].removing
         /\ [host EXCEPT !.known = FALSE, !.removing = TRUE] \in Hosts
         /\ ~[host EXCEPT !.known = FALSE, !.removing = TRUE].known
         /\ [host EXCEPT !.up = FALSE, !.removing = FALSE] \in Hosts
         /\ ~[host EXCEPT !.up = FALSE, !.removing = FALSE].removing
         /\ [host EXCEPT !.known = TRUE, !.life = @ + 1] \in Hosts
         /\ [host EXCEPT !.known = TRUE, !.life = @ + 1].known
         /\ [host EXCEPT !.known = TRUE, !.life = @ + 1].removing = host.removing
<1>1. \A x \in BOOLEAN :
        /\ [host EXCEPT !.up = x] \in Hosts
        /\ [host EXCEPT !.up = x].known = host.known
        /\ [host EXCEPT !.up = x].removing = host.removing
  BY DEF Hosts
<1>2. /\ [host EXCEPT !.removing = FALSE] \in Hosts
      /\ [host EXCEPT !.removing = FALSE].known = host.known
      /\ ~[host EXCEPT !.removing = FALSE].removing
  BY DEF Hosts
<1>3. /\ [host EXCEPT !.known = FALSE, !.removing = TRUE] \in Hosts
      /\ ~[host EXCEPT !.known = FALSE, !.removing = TRUE].known
  BY DEF Hosts
<1>4. /\ [host EXCEPT !.up = FALSE, !.removing = FALSE] \in Hosts
      /\ ~[host EXCEPT !.up = FALSE, !.removing = FALSE].removing
  BY DEF Hosts
<1>5. /\ [host EXCEPT !.known = TRUE, !.life = @ + 1] \in Hosts
      /\ [host EXCEPT !.known = TRUE, !.life = @ + 1].known
      /\ [host EXCEPT !.known = TRUE, !.life = @ + 1].removing = host.removing
  <2>1. host.life + 1 \in Nat
    BY DEF Hosts
  <2>2. \A n \in Nat :
          /\ [host EXCEPT !.known = TRUE, !.life = n] \in Hosts
          /\ [host EXCEPT !.known = TRUE, !.life = n].known
          /\ [host EXCEPT !.known = TRUE, !.life = n].removing = host.removing
    BY DEF Hosts
  <2>3. QED BY <2>1, <2>2
<1>6. QED BY <1>1, <1>2, <1>3, <1>4, <1>5

-----------------------------------------------------------------------------
\* Where the log grows: by one record, and a live subscription moves with it.
LEMMA GrowingStep ==
  ASSUME LiveInv, NEW L, L = log', IsLog(L), EndOffset(L) = EndOffset(log) + 1,
         OnLive(L, EndOffset(log)), UNCHANGED host, spent' \in Budgets
  PROVE  LiveInv'
<1>1. EndOffset(log) \in Nat
  BY DEF LiveInv, Shaped, IsLog, EndOffset
<1>2. /\ IsSub(srv') /\ ReadsToCatchUp'
      /\ srv'.mode = "live" => srv'.cur = EndOffset(log) + 1
      /\ srv.mode = "closed" => srv'.mode = "closed"
  BY <1>1, Pushing DEF LiveInv, Shaped
<1>3. IsLog(log') /\ EndOffset(log') = EndOffset(log) + 1
  OBVIOUS
<1>4. Shaped' /\ LiveAtEnd' /\ OnlyKnownServed'
  BY <1>2, <1>3 DEF LiveInv, Shaped, LiveAtEnd, OnlyKnownServed, EndOffset
<1>5. QED BY <1>2, <1>4 DEF LiveInv

LEMMA AppendsKeep == ASSUME LiveInv, Appends PROVE LiveInv'
<1>0. Shaped /\ IsLog(log) /\ spent \in Budgets
  BY DEF LiveInv, Shaped
<1>1. CASE AppendRecord
  <2>1. PICK kind \in Kinds :
          /\ log' = Rotated(Written(kind)) \/ log' = Written(kind)
          /\ OnLive(log', EndOffset(log))
          /\ Spend("records") /\ UNCHANGED host
    BY <1>1 DEF AppendRecord
  <2>2. IsLog(log') /\ EndOffset(log') = EndOffset(log) + 1
    BY <2>1, <1>0, Writing
  <2>3. spent' \in Budgets
    BY <2>1, <1>0, Spending
  <2>4. QED BY <2>1, <2>2, <2>3, GrowingStep
<1>2. CASE AppendFailsToRotate
  <2>1. PICK kind \in Kinds :
          /\ log' = [Written(kind) EXCEPT !.failed = TRUE]
          /\ OnLive(log', EndOffset(log))
          /\ spent' = [spent EXCEPT !.records = @ + 1, !.fails = @ + 1]
          /\ UNCHANGED host
    BY <1>2 DEF AppendFailsToRotate
  <2>2. IsLog(log') /\ EndOffset(log') = EndOffset(log) + 1
    BY <2>1, <1>0, Writing
  <2>3. spent' \in Budgets
    BY <2>1, <1>0, Spending
  <2>4. QED BY <2>1, <2>2, <2>3, GrowingStep
<1>3. CASE AppendTears
  <2>1. IsLog([log EXCEPT !.failed = TRUE]) /\ [log EXCEPT !.failed = TRUE].recs = log.recs
    BY <1>0, LogUpdates
  <2>2. [log EXCEPT !.failed = TRUE, !.torn = TRUE]
          = [[log EXCEPT !.failed = TRUE] EXCEPT !.torn = TRUE]
    BY <1>0 DEF IsLog
  <2>3. IsLog(log') /\ log'.recs = log.recs
    BY <1>3, <2>1, <2>2, LogUpdates DEF AppendTears
  <2>4. spent' \in Budgets
    BY <1>3, <1>0, Spending DEF AppendTears
  <2>5. QED BY <1>3, <2>3, <2>4, SameEndStep DEF AppendTears
<1>4. QED BY <1>1, <1>2, <1>3 DEF Appends

LEMMA MaintainsKeep == ASSUME LiveInv, Maintains PROVE LiveInv'
<1>0. IsLog(log) /\ spent \in Budgets
  BY DEF LiveInv, Shaped
<1>1. UNCHANGED <<host, srv, rd, spent>>
  BY DEF Maintains, Compact, EnforceRetention
<1>2. IsLog(log') /\ log'.recs = log.recs
  <2>1. CASE Compact
    <3>1. CASE UNCHANGED log
      BY <3>1, <1>0
    <3>2. CASE log' = [log EXCEPT !.packed = log.packed \cup {Head(maint).seg}]
      BY <3>2, <1>0, LogUpdates
    <3>3. QED BY <2>1, <3>1, <3>2 DEF Compact
  <2>2. CASE EnforceRetention
    BY <2>2, <1>0, LogUpdates DEF EnforceRetention
  <2>3. QED BY <2>1, <2>2 DEF Maintains
<1>3. QED BY <1>0, <1>1, <1>2, SameEndStep

LEMMA ReplaysKeep == ASSUME LiveInv, Replays PROVE LiveInv'
<1>0. host.known /\ srv.mode = "catchup" /\ IsSub(srv)
  <2>1. rd.io # "none"
    BY DEF Replays, FileOpened, UseFile, FileGone, FileRead, UseRecords, LeaveSegment,
           NextSegment, EndOfLog, Drained
  <2>2. QED BY <2>1, ServedIsKnown
<1>1. UNCHANGED <<log, host, spent>>
  BY DEF Replays, FileOpened, UseFile, FileGone, FileRead, UseRecords, LeaveSegment,
         NextSegment, EndOfLog, Drained, Unwritten
<1>2. CASE IsSub(srv') /\ srv'.mode = "catchup"
  BY <1>0, <1>1, <1>2, SubscriptionStep
<1>3. CASE FileOpened \/ UseFile \/ FileRead \/ LeaveSegment
  <2>1. UNCHANGED srv
    BY <1>3 DEF FileOpened, UseFile, FileRead, LeaveSegment
  <2>2. QED BY <2>1, <1>0, <1>2
<1>4. CASE FileGone
  <2>1. OpensOrGap(rd)
    BY <1>4 DEF FileGone
  <2>2. QED BY <2>1, <1>0, <1>2, Reopening
<1>5. CASE NextSegment
  <2>1. OpensOrGap([rd EXCEPT !.cur = Max({rd.cur, rd.tgt})])
    BY <1>5 DEF NextSegment
  <2>2. QED BY <2>1, <1>0, <1>2, Reopening
<1>6. CASE UseRecords
  <2>1. CASE UNCHANGED srv
    BY <2>1, <1>0, <1>2
  <2>2. CASE \E r : StepReturns(r)
    BY <2>2, <1>0, <1>2, ReturningAStep
  <2>3. QED BY <1>6, <2>1, <2>2 DEF UseRecords
<1>7. CASE EndOfLog
  <2>1. CASE StepReturns(rd)
    BY <2>1, <1>0, <1>2, ReturningAStep
  <2>2. CASE AtEnd(rd) /\ rd' = NoReader
             /\ srv' = [srv EXCEPT !.mode = "live", !.cur = rd.cur, !.told = TRUE]
    <3>1. IsSub(srv') /\ srv'.mode = "live" /\ srv'.cur = EndOffset(log)
      BY <2>2, <1>0 DEF IsSub, AtEnd
    <3>2. rd'.io = "none"
      BY <2>2 DEF NoReader
    <3>3. QED
      BY <3>1, <3>2, <1>0, <1>1
      DEF LiveInv, Shaped, LiveAtEnd, ReadsToCatchUp, OnlyKnownServed, EndOffset
  <2>3. CASE CatchUp(srv, rd, wire, log)
    BY <2>3, <1>0, <1>2, CatchingUp
  <2>4. CASE UNCHANGED srv
    BY <2>4, <1>0, <1>2
  <2>5. QED BY <1>7, <2>1, <2>2, <2>3, <2>4 DEF EndOfLog
<1>8. CASE Drained
  <2>1. CatchUp(srv, rd, wire, log)
    BY <1>8 DEF Drained
  <2>2. QED BY <2>1, <1>0, <1>2, CatchingUp
<1>9. QED BY <1>3, <1>4, <1>5, <1>6, <1>7, <1>8 DEF Replays

LEMMA ServesKeep == ASSUME LiveInv, Serves PROVE LiveInv'
<1>0. IsLog(log) /\ host \in Hosts /\ spent \in Budgets /\ (host.removing => ~host.known)
  BY DEF LiveInv, Shaped, OnlyKnownServed
<1>1. UNCHANGED <<log, host, spent>>
  BY DEF Serves, HandleSubscribe, HandleUnsubscribe, UnlessRead
<1>2. CASE HandleSubscribe
  <2> DEFINE m == Head(toHost)
             from == IF IsReset(m) THEN log.first ELSE m.from
             s == [mode |-> "catchup", cur |-> from, id |-> m.id, told |-> FALSE]
  <2>1. CASE host.known
    <3>1. CatchUp(s, ReaderAt(from),
                  Append(wire, Response(m.id, log.first, log.inc, IsReset(m))), log)
      BY <1>2, <2>1 DEF HandleSubscribe
    <3>2. IsSub(s) /\ s.mode = "catchup"
      BY DEF IsSub
    <3> HIDE DEF s
    <3>3. IsSub(srv') /\ srv'.mode = "catchup"
      BY <3>1, <3>2, CatchingUp
    <3>4. QED BY <3>3, <1>1, <2>1, SubscriptionStep
  <2>2. CASE ~host.known
    <3>1. UNCHANGED <<srv, rd>>
      BY <1>2, <2>2 DEF HandleSubscribe
    <3>2. QED BY <3>1, <1>0, <1>1, ElsewhereStep
  <2>3. QED BY <2>1, <2>2
<1>3. CASE HandleUnsubscribe
  <2>1. srv' = NoSubscription /\ rd' = NoReader
    BY <1>3 DEF HandleUnsubscribe
  <2>2. QED BY <2>1, <1>0, <1>1, ClosingStep
<1>4. QED BY <1>2, <1>3 DEF Serves

LEMMA LivesKeep == ASSUME LiveInv, Lives PROVE LiveInv'
<1>0. IsLog(log) /\ host \in Hosts /\ spent \in Budgets
  BY DEF LiveInv, Shaped
<1>1. CASE RemoveAgent
  <2>1. /\ host' = [host EXCEPT !.known = FALSE, !.removing = TRUE]
        /\ srv' = NoSubscription /\ rd' = NoReader /\ UNCHANGED log /\ Spend("removals")
    BY <1>1 DEF RemoveAgent
  <2>2. spent' \in Budgets
    BY <2>1, <1>0, Spending
  <2>3. host' \in Hosts /\ ~host'.known
    BY <2>1, <1>0, HostUpdates
  <2>4. QED BY <2>1, <2>2, <2>3, <1>0, ClosingStep
<1>2. CASE Destroyed
  <2>1. /\ host.removing /\ log' = NewLog(log.inc + 1)
        /\ host' = [host EXCEPT !.removing = FALSE] /\ UNCHANGED <<srv, rd, spent>>
    BY <1>2 DEF Destroyed
  <2>2. srv.mode = "closed"
    BY <2>1 DEF LiveInv, OnlyKnownServed
  <2>3. host' \in Hosts /\ ~host'.removing
    BY <2>1, <1>0, HostUpdates
  <2>4. IsLog(log')
    BY <2>1, EmptyLog
  <2>5. QED
    BY <2>1, <2>2, <2>3, <2>4
    DEF LiveInv, Shaped, LiveAtEnd, ReadsToCatchUp, OnlyKnownServed
<1>3. CASE SpawnAgent
  <2> DEFINE inc == IF log.named THEN log.inc ELSE log.inc + 1
             L1 == [log EXCEPT !.inc = inc]
             L2 == [L1 EXCEPT !.named = TRUE]
             L3 == [L2 EXCEPT !.torn = FALSE]
             L4 == [L3 EXCEPT !.failed = FALSE]
  <2>1. /\ ~host.known /\ ~host.removing /\ UNCHANGED <<srv, rd, spent>>
        /\ host' = [host EXCEPT !.known = TRUE, !.life = @ + 1]
    BY <1>3 DEF SpawnAgent
  <2>2. srv.mode = "closed"
    BY <2>1 DEF LiveInv, OnlyKnownServed
  <2>3. host' \in Hosts /\ host'.known /\ ~host'.removing
    BY <2>1, <1>0, HostUpdates
  <2>4. log' = L4
    BY <1>3, <1>0 DEF SpawnAgent, IsLog
  <2>5. IsLog(L1)
    BY <1>0, LogUpdates
  <2> HIDE DEF L1
  <2>6. IsLog(L2)
    BY <2>5, LogUpdates
  <2> HIDE DEF L2
  <2>7. IsLog(L3)
    BY <2>6, LogUpdates
  <2> HIDE DEF L3
  <2>8. IsLog(log')
    BY <2>4, <2>7, LogUpdates
  <2>9. QED
    BY <2>1, <2>2, <2>3, <2>8
    DEF LiveInv, Shaped, LiveAtEnd, ReadsToCatchUp, OnlyKnownServed
<1>4. QED BY <1>1, <1>2, <1>3 DEF Lives

LEMMA ReceivesKeep == ASSUME LiveInv, Receives PROVE LiveInv'
<1>1. UNCHANGED <<log, host, srv, rd, spent>>
  BY DEF Receives, OnResponse, OnRefused, OnEvent, OnGap, OnCaughtUp, OnStreamClosed,
         UnlessClient
<1>2. QED BY <1>1, ElsewhereStep DEF LiveInv, Shaped

LEMMA ConsumesKeep == ASSUME LiveInv, Consumes PROVE LiveInv'
<1>1. UNCHANGED <<log, host, srv, rd>>
  BY DEF Consumes, Connect, Subscribe, Unsubscribe, SubscribeTimesOut
<1>2. UNCHANGED spent \/ Spend("subs") \/ Spend("drops")
  BY DEF Consumes, Connect, Subscribe, Unsubscribe, SubscribeTimesOut
<1>3. spent' \in Budgets
  BY <1>2, Spending DEF LiveInv, Shaped
<1>4. QED BY <1>1, <1>3, ElsewhereStep

LEMMA FailsKeep == ASSUME LiveInv, Fails PROVE LiveInv'
<1>0. /\ IsLog(log) /\ host \in Hosts /\ spent \in Budgets
      /\ host.removing => ~host.known
  BY DEF LiveInv, Shaped, OnlyKnownServed
<1>1. CASE Drop \/ RelayRestart
  <2>1. /\ srv' = NoSubscription /\ rd' = NoReader /\ UNCHANGED <<log, host>>
        /\ Spend("drops") \/ Spend("subs")
    BY <1>1 DEF Drop, RelayRestart, Disconnected
  <2>2. spent' \in Budgets
    BY <2>1, <1>0, Spending
  <2>3. QED BY <2>1, <2>2, <1>0, ClosingStep
<1>2. CASE HostCrash
  <2>1. /\ srv' = NoSubscription /\ rd' = NoReader /\ Spend("crashes")
        /\ host' = [host EXCEPT !.up = FALSE, !.removing = FALSE]
        /\ log' \in HalfDeleted \cup {log, [log EXCEPT !.torn = TRUE]}
    BY <1>2 DEF HostCrash, Disconnected
  <2>2. spent' \in Budgets
    BY <2>1, <1>0, Spending
  <2>3. host' \in Hosts /\ ~host'.removing
    BY <2>1, <1>0, HostUpdates
  <2>4. \A n \in BOOLEAN : IsLog([log EXCEPT !.named = n]) /\ IsLog([NewLog(log.inc) EXCEPT !.named = n])
    BY <1>0, LogUpdates, EmptyLog
  <2>5. IsLog([log EXCEPT !.torn = TRUE])
    BY <1>0, LogUpdates
  <2>6. IsLog(log')
    BY <2>1, <2>4, <2>5, <1>0 DEF HalfDeleted
  <2>7. QED BY <2>1, <2>2, <2>3, <2>6, ClosingStep
<1>3. CASE MachineCrash
  <2>1. /\ srv' = NoSubscription /\ rd' = NoReader /\ Spend("losses")
        /\ host' = [host EXCEPT !.up = FALSE]
        /\ \E k \in Active(log) .. EndOffset(log) :
             log' = [log EXCEPT !.recs = SubSeq(@, 1, k)]
    BY <1>3 DEF MachineCrash, Disconnected
  <2>2. spent' \in Budgets
    BY <2>1, <1>0, Spending
  <2>3. host' \in Hosts /\ (host'.removing => ~host'.known)
    BY <2>1, <1>0, HostUpdates
  <2>4. IsLog(log')
    <3>1. PICK k \in Active(log) .. EndOffset(log) :
            log' = [log EXCEPT !.recs = SubSeq(@, 1, k)]
      BY <2>1
    <3>2. k \in Int /\ k <= EndOffset(log)
      OBVIOUS
    <3>3. QED BY <3>1, <3>2, <1>0, CutShort
  <2>5. QED BY <2>1, <2>2, <2>3, <2>4, ClosingStep
<1>4. CASE HostRestart
  <2>1. /\ UNCHANGED <<srv, rd, spent>> /\ host' = [host EXCEPT !.up = TRUE]
        /\ log' = Reopened(log) \/ UNCHANGED log
    BY <1>4 DEF HostRestart
  <2>2. IsLog(log') /\ log'.recs = log.recs
    <3> DEFINE L1 == [log EXCEPT !.torn = FALSE]
    <3>1. IsLog(L1) /\ L1.recs = log.recs
      BY <1>0, LogUpdates
    <3>2. Reopened(log) = [L1 EXCEPT !.failed = FALSE]
      BY <1>0 DEF Reopened, IsLog
    <3> HIDE DEF L1
    <3>3. IsLog([L1 EXCEPT !.failed = FALSE]) /\ [L1 EXCEPT !.failed = FALSE].recs = L1.recs
      BY <3>1, LogUpdates
    <3>4. IsLog(Reopened(log)) /\ Reopened(log).recs = log.recs
      BY <3>1, <3>2, <3>3
    <3>5. QED BY <2>1, <3>4, <1>0
  <2>3. host' \in Hosts /\ host'.known = host.known /\ host'.removing = host.removing
    BY <2>1, <1>0, HostUpdates
  <2>4. QED
    BY <2>1, <2>2, <2>3
    DEF LiveInv, Shaped, LiveAtEnd, ReadsToCatchUp, OnlyKnownServed, EndOffset
<1>5. QED BY <1>1, <1>2, <1>3, <1>4 DEF Fails

LEMMA LiveInvInitially == Init => LiveInv
<1> SUFFICES ASSUME Init PROVE LiveInv
  OBVIOUS
<1>1. IsLog(log)
  BY EmptyLog DEF Init
<1>2. srv = NoSubscription /\ rd = NoReader
  BY DEF Init
<1>3. host \in Hosts /\ host.known /\ ~host.removing
  BY DEF Init, Hosts
<1>4. spent \in Budgets
  BY DEF Init, Budgets
<1>5. QED
  BY <1>1, <1>2, <1>3, <1>4
  DEF LiveInv, Shaped, IsSub, LiveAtEnd, ReadsToCatchUp, OnlyKnownServed, NoSubscription,
      NoReader

LEMMA LiveStep == ASSUME LiveInv, [Next]_vars PROVE LiveInv'
<1>1. CASE UNCHANGED vars
  <2>1. UNCHANGED <<log, host, srv, rd, spent>>
    BY <1>1 DEF vars
  <2>2. QED BY <2>1, ElsewhereStep DEF LiveInv, Shaped
<1>2. CASE Next
  BY <1>2, AppendsKeep, MaintainsKeep, ReplaysKeep, ServesKeep, LivesKeep, ReceivesKeep,
     ConsumesKeep, FailsKeep DEF Next
<1>3. QED BY <1>1, <1>2

(* A live subscription stands at the end of the log: between catchUp's last  *)
(* look at the disk and its switch to live nothing was appended, and onLive  *)
(* pushes no record out of order, however appends, reads, drops, removals    *)
(* and crashes interleave, for any number of records and any buffer.         *)
THEOREM LiveIsAtTheEnd == Spec => []LiveAtEnd
<1>1. LiveInv /\ [Next]_vars => LiveInv'
  BY LiveStep
<1>2. LiveInv => LiveAtEnd
  BY DEF LiveInv
<1>3. QED BY <1>1, <1>2, LiveInvInitially, PTL DEF Spec

-----------------------------------------------------------------------------
(* Finite sets of numbers.  A set of finite sets that is not empty has a     *)
(* smallest one: that is the induction these lemmas use.                     *)

LEMMA SmallestCounterexample ==
  ASSUME NEW Bad, Bad \subseteq FiniteSubsetsOf(Int), Bad # {}
  PROVE  \E T \in Bad : \A U \in Bad : ~(U \subseteq T /\ U # T)
<1> DEFINE R == StrictSubsetOrdering(Int)
<1>1. IsWellFoundedOn(R, FiniteSubsetsOf(Int))
  BY FS_StrictSubsetOrderingWellFounded
<1>2. PICK T \in Bad : \A U \in Bad : <<U, T>> \notin R
  <2> HIDE DEF R
  <2>1. \A T \in SUBSET FiniteSubsetsOf(Int) :
          T # {} => \E x \in T : \A y \in T : ~(<<y, x>> \in R)
    BY <1>1, WFMin
  <2>2. Bad \in SUBSET FiniteSubsetsOf(Int)
    OBVIOUS
  <2>3. PICK x \in Bad : \A y \in Bad : ~(<<y, x>> \in R)
    BY <2>1, <2>2
  <2>4. QED BY <2>3
<1>3. \A U \in Bad : U \subseteq T /\ U # T => <<U, T>> \in R
  BY DEF StrictSubsetOrdering, FiniteSubsetsOf
<1>4. \A U \in Bad : ~(U \subseteq T /\ U # T)
  BY <1>2, <1>3
<1>5. QED BY <1>4

LEMMA HasGreatest ==
  ASSUME NEW S, IsFiniteSet(S), S \subseteq Int, S # {}
  PROVE  \E m \in S : \A x \in S : x <= m
<1> DEFINE Bad == {T \in FiniteSubsetsOf(Int) : T # {} /\ ~ \E m \in T : \A x \in T : x <= m}
<1>1. SUFFICES ASSUME Bad # {} PROVE FALSE
  BY DEF FiniteSubsetsOf
<1>2. PICK T \in Bad : \A U \in Bad : ~(U \subseteq T /\ U # T)
  <2>1. Bad \subseteq FiniteSubsetsOf(Int)
    OBVIOUS
  <2> HIDE DEF Bad
  <2>2. QED BY <1>1, <2>1, SmallestCounterexample
<1>3. PICK t \in T : TRUE
  OBVIOUS
<1> DEFINE U == T \ {t}
<1>4. IsFiniteSet(T) /\ T \subseteq Int
  BY DEF FiniteSubsetsOf
<1>5. IsFiniteSet(U) /\ U \subseteq Int /\ U \subseteq T /\ U # T
  BY <1>4, FS_RemoveElement
<1>6. U = {} \/ \E m \in U : \A x \in U : x <= m
  BY <1>2, <1>5 DEF FiniteSubsetsOf
<1>7. CASE U = {}
  BY <1>7, <1>4
<1>8. CASE \E m \in U : \A x \in U : x <= m
  BY <1>8, <1>4
<1>9. QED BY <1>6, <1>7, <1>8

LEMMA HasLeast ==
  ASSUME NEW S, S \subseteq Nat, S # {}
  PROVE  \E m \in S : \A x \in S : m <= x
<1>1. PICK b \in S : TRUE
  OBVIOUS
<1> DEFINE T == {b - x : x \in {y \in S : y <= b}}
<1>2. T \subseteq 0 .. b /\ b \in Nat
  OBVIOUS
<1>3. IsFiniteSet(T)
  <2>1. IsFiniteSet(0 .. b)
    BY <1>2, FS_Interval
  <2>2. T \in SUBSET (0 .. b)
    BY <1>2
  <2> HIDE DEF T
  <2>3. QED BY <2>1, <2>2, FS_Subset
<1>4. T # {} /\ T \subseteq Int
  <2>1. b - b \in T
    BY <1>2
  <2>2. QED BY <2>1, <1>2
<1>5. PICK m \in T : \A x \in T : x <= m
  <2> HIDE DEF T
  <2>1. QED BY <1>3, <1>4, HasGreatest
<1>6. PICK y \in S : y <= b /\ m = b - y
  OBVIOUS
<1>7. \A x \in S : y <= x
  <2> SUFFICES ASSUME NEW x \in S PROVE y <= x
    OBVIOUS
  <2>1. CASE x > b
    BY <2>1, <1>6, <1>2
  <2>2. CASE x <= b
    <3>1. b - x <= m
      BY <2>2, <1>5
    <3>2. QED BY <3>1, <1>6, <1>2
  <2>3. QED BY <2>1, <2>2, <1>2
<1>8. QED BY <1>7

LEMMA MaxIs ==
  ASSUME NEW S, IsFiniteSet(S), S \subseteq Int, S # {}
  PROVE  Max(S) \in S /\ \A x \in S : x <= Max(S)
BY HasGreatest DEF Max

LEMMA MinIs ==
  ASSUME NEW S, S \subseteq Nat, S # {}
  PROVE  Min(S) \in S /\ \A x \in S : Min(S) <= x
BY HasLeast DEF Min

LEMMA MaxOf ==
  ASSUME NEW S, S \subseteq Int, NEW m \in S, \A x \in S : x <= m
  PROVE  Max(S) = m
<1>1. \A x \in S : (\A y \in S : x >= y) => x = m
  OBVIOUS
<1>2. m \in S /\ \A y \in S : m >= y
  OBVIOUS
<1>3. QED BY <1>1, <1>2 DEF Max

LEMMA MinOf ==
  ASSUME NEW S, S \subseteq Int, NEW m \in S, \A x \in S : m <= x
  PROVE  Min(S) = m
<1>1. \A x \in S : (\A y \in S : x <= y) => x = m
  OBVIOUS
<1>2. QED BY <1>1 DEF Min

-----------------------------------------------------------------------------
(* The operators of the step *)

Sorted(S, out) ==
  /\ out \in [1 .. Cardinality(S) -> S]
  /\ \A i, j \in 1 .. Cardinality(S) : i < j => out[i] < out[j]

LEMMA CanBeSorted ==
  ASSUME NEW S, IsFiniteSet(S), S \subseteq Int
  PROVE  \E out : Sorted(S, out)
<1> DEFINE Bad == {T \in FiniteSubsetsOf(Int) : ~ \E out : Sorted(T, out)}
<1>1. SUFFICES ASSUME Bad # {} PROVE FALSE
  BY DEF FiniteSubsetsOf
<1>2. PICK T \in Bad : \A U \in Bad : ~(U \subseteq T /\ U # T)
  <2>1. Bad \subseteq FiniteSubsetsOf(Int)
    OBVIOUS
  <2> HIDE DEF Bad
  <2>2. QED BY <1>1, <2>1, SmallestCounterexample
<1>3. IsFiniteSet(T) /\ T \subseteq Int /\ ~ \E out : Sorted(T, out)
  BY DEF FiniteSubsetsOf
<1>4. CASE T = {}
  <2>1. Cardinality(T) = 0
    BY <1>4, FS_EmptySet
  <2>2. Sorted(T, [i \in 1 .. 0 |-> i])
    BY <2>1 DEF Sorted
  <2>3. QED BY <2>2, <1>3
<1>5. CASE T # {}
  <2> DEFINE t == Max(T)
             U == T \ {t}
             n == Cardinality(U)
  <2>1. t \in T /\ \A x \in T : x <= t
    BY <1>3, <1>5, MaxIs
  <2> HIDE DEF t
  <2>2. /\ IsFiniteSet(U) /\ U \subseteq Int /\ U \subseteq T /\ U # T
        /\ Cardinality(T) = n + 1 /\ n \in Nat
    <3>1. IsFiniteSet(U) /\ Cardinality(U) = Cardinality(T) - 1
      BY <1>3, <2>1, FS_RemoveElement
    <3>2. Cardinality(T) \in Nat /\ Cardinality(U) \in Nat
      BY <1>3, <3>1, FS_CardinalityType
    <3>3. QED BY <3>1, <3>2, <1>3, <2>1
  <2>3. PICK o : Sorted(U, o)
    BY <1>2, <2>2 DEF FiniteSubsetsOf
  <2> DEFINE out == [i \in 1 .. n + 1 |-> IF i = n + 1 THEN t ELSE o[i]]
  <2>4. \A i \in 1 .. n : o[i] \in U /\ o[i] < t
    <3>1. \A x \in U : x < t
      BY <2>1, <1>3
    <3>2. \A i \in 1 .. n : o[i] \in U
      BY <2>3 DEF Sorted
    <3>3. QED BY <3>1, <3>2
  <2> HIDE DEF n
  <2>5. out \in [1 .. n + 1 -> T]
    BY <2>1, <2>2, <2>4
  <2>6. \A i, j \in 1 .. n + 1 : i < j => out[i] < out[j]
    <3> SUFFICES ASSUME NEW i \in 1 .. n + 1, NEW j \in 1 .. n + 1, i < j
                 PROVE  out[i] < out[j]
      OBVIOUS
    <3>1. i \in 1 .. n /\ out[i] = o[i]
      BY <2>2
    <3>2. CASE j = n + 1
      BY <3>1, <3>2, <2>4
    <3>3. CASE j # n + 1
      <4>1. j \in 1 .. n /\ out[j] = o[j]
        BY <3>3, <2>2
      <4>2. QED BY <3>1, <4>1, <2>3 DEF Sorted, n
    <3>4. QED BY <3>2, <3>3
  <2> HIDE DEF out
  <2>7. Sorted(T, out)
    BY <2>2, <2>5, <2>6 DEF Sorted
  <2>8. QED BY <2>7, <1>3
<1>6. QED BY <1>4, <1>5

LEMMA InOrderIs ==
  ASSUME NEW S, IsFiniteSet(S), S \subseteq Int
  PROVE  Sorted(S, InOrder(S))
<1>1. PICK o : Sorted(S, o)
  BY CanBeSorted
<1>2. /\ o \in [1 .. Cardinality(S) -> S]
      /\ \A i, j \in DOMAIN o : i < j => o[i] < o[j]
  BY <1>1 DEF Sorted
<1>3. /\ InOrder(S) \in [1 .. Cardinality(S) -> S]
      /\ \A i, j \in DOMAIN InOrder(S) : i < j => InOrder(S)[i] < InOrder(S)[j]
  BY <1>2 DEF InOrder
<1>4. QED BY <1>3 DEF Sorted

\* A part has no more members, and less if it is not the whole.
LEMMA Parts ==
  ASSUME NEW B, IsFiniteSet(B), NEW A, A \subseteq B
  PROVE  /\ IsFiniteSet(A) /\ Cardinality(A) \in Nat /\ Cardinality(B) \in Nat
         /\ Cardinality(A) <= Cardinality(B)
         /\ A # B => Cardinality(A) < Cardinality(B)
<1>1. A \in SUBSET B
  OBVIOUS
<1>2. /\ IsFiniteSet(A) /\ Cardinality(A) <= Cardinality(B)
      /\ Cardinality(B) = Cardinality(A) => B = A
  BY <1>1, FS_Subset
<1>3. Cardinality(A) \in Nat /\ Cardinality(B) \in Nat
  BY <1>2, FS_CardinalityType
<1>4. QED BY <1>2, <1>3

\* What cannot be told apart among n places has at most n members.
LEMMA OneToOne ==
  ASSUME NEW A, NEW B, IsFiniteSet(B), NEW f \in [A -> B], \A x, y \in A : f[x] = f[y] => x = y
  PROVE  /\ IsFiniteSet(A) /\ Cardinality(A) <= Cardinality(B)
         /\ Cardinality(A) = Cardinality(B) => \A b \in B : \E a \in A : f[a] = b
<1>1. f \in Injection(A, B)
  BY DEF Injection, IsInjective
<1>2. /\ IsFiniteSet(A) /\ Cardinality(A) <= Cardinality(B)
      /\ Cardinality(A) = Cardinality(B) => f \in Surjection(A, B)
  BY <1>1, FS_Injection
<1>3. f \in Surjection(A, B) => \A b \in B : \E a \in A : f[a] = b
  BY DEF Surjection
<1>4. QED BY <1>2, <1>3

\* Every member has its place in the order.
Onto(S, out) == \A x \in S : \E i \in 1 .. Cardinality(S) : out[i] = x

LEMMA SortedIsOnto ==
  ASSUME NEW S, IsFiniteSet(S), S \subseteq Int, NEW out, Sorted(S, out)
  PROVE  Onto(S, out)
<1> DEFINE n == Cardinality(S)
           D == 1 .. n
<1>1. n \in Nat
  BY FS_CardinalityType
<1>2. IsFiniteSet(D) /\ Cardinality(D) = n
  BY <1>1, FS_Interval
<1>3. out \in [D -> S] /\ \A i, j \in D : i < j => out[i] < out[j]
  BY DEF Sorted
<1>4. \A i, j \in D : out[i] = out[j] => i = j
  <2> SUFFICES ASSUME NEW i \in D, NEW j \in D, i # j PROVE out[i] # out[j]
    OBVIOUS
  <2>1. out[i] \in Int /\ out[j] \in Int
    BY <1>3
  <2>2. i < j \/ j < i
    BY <1>1
  <2>3. QED BY <1>3, <2>1, <2>2
<1> HIDE DEF D
<1>5. \A x \in S : \E i \in D : out[i] = x
  BY <1>2, <1>3, <1>4, OneToOne
<1>6. QED BY <1>5 DEF D, Onto

\* The first of a set, at most a chunk: nothing left out comes before them.
LEMMA FirstOfIs ==
  ASSUME NEW S, IsFiniteSet(S), S \subseteq Nat
  PROVE  /\ FirstOf(S) \subseteq S /\ IsFiniteSet(FirstOf(S))
         /\ Cardinality(FirstOf(S)) <= ReplayChunk
         /\ S # {} => FirstOf(S) # {}
         /\ \A o \in S \ FirstOf(S) : \A p \in FirstOf(S) : p < o
<1> DEFINE below == [o \in S |-> {x \in S : x < o}]
           rank == [o \in S |-> Cardinality(below[o])]
           F == FirstOf(S)
<1>0. ReplayChunk \in Nat /\ ReplayChunk # 0
  BY ParametersAssumption
<1>1. F = {o \in S : rank[o] < ReplayChunk}
  BY DEF FirstOf
<1>2. \A o, p \in S : /\ rank[o] \in Nat
                      /\ o <= p => rank[o] <= rank[p]
                      /\ o < p => rank[o] < rank[p]
  <2> SUFFICES ASSUME NEW o \in S, NEW p \in S
               PROVE  /\ rank[o] \in Nat
                      /\ o <= p => rank[o] <= rank[p]
                      /\ o < p => rank[o] < rank[p]
    OBVIOUS
  <2>0. o \in Nat /\ p \in Nat /\ \A x \in S : x \in Nat
    OBVIOUS
  <2>1. below[o] \subseteq S
    OBVIOUS
  <2>2. IsFiniteSet(below[p])
    <3>1. below[p] \subseteq S
      OBVIOUS
    <3> HIDE DEF below
    <3>2. QED BY <3>1, Parts
  <2>3. o <= p => below[o] \subseteq below[p]
    <3> SUFFICES ASSUME o <= p, NEW x \in S, x < o PROVE x < p
      OBVIOUS
    <3>1. QED BY <2>0
  <2>4. o < p => below[o] # below[p]
    <3>1. o \notin below[o] /\ (o < p => o \in below[p])
      OBVIOUS
    <3>2. QED BY <3>1
  <2>5. rank[o] = Cardinality(below[o]) /\ rank[p] = Cardinality(below[p])
    OBVIOUS
  <2> HIDE DEF below, rank
  <2>6. rank[o] \in Nat
    BY <2>1, <2>5, Parts
  <2>7. o <= p => rank[o] <= rank[p]
    BY <2>2, <2>3, <2>5, Parts
  <2>8. o < p => rank[o] < rank[p]
    BY <2>0, <2>2, <2>3, <2>4, <2>5, Parts
  <2>9. QED BY <2>6, <2>7, <2>8
<1>3. F \subseteq S /\ IsFiniteSet(F)
  <2>1. F \subseteq S
    BY <1>1
  <2> HIDE DEF F
  <2>2. QED BY <2>1, Parts
<1>4. S # {} => F # {}
  <2> SUFFICES ASSUME S # {} PROVE F # {}
    OBVIOUS
  <2>1. PICK m \in S : \A x \in S : m <= x
    BY HasLeast
  <2>2. below[m] = {}
    <3>1. \A x \in S : ~(x < m)
      BY <2>1
    <3>2. QED BY <3>1
  <2>3. rank[m] = 0
    BY <2>2, FS_EmptySet
  <2> HIDE DEF rank
  <2>4. m \in F
    BY <2>3, <1>0, <1>1
  <2>5. QED BY <2>4
<1> HIDE DEF rank, F
<1>5. \A o \in S \ F : \A p \in F : p < o
  <2> SUFFICES ASSUME NEW o \in S \ F, NEW p \in F PROVE p < o
    OBVIOUS
  <2>1. rank[p] < rank[o] /\ p \in S
    BY <1>0, <1>1, <1>2
  <2>2. QED BY <2>1, <1>2
<1>6. Cardinality(F) <= ReplayChunk
  <2> DEFINE K == 0 .. (ReplayChunk - 1)
             f == [o \in F |-> rank[o]]
  <2>1. IsFiniteSet(K) /\ Cardinality(K) = ReplayChunk
    BY <1>0, FS_Interval
  <2>2. f \in [F -> K]
    <3>1. \A o \in F : rank[o] \in Nat /\ rank[o] < ReplayChunk
      BY <1>1, <1>2
    <3>2. \A o \in F : rank[o] \in K
      BY <3>1, <1>0
    <3>3. QED BY <3>2
  <2>3. \A o, p \in F : f[o] = f[p] => o = p
    BY <1>1, <1>2
  <2> HIDE DEF K, f
  <2>4. Cardinality(F) <= Cardinality(K)
    BY <2>1, <2>2, <2>3, OneToOne
  <2>5. QED BY <2>1, <2>4
<1>7. QED BY <1>3, <1>4, <1>5, <1>6 DEF F

-----------------------------------------------------------------------------
(* Types.                                                                    *)

Logs ==
    [inc : Nat, recs : Seq(Records), cuts : SUBSET Nat, first : Nat,
     packed : SUBSET Nat, torn : BOOLEAN, failed : BOOLEAN, named : BOOLEAN]

\* A log's segments are cut within it, and the oldest one kept is one of them.
LogOK(L) ==
    /\ L \in Logs
    /\ L.first \in L.cuts /\ \A c \in L.cuts : c <= EndOffset(L)

Subs == [mode : {"closed", "catchup", "live"}, cur : Nat, id : Nat, told : BOOLEAN]

Readers ==
    [io : {"none", "drain", "opening", "opened", "gone", "reading", "read", "closing"},
     seg : Nat \cup {None}, packed : BOOLEAN, cur : Nat, acc : SUBSET Nat,
     found : SUBSET Nat, tgt : Nat \cup {None}]

Offsets(L) == {o \in Nat : o < EndOffset(L)}

\* A reader holds records of the log, less than a chunk of them between two
\* reads, and stands in a segment, at or behind its cursor.
HoldsOK(r, L) ==
    /\ r \in Readers
    /\ r.acc \subseteq Offsets(L) /\ Cardinality(r.acc) < ReplayChunk
    /\ r.found \subseteq Offsets(L) /\ Cardinality(r.found) <= ReplayChunk
    /\ \A o \in r.found : r.cur <= o
    /\ r.seg # None => r.seg \in L.cuts /\ r.seg <= r.cur

\* What it has at each of its awaits.
ReaderOK(r, L) ==
    /\ HoldsOK(r, L)
    /\ r.io \in {"reading", "read"} => r.seg # None
    /\ r.io \in {"opening", "opened", "gone", "closing"} => r.tgt \in L.cuts /\ r.seg = None
    /\ r.io \in {"opening", "opened", "gone"} => r.tgt <= r.cur
    /\ r.io # "read" => r.found = {}
    /\ r.io = "drain" => r.acc = {}
    /\ r.io = "none" => r = NoReader

Requests ==
    [op : {"unsubscribe"}]
      \cup [op : {"subscribe"}, id : Nat, from : Nat, inc : Nat \cup {None}]

Clients ==
    [up : BOOLEAN, on : BOOLEAN, next : Nat, seq : Nat \cup {-1},
     inc : Nat \cup {None}, sub : Nat, ids : Nat, wait : BOOLEAN]

Maintenance == Seq([do : {"compact", "retain"}, seg : Nat])

TypeInv ==
    /\ LogOK(log) /\ maint \in Maintenance /\ host \in Hosts /\ srv \in Subs
    /\ ReaderOK(rd, log) /\ wire \in Seq(Messages) /\ toHost \in Seq(Requests)
    /\ cl \in Clients /\ got \in [id : Nat, inc : Nat \cup {None}]
    /\ raced \subseteq Nat /\ spent \in Budgets

\* Segments and the ends of a log.
LEMMA LogEnds ==
  ASSUME NEW L, LogOK(L)
  PROVE  /\ EndOffset(L) \in Nat /\ L.first \in Nat /\ L.first <= EndOffset(L)
         /\ L.recs \in Seq(Records)
         /\ IsFiniteSet(L.cuts)
         /\ Active(L) \in L.cuts /\ \A c \in L.cuts : c \in Nat /\ c <= Active(L)
         /\ L.first \in Segments(L) /\ Active(L) \in Segments(L)
         /\ Segments(L) \subseteq L.cuts
<1>1. L.recs \in Seq(Records) /\ L.cuts \subseteq Nat /\ L.first \in L.cuts
  BY DEF LogOK, Logs
<1>2. EndOffset(L) \in Nat
  BY <1>1, LenProperties DEF EndOffset
<1>3. IsFiniteSet(L.cuts)
  <2>1. L.cuts \in SUBSET Nat /\ \A c \in L.cuts : c <= EndOffset(L)
    BY <1>1 DEF LogOK
  <2>2. QED BY <2>1, <1>2, FS_BoundedSetOfNaturals
<1>4. Active(L) \in L.cuts /\ \A c \in L.cuts : c <= Active(L)
  <2>1. L.cuts # {} /\ L.cuts \subseteq Int
    BY <1>1
  <2>2. QED BY <2>1, <1>3, MaxIs DEF Active
<1>5. L.first <= EndOffset(L) /\ L.first <= Active(L)
  BY <1>1, <1>4 DEF LogOK
<1>6. QED BY <1>1, <1>2, <1>3, <1>4, <1>5 DEF Segments

\* The segment a cursor falls in.
LEMMA SegmentToOpen ==
  ASSUME NEW L, LogOK(L), NEW c \in Nat, L.first <= c
  PROVE  LET t == Max({b \in Segments(L) : b <= c})
         IN  /\ t \in L.cuts /\ t \in Segments(L) /\ t <= c /\ t \in Nat
             /\ \A b \in Segments(L) : b <= c => b <= t
<1> DEFINE S == {b \in Segments(L) : b <= c}
<1>1. /\ S \subseteq L.cuts /\ L.cuts \subseteq Int /\ L.cuts \subseteq Nat
      /\ L.first \in S /\ IsFiniteSet(L.cuts)
  BY LogEnds
<1> HIDE DEF S
<1>2. IsFiniteSet(S) /\ S # {} /\ S \subseteq Int
  BY <1>1, Parts
<1>3. Max(S) \in S /\ \A x \in S : x <= Max(S)
  BY <1>2, MaxIs
<1>4. QED BY <1>1, <1>3 DEF S

LEMMA OpeningOK ==
  ASSUME NEW L, LogOK(L), NEW r, HoldsOK(r, L), r.found = {}, ~OutOfLog(r, L)
  PROVE  /\ ReaderOK(Opening(r, L), L)
         /\ Opening(r, L).io = "opening" /\ Opening(r, L).seg = None
         /\ Opening(r, L).tgt \in Segments(L) /\ Opening(r, L).tgt <= r.cur
         /\ \A b \in Segments(L) : b <= r.cur => b <= Opening(r, L).tgt
         /\ Opening(r, L).cur = r.cur /\ Opening(r, L).acc = r.acc
         /\ Opening(r, L).found = r.found
<1> DEFINE t == Max({b \in Segments(L) : b <= r.cur})
<1>1. r \in Readers /\ r.cur \in Nat
  BY DEF HoldsOK, Readers
<1>2. L.first <= r.cur
  BY <1>1, LogEnds DEF OutOfLog
<1>3. /\ t \in L.cuts /\ t \in Segments(L) /\ t <= r.cur /\ t \in Nat
      /\ \A b \in Segments(L) : b <= r.cur => b <= t
  BY <1>1, <1>2, SegmentToOpen
<1>4. Opening(r, L) = [r EXCEPT !.io = "opening", !.seg = None, !.tgt = t]
  BY DEF Opening
<1> HIDE DEF t
<1>5. /\ Opening(r, L) \in Readers
      /\ Opening(r, L).io = "opening" /\ Opening(r, L).seg = None
      /\ Opening(r, L).tgt = t /\ Opening(r, L).cur = r.cur
      /\ Opening(r, L).acc = r.acc /\ Opening(r, L).found = r.found
  BY <1>1, <1>3, <1>4 DEF Readers, None
<1>6. ReaderOK(Opening(r, L), L)
  BY <1>3, <1>5 DEF ReaderOK, HoldsOK
<1>7. QED BY <1>3, <1>5, <1>6


\* Between two steps a reader holds nothing.
Ready(r, L) == HoldsOK(r, L) /\ r.acc = {} /\ r.found = {}

LEMMA StepStartsOK ==
  ASSUME NEW L, LogOK(L), NEW r, Ready(r, L), r.seg # None \/ ~OutOfLog(r, L)
  PROVE  LET q == StepStarts(r, L)
         IN  /\ ReaderOK(q, L) /\ q.acc = {} /\ q.cur = r.cur
             /\ \/ q.io = "reading" /\ q.seg = r.seg /\ q.packed = r.packed
                \/ /\ q.io = "opening" /\ q.seg = None /\ r.seg = None
                   /\ ~OutOfLog(r, L) /\ q.tgt \in Segments(L)
                   /\ \A b \in Segments(L) : b <= q.cur => b <= q.tgt
<1>1. CASE r.seg = None
  BY <1>1, OpeningOK DEF StepStarts, Ready
<1>2. CASE r.seg # None
  <2> DEFINE q == [r EXCEPT !.io = "reading"]
  <2>1. q = StepStarts(r, L)
    BY <1>2 DEF StepStarts
  <2>2. /\ q \in Readers /\ q.io = "reading" /\ q.seg = r.seg /\ q.packed = r.packed
        /\ q.cur = r.cur /\ q.acc = {} /\ q.found = {}
    BY DEF Ready, HoldsOK, Readers
  <2> HIDE DEF q
  <2>3. ReaderOK(q, L)
    BY <2>2, <1>2 DEF Ready, HoldsOK, ReaderOK
  <2>4. QED BY <2>1, <2>2, <2>3
<1>3. QED BY <1>1, <1>2

LEMMA DrainOK ==
  ASSUME NEW L, NEW r, Ready(r, L)
  PROVE  LET q == [r EXCEPT !.io = "drain"]
         IN  /\ ReaderOK(q, L) /\ q.acc = {} /\ q.cur = r.cur /\ q.io = "drain"
             /\ q.seg = r.seg /\ q.packed = r.packed
<1> DEFINE q == [r EXCEPT !.io = "drain"]
<1>1. /\ q \in Readers /\ q.io = "drain" /\ q.seg = r.seg /\ q.packed = r.packed
      /\ q.cur = r.cur /\ q.acc = {} /\ q.found = {}
  BY DEF Ready, HoldsOK, Readers
<1> HIDE DEF q
<1>2. ReaderOK(q, L)
  BY <1>1 DEF Ready, HoldsOK, ReaderOK
<1>3. QED BY <1>1, <1>2 DEF q

\* Past a gap, a reader goes on within the log.
LEMMA Resumes ==
  ASSUME NEW L, LogOK(L), NEW r, HoldsOK(r, L), OutOfLog(r, L)
  PROVE  LET to == Resume(r, L)
             q == [r EXCEPT !.cur = to]
         IN  /\ to \in Nat /\ L.first <= to /\ to <= EndOffset(L)
             /\ q.cur = to /\ ~OutOfLog(q, L) /\ q.seg = r.seg /\ q.acc = r.acc
             /\ q.packed = r.packed
             /\ r.seg = None /\ Ready(r, L) => Ready(q, L)
<1> DEFINE to == Resume(r, L)
           q == [r EXCEPT !.cur = to]
<1>1. to \in Nat /\ L.first <= to /\ to <= EndOffset(L)
  BY LogEnds DEF Resume
<1> HIDE DEF to
<1>2. /\ q \in Readers /\ q.cur = to /\ q.seg = r.seg /\ q.acc = r.acc /\ q.found = r.found
      /\ q.packed = r.packed
  BY <1>1 DEF HoldsOK, Readers
<1> HIDE DEF q
<1>3. ~OutOfLog(q, L)
  BY <1>1, <1>2, LogEnds DEF OutOfLog
<1>4. r.seg = None /\ Ready(r, L) => Ready(q, L)
  BY <1>2 DEF HoldsOK, Ready
<1>5. QED BY <1>1, <1>2, <1>3, <1>4 DEF q, to, Ready

\* The loop of catchUp: it stays where it is, or is told of a gap and moves.
LEMMA CatchUpDoes ==
  ASSUME NEW L, LogOK(L), NEW s \in Subs, NEW r, Ready(r, L), NEW w \in Seq(Messages),
         CatchUp(s, r, w, L)
  PROVE  /\ ReaderOK(rd', L) /\ rd'.acc = {} /\ rd'.io \in {"drain", "opening", "reading"}
         /\ srv' \in Subs /\ srv'.mode = s.mode /\ srv'.id = s.id /\ srv'.told = s.told
         /\ wire' \in Seq(Messages)
         /\ rd'.io = "drain" \/ Len(wire') <= HighWater
         /\ rd'.seg = r.seg
         /\ rd'.io # "opening" => rd'.packed = r.packed
         /\ rd'.io = "opening" => /\ rd'.tgt \in Segments(L)
                                  /\ \A b \in Segments(L) : b <= rd'.cur => b <= rd'.tgt
         /\ \/ srv' = s /\ wire' = w /\ rd'.cur = r.cur
            \/ /\ r.seg = None /\ OutOfLog(r, L)
               /\ srv' = [s EXCEPT !.cur = Resume(r, L)] /\ rd'.cur = Resume(r, L)
               /\ wire' = Append(w, Gap(s, Resume(r, L), r.cur > EndOffset(L)))
<1>0. HighWater \in Nat /\ Len(w) \in Nat
  BY ParametersAssumption, LenProperties
<1>1. CASE AboveHighWater(w) /\ rd' = [r EXCEPT !.io = "drain"] /\ srv' = s /\ wire' = w
  BY <1>1, DrainOK
<1>2. CASE /\ ~AboveHighWater(w)
           /\ r.seg # None \/ ~OutOfLog(r, L)
           /\ rd' = StepStarts(r, L) /\ srv' = s /\ wire' = w
  <2>1. Len(wire') <= HighWater
    BY <1>2, <1>0 DEF AboveHighWater
  <2>2. /\ ReaderOK(rd', L) /\ rd'.acc = {} /\ rd'.cur = r.cur
        /\ \/ rd'.io = "reading" /\ rd'.seg = r.seg /\ rd'.packed = r.packed
           \/ /\ rd'.io = "opening" /\ rd'.seg = None /\ r.seg = None
              /\ ~OutOfLog(r, L) /\ rd'.tgt \in Segments(L)
              /\ \A b \in Segments(L) : b <= rd'.cur => b <= rd'.tgt
    BY <1>2, StepStartsOK
  <2>3. QED BY <1>2, <2>1, <2>2
<1>3. CASE /\ r.seg = None /\ OutOfLog(r, L)
           /\ LET to == Resume(r, L)
                  r2 == [r EXCEPT !.cur = to]
              IN  /\ srv' = [s EXCEPT !.cur = to]
                  /\ wire' = Append(w, Gap(s, to, r.cur > EndOffset(L)))
                  /\ rd' = IF AboveHighWater(wire') THEN [r2 EXCEPT !.io = "drain"]
                                                    ELSE StepStarts(r2, L)
  <2> DEFINE to == Resume(r, L)
             r2 == [r EXCEPT !.cur = to]
             g  == Gap(s, to, r.cur > EndOffset(L))
  <2>1. /\ to \in Nat /\ Ready(r2, L) /\ r2.cur = to /\ ~OutOfLog(r2, L) /\ r2.seg = None
        /\ r2.packed = r.packed
    BY <1>3, Resumes DEF Ready
  <2>2. /\ srv' = [s EXCEPT !.cur = to] /\ wire' = Append(w, g)
        /\ rd' = IF AboveHighWater(wire') THEN [r2 EXCEPT !.io = "drain"] ELSE StepStarts(r2, L)
    BY <1>3
  <2>3. g \in Messages
    <3>1. s.id \in Nat /\ (r.cur > EndOffset(L)) \in BOOLEAN
      BY DEF Subs
    <3>2. QED BY <3>1, <2>1 DEF Gap, Messages
  <2> HIDE DEF r2, to, g
  <2>4. /\ srv' \in Subs /\ srv'.mode = s.mode /\ srv'.id = s.id /\ srv'.told = s.told
    BY <2>1, <2>2 DEF Subs
  <2>5. wire' \in Seq(Messages) /\ Len(wire') \in Nat
    BY <2>2, <2>3, AppendProperties, LenProperties
  <2>6. CASE AboveHighWater(wire')
    <3>1. rd' = [r2 EXCEPT !.io = "drain"]
      BY <2>2, <2>6
    <3>2. /\ ReaderOK(rd', L) /\ rd'.acc = {} /\ rd'.cur = to /\ rd'.io = "drain"
          /\ rd'.seg = None /\ rd'.packed = r.packed
      BY <3>1, <2>1, DrainOK
    <3>3. QED BY <3>2, <2>2, <2>4, <2>5, <1>3 DEF to, g
  <2>7. CASE ~AboveHighWater(wire')
    <3>1. rd' = StepStarts(r2, L)
      BY <2>2, <2>7
    <3>2. /\ ReaderOK(rd', L) /\ rd'.acc = {} /\ rd'.cur = to
          /\ \/ rd'.io = "reading" /\ rd'.seg = r2.seg /\ rd'.packed = r2.packed
             \/ /\ rd'.io = "opening" /\ rd'.seg = None /\ rd'.tgt \in Segments(L)
                /\ \A b \in Segments(L) : b <= rd'.cur => b <= rd'.tgt
      BY <3>1, <2>1, StepStartsOK
    <3>3. Len(wire') <= HighWater
      BY <2>7, <2>5, <1>0 DEF AboveHighWater
    <3>4. QED BY <3>2, <3>3, <2>1, <2>2, <2>4, <2>5, <1>3 DEF to, g
  <2>8. QED BY <2>6, <2>7
<1>4. QED BY <1>1, <1>2, <1>3 DEF CatchUp

LEMMA SeqOfLength ==
  ASSUME NEW S, NEW n \in Nat, NEW f \in [1 .. n -> S]
  PROVE  f \in Seq(S) /\ Len(f) = n
<1>1. f \in Seq(S)
  BY SeqDef
<1>2. Len(f) \in Nat /\ 1 .. Len(f) = 1 .. n
  BY <1>1, LenProperties
<1>3. Len(f) = n
  BY <1>2
<1>4. QED BY <1>1, <1>3

LEMMA EventIsMessage ==
  ASSUME NEW L, LogOK(L), NEW s \in Subs, NEW o \in Offsets(L)
  PROVE  Event(s, L, o) \in Messages
<1>1. L.recs[o + 1] \in Records
  <2>1. o + 1 \in 1 .. Len(L.recs) /\ L.recs \in Seq(Records)
    BY LogEnds DEF Offsets, EndOffset
  <2>2. QED BY <2>1, ElementOfSeq
<1>2. s.id \in Nat /\ L.inc \in Nat /\ o \in Nat
  BY DEF Subs, LogOK, Logs, Offsets
<1>3. QED BY <1>1, <1>2 DEF Event, Messages

\* What a step that returns writes, and the subscription it leaves.
Events(r) == [i \in 1 .. Cardinality(r.acc) |-> Event(srv, log, InOrder(r.acc)[i])]
SubAfter(r) == [srv EXCEPT !.cur = InOrder(r.acc)[Cardinality(r.acc)] + 1]

LEMMA OffsetsFinite ==
  ASSUME NEW L, LogOK(L), NEW S, S \subseteq Offsets(L)
  PROVE  IsFiniteSet(S) /\ S \subseteq Nat /\ S \subseteq Int /\ Cardinality(S) \in Nat
<1>1. Offsets(L) \in SUBSET Nat /\ \A o \in Offsets(L) : o <= EndOffset(L)
  BY LogEnds DEF Offsets
<1>2. IsFiniteSet(Offsets(L))
  BY <1>1, LogEnds, FS_BoundedSetOfNaturals
<1>3. IsFiniteSet(S) /\ Cardinality(S) \in Nat
  BY <1>2, Parts
<1>4. QED BY <1>1, <1>3

LEMMA StepReturnsDoes ==
  ASSUME LogOK(log), srv \in Subs, wire \in Seq(Messages), NEW r \in Readers,
         r.acc \subseteq Offsets(log), r.acc # {}, r.found = {},
         r.seg # None => r.seg \in log.cuts /\ r.seg <= r.cur,
         StepReturns(r)
  PROVE  LET n == Cardinality(r.acc)
             out == InOrder(r.acc)
             q == [r EXCEPT !.acc = {}]
         IN  /\ n \in Nat \ {0} /\ Sorted(r.acc, out)
             /\ Events(r) \in Seq(Messages) /\ Len(Events(r)) = n
             /\ wire \o Events(r) \in Seq(Messages)
             /\ out[n] \in r.acc /\ SubAfter(r) \in Subs /\ SubAfter(r).cur = out[n] + 1
             /\ SubAfter(r).id = srv.id /\ SubAfter(r).mode = srv.mode
             /\ SubAfter(r).told = srv.told
             /\ Ready(q, log) /\ q.cur = r.cur /\ q.seg = r.seg /\ q.packed = r.packed
             /\ CatchUp(SubAfter(r), q, wire \o Events(r), log)
<1> DEFINE n == Cardinality(r.acc)
           out == InOrder(r.acc)
           q == [r EXCEPT !.acc = {}]
<1>0. ReplayChunk \in Nat /\ 0 < ReplayChunk
  BY ParametersAssumption
<1>1. IsFiniteSet(r.acc) /\ r.acc \subseteq Int /\ r.acc \subseteq Nat /\ n \in Nat
  BY OffsetsFinite
<1>2. n # 0
  BY <1>1, FS_EmptySet
<1>3. Sorted(r.acc, out)
  BY <1>1, InOrderIs
<1>4. out \in [1 .. n -> r.acc]
  BY <1>3 DEF Sorted
<1> HIDE DEF n, out
<1>5. Len(out) = n
  BY <1>1, <1>4, SeqOfLength
<1>6. out[n] \in r.acc
  BY <1>1, <1>2, <1>4
<1>7. Events(r) = [i \in 1 .. n |-> Event(srv, log, out[i])]
  BY DEF Events, n, out
<1>8. Events(r) \in [1 .. n -> Messages]
  <2>1. \A i \in 1 .. n : Event(srv, log, out[i]) \in Messages
    BY <1>4, EventIsMessage
  <2>2. QED BY <2>1, <1>7
<1>9. Events(r) \in Seq(Messages) /\ Len(Events(r)) = n
  BY <1>1, <1>8, SeqOfLength
<1>10. wire \o Events(r) \in Seq(Messages)
  BY <1>9, ConcatProperties
<1>11. SubAfter(r) = [srv EXCEPT !.cur = out[n] + 1]
  BY DEF SubAfter, n, out
<1>12. /\ SubAfter(r) \in Subs /\ SubAfter(r).cur = out[n] + 1
       /\ SubAfter(r).id = srv.id /\ SubAfter(r).mode = srv.mode
       /\ SubAfter(r).told = srv.told
  <2>1. out[n] + 1 \in Nat
    BY <1>1, <1>6
  <2>2. QED BY <2>1, <1>11 DEF Subs
<1>13. /\ q \in Readers /\ q.acc = {} /\ q.cur = r.cur /\ q.seg = r.seg
       /\ q.packed = r.packed /\ q.found = {}
  BY DEF Readers
<1>14. CatchUp(SubAfter(r), q, wire \o Events(r), log)
  <2>1. StepReturns(r)
    OBVIOUS
  <2>2. QED BY <2>1, <1>5, <1>7, <1>11 DEF StepReturns, out
<1> HIDE DEF q
<1>15. Ready(q, log)
  <2>1. Cardinality(q.acc) = 0 /\ Cardinality(q.found) = 0
    BY <1>13, FS_EmptySet
  <2>2. QED BY <2>1, <1>13, <1>0 DEF Ready, HoldsOK
<1>16. QED
  BY <1>1, <1>2, <1>3, <1>6, <1>9, <1>10, <1>12, <1>13, <1>14, <1>15 DEF n, out, q

-----------------------------------------------------------------------------
\* A log that has all the segments of another, and is as long, serves its readers.
LEMMA ReaderKeeps ==
  ASSUME NEW L, NEW M, NEW r, ReaderOK(r, L), L.cuts \subseteq M.cuts,
         EndOffset(L) \in Nat, EndOffset(M) \in Nat, EndOffset(L) <= EndOffset(M)
  PROVE  ReaderOK(r, M)
<1>1. Offsets(L) \subseteq Offsets(M)
  BY DEF Offsets
<1>2. QED BY <1>1 DEF ReaderOK, HoldsOK

LEMMA NoReaderOK == ASSUME NEW L PROVE ReaderOK(NoReader, L) /\ NoSubscription \in Subs
<1>1. NoReader \in Readers /\ NoSubscription \in Subs
  BY DEF NoReader, Readers, NoSubscription, Subs, None
<1>2. Cardinality(NoReader.acc) = 0 /\ Cardinality(NoReader.found) = 0
  BY FS_EmptySet DEF NoReader
<1>3. QED
  BY <1>1, <1>2, ParametersAssumption DEF NoReader, ReaderOK, HoldsOK, None

LEMMA ReaderAtReady ==
  ASSUME NEW L, NEW c \in Nat
  PROVE  /\ Ready(ReaderAt(c), L) /\ ReaderAt(c).cur = c /\ ReaderAt(c).seg = None
         /\ ReaderAt(c).acc = {}
<1> DEFINE q == ReaderAt(c)
<1>1. q \in Readers /\ q.acc = {} /\ q.found = {} /\ q.seg = None /\ q.cur = c
  BY DEF NoReader, Readers, ReaderAt, None
<1> HIDE DEF q
<1>2. Cardinality(q.acc) = 0 /\ Cardinality(q.found) = 0
  BY <1>1, FS_EmptySet
<1>3. Ready(q, L)
  BY <1>1, <1>2, ParametersAssumption DEF HoldsOK, Ready
<1>4. QED BY <1>1, <1>3 DEF q

\* What writes and maintenance do to a log.
LEMMA LogSame ==
  ASSUME NEW L, LogOK(L), NEW M, M \in Logs, M.recs = L.recs, M.cuts = L.cuts,
         M.first \in L.cuts
  PROVE  LogOK(M) /\ EndOffset(M) = EndOffset(L)
BY DEF LogOK, EndOffset

LEMMA LogFieldsOK ==
  ASSUME NEW L, LogOK(L), NEW x \in BOOLEAN, NEW y \in BOOLEAN
  PROVE  /\ LogOK([L EXCEPT !.torn = x]) /\ LogOK([L EXCEPT !.failed = x])
         /\ LogOK([L EXCEPT !.named = x]) /\ LogOK([L EXCEPT !.failed = x, !.torn = y])
         /\ LogOK([L EXCEPT !.torn = x, !.failed = y])
         /\ \A S \in SUBSET Nat : LogOK([L EXCEPT !.packed = S])
         /\ \A f \in L.cuts : LogOK([L EXCEPT !.first = f])
         /\ \A i \in Nat : LogOK([L EXCEPT !.inc = i, !.named = TRUE, !.torn = FALSE,
                                          !.failed = FALSE])
<1>1. L \in Logs /\ L.first \in L.cuts
  BY DEF LogOK
<1>2. LogOK([L EXCEPT !.torn = x]) /\ LogOK([L EXCEPT !.failed = x])
  BY <1>1, LogSame DEF Logs
<1>3. LogOK([L EXCEPT !.named = x]) /\ LogOK([L EXCEPT !.failed = x, !.torn = y])
  BY <1>1, LogSame DEF Logs
<1>4. LogOK([L EXCEPT !.torn = x, !.failed = y])
  BY <1>1, LogSame DEF Logs
<1>5. \A S \in SUBSET Nat : LogOK([L EXCEPT !.packed = S])
  BY <1>1, LogSame DEF Logs
<1>6. \A f \in L.cuts : LogOK([L EXCEPT !.first = f])
  BY <1>1, LogSame DEF Logs
<1>7. ASSUME NEW i \in Nat
      PROVE  LogOK([L EXCEPT !.inc = i, !.named = TRUE, !.torn = FALSE, !.failed = FALSE])
  BY <1>1, LogSame DEF Logs
<1>8. QED BY <1>2, <1>3, <1>4, <1>5, <1>6, <1>7

LEMMA NewLogOK == ASSUME NEW i \in Nat PROVE LogOK(NewLog(i))
<1>1. NewLog(i) \in Logs
  BY EmptySeq DEF NewLog, Logs
<1>2. QED BY <1>1, EmptySeq DEF NewLog, LogOK, EndOffset

LEMMA WritingOK ==
  ASSUME TypeInv, NEW kind \in Kinds
  PROVE  LET L == Written(kind)
             new == [id |-> spent.records + 1, life |-> host.life,
                     kind |-> IF log.torn THEN "glued" ELSE kind]
         IN  /\ L \in Logs /\ LogOK(L) /\ new \in Records
             /\ L = [log EXCEPT !.recs = Append(log.recs, new), !.torn = FALSE]
             /\ L.recs = Append(log.recs, new) /\ L.cuts = log.cuts /\ L.first = log.first
             /\ L.packed = log.packed /\ L.inc = log.inc
             /\ EndOffset(L) = EndOffset(log) + 1
<1> DEFINE new == [id |-> spent.records + 1, life |-> host.life,
                   kind |-> IF log.torn THEN "glued" ELSE kind]
           L == Written(kind)
<1>1. new \in Records
  BY ParametersAssumption DEF TypeInv, Hosts, Budgets, Records
<1>2. log.recs \in Seq(Records) /\ log \in Logs /\ LogOK(log)
  BY LogEnds DEF TypeInv, LogOK
<1>3. L = [log EXCEPT !.recs = Append(log.recs, new), !.torn = FALSE]
  BY DEF Written
<1> HIDE DEF new
<1>4. Append(log.recs, new) \in Seq(Records) /\ Len(Append(log.recs, new)) = Len(log.recs) + 1
  BY <1>1, <1>2, AppendProperties
<1> HIDE DEF L
<1>5. /\ L \in Logs /\ L.recs = Append(log.recs, new) /\ L.cuts = log.cuts
      /\ L.first = log.first /\ L.packed = log.packed /\ L.inc = log.inc
  BY <1>2, <1>3, <1>4 DEF Logs
<1>6. EndOffset(L) = EndOffset(log) + 1 /\ EndOffset(log) \in Nat
  BY <1>2, <1>4, <1>5, LogEnds DEF EndOffset
<1>7. LogOK(L)
  <2>1. \A c \in L.cuts : c \in Nat /\ c <= EndOffset(log)
    BY <1>2, <1>5 DEF LogOK, Logs
  <2>2. \A c \in L.cuts : c <= EndOffset(L)
    BY <2>1, <1>6
  <2>3. QED BY <2>2, <1>2, <1>5 DEF LogOK
<1>8. QED BY <1>1, <1>3, <1>5, <1>6, <1>7 DEF new, L

LEMMA RotatingOK ==
  ASSUME NEW L, LogOK(L)
  PROVE  /\ LogOK(Rotated(L)) /\ EndOffset(Rotated(L)) = EndOffset(L)
         /\ Rotated(L).recs = L.recs /\ Rotated(L).cuts = L.cuts \cup {EndOffset(L)}
         /\ Rotated(L).first = L.first /\ Rotated(L).packed = L.packed
         /\ Rotated(L).inc = L.inc
<1> DEFINE M == Rotated(L)
<1>1. EndOffset(L) \in Nat /\ L \in Logs
  BY LogEnds DEF LogOK
<1>2. /\ M \in Logs /\ M.recs = L.recs /\ M.cuts = L.cuts \cup {EndOffset(L)}
      /\ M.first = L.first /\ M.packed = L.packed /\ M.inc = L.inc
  BY <1>1 DEF Rotated, Logs
<1>3. EndOffset(M) = EndOffset(L)
  BY <1>2 DEF EndOffset
<1>4. LogOK(M)
  BY <1>1, <1>2, <1>3 DEF LogOK
<1>5. QED BY <1>2, <1>3, <1>4

LEMMA RetainedOK ==
  ASSUME NEW L, LogOK(L)
  PROVE  Retained(L) \in Segments(L) /\ Retained(L) \in Nat /\ L.first <= Retained(L)
<1> DEFINE S == {b \in Segments(L) : SizeFrom(L, b) <= RetainBytes \/ b = Active(L)}
<1>1. Active(L) \in S /\ S \subseteq Segments(L) /\ Segments(L) \subseteq Nat
  BY LogEnds
<1>2. Retained(L) = Min(S)
  BY DEF Retained
<1> HIDE DEF S
<1>3. Min(S) \in S
  BY <1>1, MinIs
<1>4. QED BY <1>1, <1>2, <1>3 DEF Segments

LEMMA OnLiveDoes ==
  ASSUME TypeInv, NEW L, LogOK(L), log.cuts \subseteq L.cuts,
         EndOffset(L) = EndOffset(log) + 1, OnLive(L, EndOffset(log))
  PROVE  /\ srv' \in Subs /\ ReaderOK(rd', L) /\ wire' \in Seq(Messages)
         /\ srv'.id = srv.id
<1> DEFINE o == EndOffset(log)
<1>0. /\ LogOK(log) /\ o \in Nat /\ srv \in Subs /\ wire \in Seq(Messages) /\ ReaderOK(rd, log)
      /\ EndOffset(L) \in Nat /\ o \in Offsets(L)
  <2>1. LogOK(log) /\ o \in Nat /\ EndOffset(L) \in Nat
    BY LogEnds DEF TypeInv
  <2>2. o \in Offsets(L)
    BY <2>1 DEF Offsets
  <2>3. QED BY <2>1, <2>2 DEF TypeInv
<1>1. ReaderOK(rd, L)
  BY <1>0, ReaderKeeps
<1>2. CASE srv.mode # "live"
  BY <1>0, <1>1, <1>2 DEF OnLive
<1>3. CASE srv.mode = "live" /\ (o # srv.cur \/ AboveHighWater(wire))
  <2>1. CatchUp([srv EXCEPT !.mode = "catchup"], ReaderAt(srv.cur), wire, L)
    BY <1>3 DEF OnLive
  <2>2. [srv EXCEPT !.mode = "catchup"] \in Subs /\ [srv EXCEPT !.mode = "catchup"].id = srv.id
    BY <1>0 DEF Subs
  <2>3. srv.cur \in Nat
    BY <1>0 DEF Subs
  <2>4. Ready(ReaderAt(srv.cur), L)
    BY <2>3, ReaderAtReady
  <2>5. QED BY <2>1, <2>2, <2>4, <1>0, CatchUpDoes
<1>4. CASE srv.mode = "live" /\ ~(o # srv.cur \/ AboveHighWater(wire))
  <2>1. srv' = [srv EXCEPT !.cur = o + 1] /\ rd' = rd /\ wire' = Append(wire, Event(srv, L, o))
    BY <1>4 DEF OnLive
  <2>2. srv' \in Subs /\ srv'.id = srv.id
    BY <2>1, <1>0 DEF Subs
  <2>3. Event(srv, L, o) \in Messages
    BY <1>0, EventIsMessage
  <2>4. wire' \in Seq(Messages)
    BY <2>1, <2>3, <1>0, AppendProperties
  <2>5. QED BY <2>1, <2>2, <2>4, <1>1
<1>5. QED BY <1>2, <1>3, <1>4

LEMMA TypeAppendRecord == ASSUME TypeInv, AppendRecord PROVE TypeInv'
<1>1. PICK kind \in Kinds :
        LET L == Written(kind) IN
        /\ IF Full(L)
           THEN /\ log' = Rotated(L)
                /\ maint' = maint \o << [do |-> "compact", seg |-> Active(L)],
                                        [do |-> "retain",  seg |-> Active(L)] >>
           ELSE /\ log' = L
                /\ UNCHANGED maint
        /\ OnLive(log', EndOffset(log))
        /\ Races
        /\ Spend("records")
        /\ UNCHANGED <<host, toHost, cl, got>>
  BY DEF AppendRecord
<1> DEFINE L == Written(kind)
<1>2. /\ LogOK(L) /\ EndOffset(L) = EndOffset(log) + 1 /\ L.cuts = log.cuts
  BY WritingOK
<1>3. /\ LogOK(log') /\ EndOffset(log') = EndOffset(log) + 1 /\ log.cuts \subseteq log'.cuts
  <2>1. log' = L \/ log' = Rotated(L)
    BY <1>1
  <2> HIDE DEF L
  <2>2. QED BY <2>1, <1>2, RotatingOK
<1>4. maint' \in Maintenance
  <2> DEFINE J == [do : {"compact", "retain"}, seg : Nat]
             a == Active(L)
             two == << [do |-> "compact", seg |-> a], [do |-> "retain",  seg |-> a] >>
  <2>1. maint \in Seq(J)
    BY DEF TypeInv, Maintenance
  <2>2. Active(L) \in Nat
    <3> HIDE DEF L
    <3>1. QED BY <1>2, LogEnds
  <2>3. maint' = maint \/ maint' = maint \o two
    BY <1>1
  <2> HIDE DEF a
  <2>4. two \in Seq(J)
    BY <2>2 DEF a
  <2> HIDE DEF J, two
  <2>5. maint' \in Seq(J)
    BY <2>1, <2>3, <2>4, ConcatProperties
  <2>6. QED BY <2>5 DEF Maintenance, J
<1>5. srv' \in Subs /\ ReaderOK(rd', log') /\ wire' \in Seq(Messages)
  <2>1. OnLive(log', EndOffset(log))
    BY <1>1
  <2>2. QED BY <2>1, <1>3, OnLiveDoes
<1>6. spent' \in Budgets /\ raced' \subseteq Nat
  <2>1. Spend("records") /\ Races
    BY <1>1
  <2>2. spent' \in Budgets
    BY <2>1, Spending DEF TypeInv
  <2>3. spent.records + 1 \in Nat
    BY DEF TypeInv, Budgets
  <2>4. QED BY <2>1, <2>2, <2>3 DEF Races, TypeInv
<1>7. UNCHANGED <<host, toHost, cl, got>>
  BY <1>1
<1>8. QED BY <1>3, <1>4, <1>5, <1>6, <1>7 DEF TypeInv

LEMMA TypeAppendFails == ASSUME TypeInv, AppendFailsToRotate PROVE TypeInv'
<1>1. PICK kind \in Kinds :
        /\ log' = [Written(kind) EXCEPT !.failed = TRUE]
        /\ OnLive(log', EndOffset(log))
        /\ Races
        /\ spent' = [spent EXCEPT !.records = @ + 1, !.fails = @ + 1]
        /\ UNCHANGED <<maint, host, toHost, cl, got>>
  BY DEF AppendFailsToRotate
<1> DEFINE L == Written(kind)
<1>2. /\ LogOK(L) /\ EndOffset(L) = EndOffset(log) + 1 /\ L.cuts = log.cuts
      /\ L \in Logs /\ L.first \in L.cuts
  BY WritingOK DEF LogOK
<1>3. /\ LogOK(log') /\ EndOffset(log') = EndOffset(log) + 1 /\ log.cuts \subseteq log'.cuts
  <2>1. log' = [L EXCEPT !.failed = TRUE]
    BY <1>1
  <2> HIDE DEF L
  <2>2. log' \in Logs /\ log'.recs = L.recs /\ log'.cuts = L.cuts /\ log'.first = L.first
    BY <2>1, <1>2 DEF Logs
  <2>3. QED BY <2>2, <1>2, LogSame
<1>4. srv' \in Subs /\ ReaderOK(rd', log') /\ wire' \in Seq(Messages)
  <2>1. OnLive(log', EndOffset(log))
    BY <1>1
  <2>2. QED BY <2>1, <1>3, OnLiveDoes
<1>5. spent' \in Budgets /\ raced' \subseteq Nat
  <2>2. spent' \in Budgets
    BY <1>1, Spending DEF TypeInv
  <2>3. spent.records + 1 \in Nat
    BY DEF TypeInv, Budgets
  <2>4. QED BY <1>1, <2>2, <2>3 DEF Races, TypeInv
<1>6. QED BY <1>1, <1>3, <1>4, <1>5 DEF TypeInv

LEMMA TypeAppends == ASSUME TypeInv, Appends PROVE TypeInv'
<1>1. CASE AppendTears
  <2>1. /\ log' = [log EXCEPT !.failed = TRUE, !.torn = TRUE] /\ Spend("fails")
        /\ UNCHANGED <<maint, host, srv, rd, wire, toHost, cl, got, raced>>
    BY <1>1 DEF AppendTears
  <2>2. LogOK(log') /\ EndOffset(log') = EndOffset(log) /\ log'.cuts = log.cuts
    <3>1. LogOK(log) /\ log \in Logs
      BY DEF TypeInv, LogOK
    <3>2. LogOK(log')
      BY <2>1, <3>1, LogFieldsOK
    <3>3. log'.recs = log.recs /\ log'.cuts = log.cuts
      BY <2>1, <3>1 DEF Logs
    <3>4. QED BY <3>2, <3>3 DEF EndOffset
  <2>3. ReaderOK(rd, log')
    BY <2>2, LogEnds, ReaderKeeps DEF TypeInv
  <2>4. spent' \in Budgets
    BY <2>1, Spending DEF TypeInv
  <2>5. QED BY <2>1, <2>2, <2>3, <2>4 DEF TypeInv
<1>2. QED BY <1>1, TypeAppendRecord, TypeAppendFails DEF Appends

LEMMA TypeMaintains == ASSUME TypeInv, Maintains PROVE TypeInv'
<1>1. maint # <<>> /\ maint' = Tail(maint)
      /\ UNCHANGED <<host, srv, rd, wire, toHost, cl, got, raced, spent>>
  BY DEF Maintains, Compact, EnforceRetention
<1>2. maint' \in Maintenance /\ Head(maint).seg \in Nat
  <2> DEFINE J == [do : {"compact", "retain"}, seg : Nat]
  <2>1. maint \in Seq(J)
    BY DEF TypeInv, Maintenance
  <2>2. Tail(maint) \in Seq(J) /\ Head(maint) \in J
    <3> HIDE DEF J
    <3>1. QED BY <2>1, <1>1, HeadTailProperties
  <2>3. QED BY <2>2, <1>1 DEF Maintenance
<1>3. LogOK(log') /\ EndOffset(log') = EndOffset(log) /\ log'.cuts = log.cuts
  <2>0. LogOK(log) /\ log \in Logs
    BY DEF TypeInv, LogOK
  <2>1. CASE Compact
    <3>1. log.packed \cup {Head(maint).seg} \in SUBSET Nat
      BY <1>2, <2>0 DEF Logs
    <3>2. log' = log \/ log' = [log EXCEPT !.packed = log.packed \cup {Head(maint).seg}]
      BY <2>1 DEF Compact
    <3> DEFINE S == log.packed \cup {Head(maint).seg}
    <3> HIDE DEF S
    <3>3. LogOK([log EXCEPT !.packed = S])
      BY <3>1, <2>0, LogFieldsOK DEF S
    <3>4. [log EXCEPT !.packed = S].recs = log.recs /\ [log EXCEPT !.packed = S].cuts = log.cuts
      BY <2>0 DEF Logs
    <3>5. QED BY <3>2, <3>3, <3>4, <2>0 DEF EndOffset, S
  <2>2. CASE EnforceRetention
    <3>1. log' = [log EXCEPT !.first = Retained(log)]
      BY <2>2 DEF EnforceRetention
    <3>2. Retained(log) \in log.cuts
      BY <2>0, RetainedOK DEF Segments
    <3>3. QED BY <3>1, <3>2, <2>0, LogFieldsOK DEF EndOffset, Logs
  <2>3. QED BY <2>1, <2>2 DEF Maintains
<1>4. ReaderOK(rd, log')
  BY <1>3, LogEnds, ReaderKeeps DEF TypeInv
<1>5. QED BY <1>1, <1>2, <1>3, <1>4 DEF TypeInv

-----------------------------------------------------------------------------
Connected == LogOK(log) /\ srv \in Subs /\ wire \in Seq(Messages)
Typed(L)  == srv' \in Subs /\ wire' \in Seq(Messages) /\ ReaderOK(rd', L)

LEMMA CatchUpTyped ==
  ASSUME Connected, NEW r, Ready(r, log), CatchUp(srv, r, wire, log)
  PROVE  Typed(log)
BY CatchUpDoes DEF Connected, Typed

LEMMA ReturnTyped ==
  ASSUME Connected, NEW r \in Readers,
         r.acc \subseteq Offsets(log), r.acc # {}, r.found = {},
         r.seg # None => r.seg \in log.cuts /\ r.seg <= r.cur,
         StepReturns(r)
  PROVE  Typed(log)
<1>1. /\ SubAfter(r) \in Subs /\ wire \o Events(r) \in Seq(Messages)
      /\ Ready([r EXCEPT !.acc = {}], log)
      /\ CatchUp(SubAfter(r), [r EXCEPT !.acc = {}], wire \o Events(r), log)
  BY StepReturnsDoes DEF Connected
<1>2. QED BY <1>1, CatchUpDoes DEF Connected, Typed

\* A reader without an open segment, at the end of openSegmentFor.
Resumed(r) == [r EXCEPT !.seg = None, !.cur = Resume(r, log)]

LEMMA ResumedOK ==
  ASSUME LogOK(log), NEW r, HoldsOK(r, log), r.found = {}, OutOfLog(r, log)
  PROVE  /\ Resumed(r) \in Readers /\ Resumed(r).acc = r.acc /\ Resumed(r).found = {}
         /\ Resumed(r).seg = None /\ Resumed(r).cur = Resume(r, log)
         /\ Resumed(r).packed = r.packed
         /\ Resume(r, log) \in Nat
<1>1. Resume(r, log) \in Nat
  BY Resumes
<1>2. r \in Readers
  BY DEF HoldsOK
<1>3. QED BY <1>1, <1>2 DEF Resumed, Readers, None

LEMMA SegmentClosed ==
  ASSUME NEW r, HoldsOK(r, log), r.found = {}, r.acc = {}
  PROVE  LET q == [r EXCEPT !.seg = None]
         IN  Ready(q, log) /\ q.cur = r.cur /\ q.seg = None
<1> DEFINE q == [r EXCEPT !.seg = None]
<1>1. q \in Readers /\ q.acc = r.acc /\ q.found = r.found /\ q.cur = r.cur /\ q.seg = None
  BY DEF HoldsOK, Readers, None
<1> HIDE DEF q
<1>2. Ready(q, log)
  BY <1>1 DEF HoldsOK, Ready
<1>3. QED BY <1>1, <1>2 DEF q

LEMMA OpensOrGapTyped ==
  ASSUME Connected, NEW r, HoldsOK(r, log), r.found = {}, OpensOrGap(r)
  PROVE  Typed(log)
<1>0. LogOK(log) /\ r \in Readers
  BY DEF Connected, HoldsOK
<1>1. CASE ~OutOfLog(r, log)
  <2>1. rd' = Opening(r, log) /\ UNCHANGED <<srv, wire>>
    BY <1>1 DEF OpensOrGap
  <2>2. ReaderOK(Opening(r, log), log)
    BY <1>0, <1>1, OpeningOK
  <2>3. QED BY <2>1, <2>2 DEF Typed, Connected
<1>2. CASE OutOfLog(r, log) /\ r.acc = {}
  <2>1. CatchUp(srv, [r EXCEPT !.seg = None], wire, log)
    BY <1>2 DEF OpensOrGap
  <2>2. QED BY <2>1, <1>2, SegmentClosed, CatchUpTyped
<1>3. CASE OutOfLog(r, log) /\ r.acc # {}
  <2>1. StepReturns(Resumed(r))
    BY <1>3 DEF OpensOrGap, Resumed
  <2>2. /\ Resumed(r) \in Readers /\ Resumed(r).acc = r.acc /\ Resumed(r).found = {}
        /\ Resumed(r).seg = None
    BY <1>0, <1>3, ResumedOK
  <2>3. r.acc \subseteq Offsets(log)
    BY DEF HoldsOK
  <2>4. QED BY <2>1, <2>2, <2>3, <1>3, ReturnTyped
<1>4. QED BY <1>1, <1>2, <1>3

\* A segment's file lies within the log.
LEMMA FileWithin ==
  ASSUME NEW L, LogOK(L), NEW b \in L.cuts, NEW p
  PROVE  /\ SegmentEnd(L, b) \in Nat /\ SegmentEnd(L, b) <= EndOffset(L)
         /\ File(L, b, p) \subseteq Offsets(L)
         /\ \A c \in L.cuts : c > b => SegmentEnd(L, b) <= c
         /\ (\A c \in L.cuts : c <= b) => SegmentEnd(L, b) = EndOffset(L)
<1> DEFINE later == {c \in L.cuts : c > b}
<1>1. EndOffset(L) \in Nat /\ L.cuts \subseteq Nat /\ \A c \in L.cuts : c <= EndOffset(L)
  BY LogEnds DEF LogOK, Logs
<1>2. later # {} => Min(later) \in later /\ \A c \in later : Min(later) <= c
  <2>1. later \subseteq Nat
    BY <1>1
  <2> HIDE DEF later
  <2>2. QED BY <2>1, MinIs
<1>3. SegmentEnd(L, b) = IF later = {} THEN EndOffset(L) ELSE Min(later)
  BY DEF SegmentEnd
<1>4. SegmentEnd(L, b) \in Nat /\ SegmentEnd(L, b) <= EndOffset(L)
  BY <1>1, <1>2, <1>3
<1>5. \A c \in L.cuts : c > b => SegmentEnd(L, b) <= c
  <2> SUFFICES ASSUME NEW c \in L.cuts, c > b PROVE SegmentEnd(L, b) <= c
    OBVIOUS
  <2>1. c \in later
    OBVIOUS
  <2> HIDE DEF later
  <2>2. QED BY <2>1, <1>2, <1>3
<1>6. (\A c \in L.cuts : c <= b) => SegmentEnd(L, b) = EndOffset(L)
  <2> SUFFICES ASSUME \A c \in L.cuts : c <= b PROVE later = {}
    BY <1>3
  <2>1. \A c \in L.cuts : ~(c > b)
    BY <1>1
  <2>2. QED BY <2>1
<1>7. File(L, b, p) \subseteq Offsets(L)
  <2>1. b \in Nat
    BY <1>1
  <2> HIDE DEF later
  <2>2. QED BY <2>1, <1>1, <1>4 DEF File, Offsets
<1>8. QED BY <1>4, <1>5, <1>6, <1>7

LEMMA GreaterOf ==
  ASSUME NEW a \in Nat, NEW b \in Nat
  PROVE  Max({a, b}) = IF b <= a THEN a ELSE b
<1>1. CASE b <= a
  <2>1. a \in {a, b} /\ \A x \in {a, b} : x <= a
    BY <1>1
  <2>2. QED BY <2>1, <1>1, MaxOf
<1>2. CASE ~(b <= a)
  <2>1. b \in {a, b} /\ \A x \in {a, b} : x <= b
    BY <1>2
  <2>2. QED BY <2>1, <1>2, MaxOf
<1>3. QED BY <1>1, <1>2

LEMMA TypeReplays == ASSUME TypeInv, Replays PROVE TypeInv'
<1>0. /\ Connected /\ LogOK(log) /\ ReaderOK(rd, log) /\ HoldsOK(rd, log) /\ rd \in Readers
      /\ log.cuts \subseteq Nat
  BY DEF TypeInv, Connected, ReaderOK, HoldsOK, LogOK, Logs
<1>1. UNCHANGED <<log, maint, host, toHost, cl, got, raced, spent>>
  BY DEF Replays, FileOpened, UseFile, FileGone, FileRead, UseRecords, LeaveSegment,
         NextSegment, EndOfLog, Drained, Unwritten
<1> SUFFICES Typed(log)
  BY <1>1 DEF TypeInv, Typed
<1>2. CASE FileOpened
  <2> DEFINE io == IF rd.tgt \in Segments(log) THEN "opened" ELSE "gone"
             p  == rd.tgt \in log.packed
  <2>1. /\ rd.io = "opening" /\ UNCHANGED <<srv, wire>>
        /\ rd' = [rd EXCEPT !.io = io, !.packed = p]
        /\ io \in {"opened", "gone"} /\ p \in BOOLEAN
    BY <1>2 DEF FileOpened
  <2> HIDE DEF io, p
  <2>2. /\ rd' \in Readers /\ rd'.io \in {"opened", "gone"} /\ rd'.acc = rd.acc
        /\ rd'.found = rd.found /\ rd'.seg = rd.seg /\ rd'.tgt = rd.tgt /\ rd'.cur = rd.cur
    BY <2>1, <1>0 DEF Readers
  <2>3. ReaderOK(rd', log)
    BY <2>1, <2>2, <1>0 DEF ReaderOK, HoldsOK
  <2>4. QED BY <2>1, <2>3, <1>0 DEF Typed, Connected
<1>3. CASE UseFile
  <2>1. rd.io = "opened" /\ UNCHANGED <<srv, wire>> /\ rd' = [rd EXCEPT !.io = "reading", !.seg = rd.tgt]
    BY <1>3 DEF UseFile
  <2>2. rd.tgt \in log.cuts /\ rd.tgt <= rd.cur /\ rd.found = {} /\ rd.tgt # None
    BY <2>1, <1>0 DEF ReaderOK, None
  <2>3. /\ rd' \in Readers /\ rd'.io = "reading" /\ rd'.acc = rd.acc
        /\ rd'.found = rd.found /\ rd'.seg = rd.tgt /\ rd'.cur = rd.cur
    BY <2>1, <2>2, <1>0 DEF Readers
  <2>4. ReaderOK(rd', log)
    BY <2>1, <2>2, <2>3, <1>0 DEF ReaderOK, HoldsOK
  <2>5. QED BY <2>1, <2>4, <1>0 DEF Typed, Connected
<1>4. CASE FileGone
  <2>1. OpensOrGap(rd) /\ rd.io = "gone"
    BY <1>4 DEF FileGone
  <2>2. rd.found = {}
    BY <2>1, <1>0 DEF ReaderOK
  <2>3. QED BY <2>1, <2>2, <1>0, OpensOrGapTyped
<1>5. CASE FileRead
  <2> DEFINE F == {o \in File(log, rd.seg, rd.packed) : o >= rd.cur}
  <2>1. rd.io = "reading" /\ UNCHANGED <<srv, wire>> /\ rd' = [rd EXCEPT !.io = "read", !.found = FirstOf(F)]
    BY <1>5 DEF FileRead
  <2>2. rd.seg \in log.cuts /\ rd.seg # None
    BY <2>1, <1>0 DEF ReaderOK, HoldsOK
  <2>3. F \subseteq Offsets(log)
    BY <2>2, <1>0, FileWithin
  <2> HIDE DEF F
  <2>4. IsFiniteSet(F) /\ F \subseteq Nat
    BY <2>3, <1>0, OffsetsFinite
  <2>5. FirstOf(F) \subseteq F /\ Cardinality(FirstOf(F)) <= ReplayChunk
    BY <2>4, FirstOfIs
  <2>6. /\ FirstOf(F) \subseteq Offsets(log) /\ FirstOf(F) \in SUBSET Nat
        /\ \A o \in FirstOf(F) : rd.cur <= o
    <3>1. \A o \in F : o \in Nat /\ o >= rd.cur
      BY <2>4 DEF F
    <3>2. QED BY <2>3, <2>4, <2>5, <3>1
  <2>7. /\ rd' \in Readers /\ rd'.io = "read" /\ rd'.acc = rd.acc
        /\ rd'.found = FirstOf(F) /\ rd'.seg = rd.seg /\ rd'.cur = rd.cur
    BY <2>1, <2>6, <1>0 DEF Readers
  <2>8. ReaderOK(rd', log)
    BY <2>2, <2>5, <2>6, <2>7, <1>0 DEF ReaderOK, HoldsOK
  <2>9. QED BY <2>1, <2>8, <1>0 DEF Typed, Connected
<1>6. CASE UseRecords
  <2> DEFINE r == [rd EXCEPT !.acc = rd.acc \cup rd.found, !.cur = Max(rd.found) + 1,
                             !.found = {}]
  <2>1. /\ rd.io = "read" /\ rd.found # {}
        /\ IF Cardinality(r.acc) < ReplayChunk
           THEN rd' = [r EXCEPT !.io = "reading"] /\ UNCHANGED <<srv, wire>>
           ELSE StepReturns(r)
    BY <1>6 DEF UseRecords
  <2>2. IsFiniteSet(rd.found) /\ rd.found \subseteq Int /\ rd.found \subseteq Nat
    BY <1>0, OffsetsFinite DEF HoldsOK
  <2>3. Max(rd.found) \in rd.found /\ Max(rd.found) \in Nat
    BY <2>1, <2>2, MaxIs
  <2>4. /\ r \in Readers /\ r.acc = rd.acc \cup rd.found /\ r.found = {} /\ r.seg = rd.seg
        /\ r.cur = Max(rd.found) + 1 /\ r.io = "read"
    <3> DEFINE A == rd.acc \cup rd.found
               c == Max(rd.found) + 1
    <3>1. A \in SUBSET Nat /\ c \in Nat /\ r = [rd EXCEPT !.acc = A, !.cur = c, !.found = {}]
      BY <2>2, <2>3, <1>0 DEF Readers
    <3> HIDE DEF A, c, r
    <3>2. r \in Readers /\ r.acc = A /\ r.found = {} /\ r.seg = rd.seg /\ r.cur = c /\ r.io = "read"
      BY <3>1, <2>1, <1>0 DEF Readers
    <3>3. QED BY <3>2 DEF A, c
  <2>5. r.acc \subseteq Offsets(log) /\ r.acc # {}
    BY <2>1, <2>4, <1>0 DEF HoldsOK
  <2>6. rd.seg # None /\ rd.seg \in log.cuts /\ rd.seg <= r.cur
    <3>1. /\ rd.seg # None /\ rd.seg \in log.cuts /\ rd.seg <= rd.cur /\ rd.seg \in Nat
          /\ rd.cur <= Max(rd.found) /\ rd.cur \in Nat
      BY <2>1, <2>3, <1>0 DEF ReaderOK, HoldsOK, Readers
    <3>2. QED BY <3>1, <2>3, <2>4
  <2> HIDE DEF r
  <2>7. CASE Cardinality(r.acc) < ReplayChunk
    <3>1. rd' = [r EXCEPT !.io = "reading"] /\ UNCHANGED <<srv, wire>>
      BY <2>1, <2>7
    <3>2. /\ rd' \in Readers /\ rd'.io = "reading" /\ rd'.acc = r.acc /\ rd'.found = {}
          /\ rd'.seg = rd.seg /\ rd'.cur = r.cur
      BY <3>1, <2>4 DEF Readers
    <3>3. Cardinality(rd'.found) <= ReplayChunk
      BY <3>2, FS_EmptySet, ParametersAssumption
    <3>4. ReaderOK(rd', log)
      BY <3>2, <3>3, <2>5, <2>6, <2>7 DEF ReaderOK, HoldsOK
    <3>5. QED BY <3>1, <3>4, <1>0 DEF Typed, Connected
  <2>8. CASE ~(Cardinality(r.acc) < ReplayChunk)
    <3>1. StepReturns(r)
      BY <2>1, <2>8
    <3>2. QED BY <3>1, <2>4, <2>5, <2>6, <1>0, ReturnTyped
  <2>9. QED BY <2>7, <2>8
<1>7. CASE LeaveSegment
  <2> DEFINE t == Min(Following)
  <2>1. /\ rd.io = "read" /\ rd.found = {} /\ Following # {} /\ UNCHANGED <<srv, wire>>
        /\ rd' = [rd EXCEPT !.io = "closing", !.seg = None, !.tgt = t]
    BY <1>7 DEF LeaveSegment
  <2>2. Following \subseteq log.cuts
    BY DEF Following, Segments
  <2>3. t \in log.cuts /\ t \in Nat
    BY <2>1, <2>2, <1>0, MinIs
  <2> HIDE DEF t
  <2>4. /\ rd' \in Readers /\ rd'.io = "closing" /\ rd'.acc = rd.acc
        /\ rd'.found = rd.found /\ rd'.seg = None /\ rd'.tgt = t /\ rd'.cur = rd.cur
    BY <2>1, <2>3, <1>0 DEF Readers, None
  <2>5. ReaderOK(rd', log)
    BY <2>1, <2>3, <2>4, <1>0 DEF ReaderOK, HoldsOK
  <2>6. QED BY <2>1, <2>5, <1>0 DEF Typed, Connected
<1>8. CASE NextSegment
  <2> DEFINE c == Max({rd.cur, rd.tgt})
             r == [rd EXCEPT !.cur = c]
  <2>1. rd.io = "closing" /\ OpensOrGap(r)
    BY <1>8 DEF NextSegment
  <2>2. rd.tgt \in log.cuts /\ rd.seg = None /\ rd.found = {}
    BY <2>1, <1>0 DEF ReaderOK
  <2>3. c \in Nat
    <3>1. rd.cur \in Nat /\ rd.tgt \in Nat
      BY <2>2, <1>0 DEF Readers
    <3>2. QED BY <3>1, GreaterOf
  <2> HIDE DEF c
  <2>4. /\ r \in Readers /\ r.acc = rd.acc /\ r.found = {} /\ r.seg = None
    BY <2>2, <2>3, <1>0 DEF Readers
  <2> HIDE DEF r
  <2>5. HoldsOK(r, log)
    BY <2>2, <2>4, <1>0 DEF HoldsOK
  <2>6. QED BY <2>1, <2>4, <2>5, <1>0, OpensOrGapTyped
<1>9. CASE EndOfLog
  <2>1. rd.io = "read" /\ rd.found = {}
    BY <1>9 DEF EndOfLog
  <2>2. CASE rd.acc # {} /\ StepReturns(rd)
    <3>1. /\ rd.acc \subseteq Offsets(log)
          /\ rd.seg # None => rd.seg \in log.cuts /\ rd.seg <= rd.cur
      BY <1>0 DEF HoldsOK
    <3>2. QED BY <3>1, <2>1, <2>2, <1>0, ReturnTyped
  <2>3. CASE /\ rd.acc = {} /\ rd' = NoReader
             /\ srv' = [srv EXCEPT !.mode = "live", !.cur = rd.cur, !.told = TRUE]
             /\ wire' = IF srv.told THEN wire ELSE Append(wire, Notice("caught_up", srv.id))
    <3>1. srv.id \in Nat /\ rd.cur \in Nat /\ srv \in Subs /\ wire \in Seq(Messages)
      BY <1>0 DEF Connected, Subs, Readers
    <3>2. srv' \in Subs
      BY <3>1, <2>3 DEF Subs
    <3>3. Notice("caught_up", srv.id) \in Messages
      BY <3>1 DEF Notice, Messages
    <3>4. wire' \in Seq(Messages)
      BY <3>1, <3>3, <2>3, AppendProperties
    <3>5. QED BY <3>2, <3>4, <2>3, NoReaderOK DEF Typed
  <2>4. CASE rd.acc = {} /\ CatchUp(srv, rd, wire, log)
    <3>1. Ready(rd, log)
      BY <2>1, <2>4, <1>0 DEF Ready
    <3>2. QED BY <3>1, <2>4, <1>0, CatchUpTyped
  <2>5. QED BY <1>9, <2>2, <2>3, <2>4 DEF EndOfLog
<1>10. CASE Drained
  <2>1. rd.io = "drain" /\ CatchUp(srv, rd, wire, log)
    BY <1>10 DEF Drained
  <2>2. Ready(rd, log)
    BY <2>1, <1>0 DEF Ready, ReaderOK
  <2>3. QED BY <2>1, <2>2, <1>0, CatchUpTyped
<1>11. QED BY <1>2, <1>3, <1>4, <1>5, <1>6, <1>7, <1>8, <1>9, <1>10 DEF Replays

-----------------------------------------------------------------------------
\* A queue without its head, and with one more at its end.
LEMMA TailOK ==
  ASSUME NEW S, NEW q \in Seq(S), q # <<>>
  PROVE  Head(q) \in S /\ Tail(q) \in Seq(S) /\ Len(q) \in Nat \ {0} /\ Len(Tail(q)) = Len(q) - 1
         /\ Head(q) = q[1] /\ \A i \in 1 .. Len(q) - 1 : Tail(q)[i] = q[i + 1]
BY HeadTailProperties, EmptySeq

LEMMA TypeServes == ASSUME TypeInv, LiveInv, Serves PROVE TypeInv'
<1>0. /\ Connected /\ LogOK(log) /\ srv \in Subs /\ wire \in Seq(Messages) /\ toHost \in Seq(Requests)
      /\ log.first \in Nat /\ log.inc \in Nat /\ ReaderOK(rd, log)
  BY LogEnds DEF TypeInv, Connected, LogOK, Logs
<1>1. /\ UNCHANGED <<log, maint, host, cl, got, raced, spent>>
      /\ toHost # <<>> /\ toHost' = Tail(toHost)
  BY DEF Serves, HandleSubscribe, HandleUnsubscribe, UnlessRead
<1>2. toHost' \in Seq(Requests) /\ Head(toHost) \in Requests
  BY <1>0, <1>1, TailOK
<1> SUFFICES Typed(log)
  BY <1>1, <1>2 DEF TypeInv, Typed
<1>3. CASE HandleSubscribe
  <2> DEFINE m == Head(toHost)
             from == IF IsReset(m) THEN log.first ELSE m.from
             s == [mode |-> "catchup", cur |-> from, id |-> m.id, told |-> FALSE]
             a == Response(m.id, log.first, log.inc, IsReset(m))
             w == Append(wire, a)
  <2>1. m.op = "subscribe" /\ m \in Requests
    BY <1>3, <1>2 DEF HandleSubscribe
  <2>2. m.id \in Nat /\ m.from \in Nat
    BY <2>1 DEF Requests
  <2>3. from \in Nat
    BY <2>2, <1>0
  <2>4. CASE host.known
    <3>1. CatchUp(s, ReaderAt(from), w, log)
      BY <1>3, <2>4 DEF HandleSubscribe
    <3>2. s \in Subs
      <4> HIDE DEF from, m
      <4>1. QED BY <2>2, <2>3 DEF Subs
    <3>3. Ready(ReaderAt(from), log)
      BY <2>3, ReaderAtReady
    <3>4. a \in Messages
      <4>1. IsReset(m) \in BOOLEAN
        BY DEF IsReset
      <4>2. QED BY <4>1, <2>2, <1>0 DEF Response, Messages
    <3> HIDE DEF a, s, from
    <3>5. w \in Seq(Messages)
      BY <3>4, <1>0, AppendProperties
    <3> HIDE DEF w
    <3>6. QED BY <3>1, <3>2, <3>3, <3>5, <1>0, CatchUpDoes DEF Typed
  <2>5. CASE ~host.known
    <3>1. wire' = Append(wire, Notice("unknown_agent", m.id)) /\ UNCHANGED <<srv, rd>>
      BY <1>3, <2>5 DEF HandleSubscribe
    <3>2. Notice("unknown_agent", m.id) \in Messages
      BY <2>2 DEF Notice, Messages
    <3>3. wire' \in Seq(Messages)
      BY <3>1, <3>2, <1>0, AppendProperties
    <3>4. QED BY <3>1, <3>3, <1>0 DEF Typed
  <2>6. QED BY <2>4, <2>5
<1>4. CASE HandleUnsubscribe
  <2>1. srv' = NoSubscription /\ rd' = NoReader /\ UNCHANGED wire
    BY <1>4 DEF HandleUnsubscribe
  <2>2. QED BY <2>1, <1>0, NoReaderOK DEF Typed
<1>5. QED BY <1>3, <1>4 DEF Serves

LEMMA TypeLives == ASSUME TypeInv, LiveInv, Lives PROVE TypeInv'
<1>0. /\ LogOK(log) /\ srv \in Subs /\ wire \in Seq(Messages)
      /\ log.inc \in Nat /\ ReaderOK(rd, log) /\ host \in Hosts
  BY DEF TypeInv, LogOK, Logs
<1>1. CASE RemoveAgent
  <2>1. /\ host' = [host EXCEPT !.known = FALSE, !.removing = TRUE]
        /\ srv' = NoSubscription /\ rd' = NoReader /\ Spend("removals")
        /\ wire' = IF srv.mode = "closed" THEN wire
                   ELSE Append(wire, Notice("stream_closed", srv.id))
        /\ UNCHANGED <<log, maint, toHost, cl, got, raced>>
    BY <1>1 DEF RemoveAgent
  <2>2. Notice("stream_closed", srv.id) \in Messages
    BY <1>0 DEF Notice, Messages, Subs
  <2>3. wire' \in Seq(Messages)
    BY <2>1, <2>2, <1>0, AppendProperties
  <2>4. host' \in Hosts /\ spent' \in Budgets
    BY <2>1, HostUpdates, Spending DEF TypeInv
  <2>5. QED BY <2>1, <2>3, <2>4, NoReaderOK DEF TypeInv
<1>2. CASE Destroyed
  <2>1. /\ host.removing /\ log' = NewLog(log.inc + 1) /\ host' = [host EXCEPT !.removing = FALSE]
        /\ UNCHANGED <<maint, srv, rd, wire, toHost, cl, got, raced, spent>>
    BY <1>2 DEF Destroyed
  <2>2. rd.io = "none"
    BY <2>1 DEF LiveInv, OnlyKnownServed, ReadsToCatchUp
  <2>3. rd = NoReader
    BY <2>2, <1>0 DEF ReaderOK
  <2>4. LogOK(log') /\ host' \in Hosts
    BY <2>1, <1>0, NewLogOK, HostUpdates
  <2>5. QED BY <2>1, <2>3, <2>4, NoReaderOK DEF TypeInv
<1>3. CASE SpawnAgent
  <2>1. /\ ~host.known /\ host' = [host EXCEPT !.known = TRUE, !.life = @ + 1]
        /\ log' = [log EXCEPT !.inc = IF log.named THEN @ ELSE @ + 1, !.named = TRUE,
                              !.torn = FALSE, !.failed = FALSE]
        /\ UNCHANGED <<maint, srv, rd, wire, toHost, cl, got, raced, spent>>
    BY <1>3 DEF SpawnAgent
  <2>2. rd.io = "none"
    BY <2>1 DEF LiveInv, OnlyKnownServed, ReadsToCatchUp
  <2>3. rd = NoReader
    BY <2>2, <1>0 DEF ReaderOK
  <2>4. LogOK(log')
    <3> DEFINE i == IF log.named THEN log.inc ELSE log.inc + 1
    <3>1. i \in Nat /\ log' = [log EXCEPT !.inc = i, !.named = TRUE, !.torn = FALSE, !.failed = FALSE]
      BY <2>1, <1>0
    <3> HIDE DEF i
    <3>2. QED BY <3>1, <1>0, LogFieldsOK
  <2>5. host' \in Hosts
    BY <2>1, <1>0, HostUpdates
  <2>6. QED BY <2>1, <2>3, <2>4, <2>5, NoReaderOK DEF TypeInv
<1>4. QED BY <1>1, <1>2, <1>3 DEF Lives

\* A subscription is sent with the next id.
SentBy(c) == [c EXCEPT !.sub = c.ids + 1, !.ids = c.ids + 1, !.wait = TRUE]
SubscribeOf(c) == [op |-> "subscribe", id |-> c.ids + 1, from |-> c.next, inc |-> c.inc]

LEMMA Sending ==
  ASSUME NEW c \in Clients, toHost \in Seq(Requests), SendSubscribe(c)
  PROVE  /\ cl' = SentBy(c) /\ cl' \in Clients
         /\ toHost' = Append(toHost, SubscribeOf(c)) /\ toHost' \in Seq(Requests)
         /\ SubscribeOf(c) \in Requests
         /\ cl'.on = c.on /\ cl'.next = c.next /\ cl'.seq = c.seq /\ cl'.inc = c.inc
         /\ cl'.sub = c.ids + 1 /\ cl'.ids = c.ids + 1 /\ cl'.wait = TRUE /\ cl'.up = c.up
<1>1. cl' = SentBy(c) /\ toHost' = Append(toHost, SubscribeOf(c))
  BY DEF SendSubscribe, SentBy, SubscribeOf
<1>2. c.ids + 1 \in Nat /\ c.next \in Nat /\ c.inc \in Nat \cup {None}
  BY DEF Clients
<1>3. SubscribeOf(c) \in Requests
  BY <1>2 DEF SubscribeOf, Requests
<1>4. toHost' \in Seq(Requests)
  BY <1>1, <1>3, AppendProperties
<1>5. /\ cl' \in Clients
      /\ cl'.on = c.on /\ cl'.next = c.next /\ cl'.seq = c.seq /\ cl'.inc = c.inc
      /\ cl'.sub = c.ids + 1 /\ cl'.ids = c.ids + 1 /\ cl'.wait = TRUE /\ cl'.up = c.up
  BY <1>1, <1>2 DEF SentBy, Clients
<1>6. QED BY <1>1, <1>3, <1>4, <1>5

LEMMA Connecting ==
  ASSUME cl \in Clients
  PROVE  LET c == [cl EXCEPT !.up = TRUE]
         IN  /\ c \in Clients /\ c.up /\ c.on = cl.on /\ c.next = cl.next /\ c.seq = cl.seq
             /\ c.inc = cl.inc /\ c.sub = cl.sub /\ c.ids = cl.ids /\ c.wait = cl.wait
BY DEF Clients

\* A subscription that starts from n.
Fresh(n) == [cl EXCEPT !.on = TRUE, !.next = n, !.seq = -1, !.inc = None, !.sub = 0, !.wait = FALSE]

LEMMA Subscribing ==
  ASSUME cl \in Clients, NEW n \in Nat
  PROVE  /\ Fresh(n) \in Clients /\ Fresh(n).up = cl.up /\ Fresh(n).on /\ Fresh(n).next = n
         /\ Fresh(n).seq = -1 /\ Fresh(n).inc = None /\ Fresh(n).sub = 0
         /\ Fresh(n).ids = cl.ids /\ ~Fresh(n).wait
BY DEF Clients, Fresh, None

LEMMA SubscribeDoes ==
  ASSUME cl \in Clients, LogOK(log), Subscribe
  PROVE  /\ Spend("subs") /\ UNCHANGED <<log, maint, host, srv, rd, wire, got, raced>>
         /\ \E n \in Starts : /\ n \in Nat
                              /\ \/ cl.up /\ SendSubscribe(Fresh(n))
                                 \/ ~cl.up /\ cl' = Fresh(n) /\ UNCHANGED toHost
<1>1. PICK n \in Starts : IF cl.up THEN SendSubscribe(Fresh(n)) ELSE cl' = Fresh(n) /\ UNCHANGED toHost
  BY DEF Subscribe, Fresh
<1>2. n \in Nat
  BY LogEnds DEF Starts
<1>3. n \in Nat /\ \/ cl.up /\ SendSubscribe(Fresh(n))
                   \/ ~cl.up /\ cl' = Fresh(n) /\ UNCHANGED toHost
  BY <1>1, <1>2
<1>4. Spend("subs") /\ UNCHANGED <<log, maint, host, srv, rd, wire, got, raced>>
  BY DEF Subscribe
<1>5. QED BY <1>3, <1>4

\* The client gives its subscription up.
Quit == [cl EXCEPT !.on = FALSE, !.wait = FALSE]

LEMMA Quitting ==
  ASSUME cl \in Clients
  PROVE  /\ Quit \in Clients /\ ~Quit.on /\ ~Quit.wait /\ Quit.up = cl.up
         /\ Quit.next = cl.next /\ Quit.seq = cl.seq /\ Quit.inc = cl.inc
         /\ Quit.sub = cl.sub /\ Quit.ids = cl.ids
BY DEF Clients, Quit

LEMMA TypeConsumes == ASSUME TypeInv, Consumes PROVE TypeInv'
<1>0. /\ LogOK(log) /\ cl \in Clients /\ toHost \in Seq(Requests) /\ spent \in Budgets
      /\ ReaderOK(rd, log)
  BY DEF TypeInv
<1>1. UNCHANGED <<log, maint, host, srv, rd, wire, got, raced>>
  BY DEF Consumes, Connect, Subscribe, Unsubscribe, SubscribeTimesOut
<1>2. UNCHANGED spent \/ Spend("subs") \/ Spend("drops")
  BY DEF Consumes, Connect, Subscribe, Unsubscribe, SubscribeTimesOut
<1>3. spent' \in Budgets
  BY <1>0, <1>2, Spending
<1>4. cl' \in Clients /\ toHost' \in Seq(Requests)
  <2>1. CASE Connect
    <3> DEFINE c == [cl EXCEPT !.up = TRUE]
    <3>1. SendSubscribe(c) \/ (cl' = c /\ UNCHANGED toHost)
      BY <2>1 DEF Connect
    <3>2. c \in Clients
      BY <1>0, Connecting
    <3> HIDE DEF c
    <3>3. QED BY <3>1, <3>2, <1>0, Sending
  <2>2. CASE Subscribe
    <3>1. PICK n \in Starts : /\ n \in Nat
                              /\ \/ cl.up /\ SendSubscribe(Fresh(n))
                                 \/ ~cl.up /\ cl' = Fresh(n) /\ UNCHANGED toHost
      BY <2>2, <1>0, SubscribeDoes
    <3>2. Fresh(n) \in Clients
      BY <3>1, <1>0, Subscribing
    <3>3. QED BY <3>1, <3>2, <1>0, Sending
  <2>3. CASE Unsubscribe
    <3>1. cl' = Quit /\ (UNCHANGED toHost \/ toHost' = Append(toHost, [op |-> "unsubscribe"]))
      BY <2>3 DEF Unsubscribe, Quit
    <3>2. [op |-> "unsubscribe"] \in Requests
      BY DEF Requests
    <3>3. QED BY <3>1, <3>2, <1>0, Quitting, AppendProperties
  <2>4. CASE SubscribeTimesOut
    <3>1. cl' = Quit /\ UNCHANGED toHost
      BY <2>4 DEF SubscribeTimesOut, Quit
    <3>2. QED BY <3>1, <1>0, Quitting
  <2>5. QED BY <2>1, <2>2, <2>3, <2>4 DEF Consumes
<1>5. QED BY <1>0, <1>1, <1>3, <1>4 DEF TypeInv

\* What each kind of message carries.
LEMMA MessageFields ==
  ASSUME NEW m \in Messages
  PROVE  /\ m.sub \in Nat
         /\ m.type \in {"event", "replay_gap", "ok", "unknown_agent", "caught_up", "stream_closed"}
         /\ m.type = "event" => m.inc \in Nat /\ m.off \in Nat /\ m.rec.id \in Nat
         /\ m.type = "replay_gap" => m.to \in Nat /\ m.ahead \in BOOLEAN
         /\ m.type = "ok" => m.first \in Nat /\ m.inc \in Nat /\ m.reset \in BOOLEAN
<1>1. CASE m \in [type : {"event"}, sub : Nat, inc : Nat, off : Nat, rec : Records]
  BY <1>1 DEF Records
<1>2. CASE m \in [type : {"replay_gap"}, sub : Nat, to : Nat, ahead : BOOLEAN]
  BY <1>2
<1>3. CASE m \in [type : {"ok"}, sub : Nat, first : Nat, inc : Nat, reset : BOOLEAN]
  BY <1>3
<1>4. CASE m \in [type : {"unknown_agent", "caught_up", "stream_closed"}, sub : Nat]
  BY <1>4
<1>5. QED BY <1>1, <1>2, <1>3, <1>4 DEF Messages

LEMMA TypeReceives == ASSUME TypeInv, Receives PROVE TypeInv'
<1> DEFINE m == Head(wire)
<1>0. /\ LogOK(log) /\ cl \in Clients /\ wire \in Seq(Messages) /\ ReaderOK(rd, log)
      /\ got \in [id : Nat, inc : Nat \cup {None}]
  BY DEF TypeInv
<1>1. UNCHANGED <<log, maint, host, srv, rd, toHost, raced, spent>>
  BY DEF Receives, OnResponse, OnRefused, OnEvent, OnGap, OnCaughtUp, OnStreamClosed,
         UnlessClient
<1>2. wire # <<>> /\ wire' = Tail(wire)
  BY DEF Receives, OnResponse, OnRefused, OnEvent, OnGap, OnCaughtUp, OnStreamClosed, Reads
<1>3. wire' \in Seq(Messages) /\ m \in Messages
  BY <1>0, <1>2, TailOK
<1>4. cl' \in Clients /\ got' \in [id : Nat, inc : Nat \cup {None}]
  <2>1. CASE OnResponse
    <3>1. m.type = "ok" /\ UNCHANGED got /\ (cl' = cl \/ cl' = Answered(cl, m))
      BY <2>1 DEF OnResponse, Reads
    <3>2. m.first \in Nat /\ m.inc \in Nat
      BY <3>1, <1>3, MessageFields
    <3> HIDE DEF m
    <3>3. Answered(cl, m) \in Clients
      BY <3>2, <1>0 DEF Answered, Clients
    <3>4. QED BY <3>1, <3>3, <1>0
  <2>2. CASE OnRefused \/ OnStreamClosed
    <3>1. UNCHANGED got /\ (cl' = cl \/ cl' = Quit)
      BY <2>2 DEF OnRefused, OnStreamClosed, Quit
    <3>2. QED BY <3>1, <1>0, Quitting
  <2>3. CASE OnEvent
    <3>1. /\ m.type = "event"
          /\ \/ UNCHANGED <<cl, got>>
             \/ /\ cl' = [cl EXCEPT !.next = m.off + 1, !.seq = m.off, !.inc = m.inc]
                /\ got' = [id |-> m.rec.id, inc |-> m.inc]
      BY <2>3 DEF OnEvent, Reads
    <3>2. m.inc \in Nat /\ m.off \in Nat /\ m.rec.id \in Nat /\ m.off + 1 \in Nat
      BY <3>1, <1>3, MessageFields
    <3> HIDE DEF m
    <3>3. [cl EXCEPT !.next = m.off + 1, !.seq = m.off, !.inc = m.inc] \in Clients
      BY <3>2, <1>0 DEF Clients
    <3>4. QED BY <3>1, <3>2, <3>3, <1>0
  <2>4. CASE OnGap
    <3>1. m.type = "replay_gap" /\ UNCHANGED got /\ (cl' = cl \/ cl' = Moved(cl, m))
      BY <2>4 DEF OnGap, Reads
    <3>2. m.to \in Nat /\ m.ahead \in BOOLEAN
      BY <3>1, <1>3, MessageFields
    <3> HIDE DEF m
    <3>3. Moved(cl, m) \in Clients
      BY <3>2, <1>0 DEF Moved, Clients
    <3>4. QED BY <3>1, <3>3, <1>0
  <2>5. CASE OnCaughtUp
    BY <2>5, <1>0 DEF OnCaughtUp
  <2>6. QED BY <2>1, <2>2, <2>3, <2>4, <2>5 DEF Receives
<1>5. QED BY <1>0, <1>1, <1>3, <1>4 DEF TypeInv

\* Losing the connection, and coming back with a cursor.
LEMMA Losing ==
  ASSUME cl \in Clients
  PROVE  /\ Lost(cl) \in Clients /\ ~Lost(cl).up /\ ~Lost(cl).wait /\ Lost(cl).on = cl.on
         /\ Lost(cl).next = cl.next /\ Lost(cl).seq = cl.seq /\ Lost(cl).inc = cl.inc
         /\ Lost(cl).sub = cl.sub /\ Lost(cl).ids = cl.ids
         /\ \A n \in Nat :
              /\ Kept(cl, n) \in Clients /\ ~Kept(cl, n).up /\ ~Kept(cl, n).wait
              /\ Kept(cl, n).on /\ Kept(cl, n).next = n /\ Kept(cl, n).seq = n - 1
              /\ Kept(cl, n).inc = cl.inc /\ Kept(cl, n).sub = 0 /\ Kept(cl, n).ids = cl.ids
<1>1. /\ Lost(cl) \in Clients /\ ~Lost(cl).up /\ ~Lost(cl).wait /\ Lost(cl).on = cl.on
      /\ Lost(cl).next = cl.next /\ Lost(cl).seq = cl.seq /\ Lost(cl).inc = cl.inc
      /\ Lost(cl).sub = cl.sub /\ Lost(cl).ids = cl.ids
  BY DEF Lost, Clients
<1>2. ASSUME NEW n \in Nat
      PROVE  /\ Kept(cl, n) \in Clients /\ ~Kept(cl, n).up /\ ~Kept(cl, n).wait
             /\ Kept(cl, n).on /\ Kept(cl, n).next = n /\ Kept(cl, n).seq = n - 1
             /\ Kept(cl, n).inc = cl.inc /\ Kept(cl, n).sub = 0 /\ Kept(cl, n).ids = cl.ids
  <2> DEFINE c == Lost(cl)
  <2> HIDE DEF c
  <2>1. c \in Clients /\ n - 1 \in Nat \cup {-1}
    BY <1>1 DEF c
  <2>2. Kept(cl, n) = [c EXCEPT !.on = TRUE, !.next = n, !.seq = n - 1, !.sub = 0]
    BY DEF Kept, c
  <2>3. ~c.up /\ ~c.wait /\ c.inc = cl.inc /\ c.ids = cl.ids
    BY <1>1 DEF c
  <2> DEFINE k == Kept(cl, n)
             q == n - 1
  <2>6. q \in Nat \cup {-1} /\ k = [c EXCEPT !.on = TRUE, !.next = n, !.seq = q, !.sub = 0]
    BY <2>1, <2>2
  <2> HIDE DEF k, q
  <2>4. /\ k \in Clients /\ k.up = c.up /\ k.wait = c.wait /\ k.on /\ k.next = n
        /\ k.seq = q /\ k.inc = c.inc /\ k.sub = 0 /\ k.ids = c.ids
    BY <2>1, <2>6 DEF Clients
  <2>5. QED BY <2>3, <2>4 DEF k, q
<1>3. QED BY <1>1, <1>2

LEMMA TypeFails == ASSUME TypeInv, Fails PROVE TypeInv'
<1>0. /\ LogOK(log) /\ log \in Logs /\ log.inc \in Nat /\ cl \in Clients /\ host \in Hosts
      /\ ReaderOK(rd, log) /\ spent \in Budgets
  BY DEF TypeInv, LogOK, Logs
<1>1. CASE Disconnected
  <2>1. srv' = NoSubscription /\ rd' = NoReader /\ wire' = <<>> /\ toHost' = <<>>
    BY <1>1 DEF Disconnected
  <2>2. \A L : Typed(L) /\ toHost' \in Seq(Requests)
    BY <2>1, NoReaderOK, EmptySeq DEF Typed
  <2>3. /\ UNCHANGED <<got, raced>> /\ spent' \in Budgets
    <3>1. UNCHANGED <<got, raced>> /\ (UNCHANGED spent \/ Spend("drops") \/ Spend("subs")
                                       \/ Spend("crashes") \/ Spend("losses"))
      BY DEF Fails, Drop, RelayRestart, HostCrash, MachineCrash, HostRestart
    <3>2. QED BY <3>1, <1>0, Spending
  <2>4. maint' \in Maintenance
    <3>1. UNCHANGED maint \/ maint' = <<>>
      BY DEF Fails, Drop, RelayRestart, HostCrash, MachineCrash, HostRestart
    <3>2. QED BY <3>1, EmptySeq DEF Maintenance, TypeInv
  <2>5. host' \in Hosts
    <3>1. \/ UNCHANGED host \/ host' = [host EXCEPT !.up = FALSE, !.removing = FALSE]
          \/ host' = [host EXCEPT !.up = FALSE] \/ host' = [host EXCEPT !.up = TRUE]
      BY DEF Fails, Drop, RelayRestart, HostCrash, MachineCrash, HostRestart
    <3>2. QED BY <3>1, <1>0, HostUpdates
  <2>6. cl' \in Clients
    <3>1. cl' = cl \/ cl' = Lost(cl) \/ \E n \in 0 .. cl.next : cl' = Kept(cl, n)
      BY DEF Fails, Drop, RelayRestart, HostCrash, MachineCrash, HostRestart
    <3>2. cl.next \in Nat
      BY <1>0 DEF Clients
    <3>3. QED BY <3>1, <3>2, <1>0, Losing
  <2>7. LogOK(log')
    <3>1. CASE Drop \/ RelayRestart
      BY <3>1, <1>0 DEF Drop, RelayRestart
    <3>2. CASE HostCrash
      <4>1. log' \in HalfDeleted \cup {log, [log EXCEPT !.torn = TRUE]}
        BY <3>2 DEF HostCrash
      <4>2. \A n \in BOOLEAN : LogOK([log EXCEPT !.named = n]) /\ LogOK([log EXCEPT !.torn = n])
        BY <1>0, LogFieldsOK
      <4>3. \A n \in BOOLEAN : LogOK([NewLog(log.inc) EXCEPT !.named = n])
        <5>1. LogOK(NewLog(log.inc))
          BY <1>0, NewLogOK
        <5>2. QED BY <5>1, LogFieldsOK
      <4>4. QED BY <4>1, <4>2, <4>3, <1>0 DEF HalfDeleted
    <3>3. CASE MachineCrash
      <4>1. PICK k \in Active(log) .. EndOffset(log) : log' = [log EXCEPT !.recs = SubSeq(log.recs, 1, k)]
        BY <3>3 DEF MachineCrash
      <4>2. /\ k \in Nat /\ k <= EndOffset(log) /\ Active(log) <= k /\ EndOffset(log) \in Nat
            /\ log.recs \in Seq(Records) /\ Active(log) \in Nat
        BY <1>0, LogEnds
      <4> DEFINE q == SubSeq(log.recs, 1, k)
      <4>3. q \in Seq(Records) /\ Len(q) = k
        <5>1. \A i \in 1 .. k : log.recs[i] \in Records
          BY <4>2, ElementOfSeq DEF EndOffset
        <5>2. q \in Seq(Records) /\ Len(q) = IF 1 <= k THEN k - 1 + 1 ELSE 0
          BY <4>2, <5>1, SubSeqProperties
        <5>3. QED BY <5>2, <4>2
      <4> HIDE DEF q
      <4>4. log' \in Logs /\ log'.recs = q /\ log'.cuts = log.cuts /\ log'.first = log.first
        BY <4>1, <4>3, <1>0 DEF Logs, q
      <4>5. \A c \in log.cuts : c \in Nat /\ c <= Active(log)
        BY <1>0, LogEnds
      <4>6. \A c \in log'.cuts : c <= k
        BY <4>2, <4>4, <4>5
      <4>7. EndOffset(log') = k
        BY <4>3, <4>4 DEF EndOffset
      <4>8. QED BY <4>4, <4>6, <4>7, <1>0 DEF LogOK
    <3>4. CASE HostRestart
      <4>1. log' = log \/ log' = [log EXCEPT !.torn = FALSE, !.failed = FALSE]
        BY <3>4 DEF HostRestart, Reopened
      <4>2. QED BY <4>1, <1>0, LogFieldsOK
    <3>5. QED BY <3>1, <3>2, <3>3, <3>4 DEF Fails
  <2>8. QED BY <2>2, <2>3, <2>4, <2>5, <2>6, <2>7 DEF TypeInv, Typed
<1>2. CASE HostRestart
  <2>1. /\ host' = [host EXCEPT !.up = TRUE]
        /\ log' = log \/ log' = [log EXCEPT !.torn = FALSE, !.failed = FALSE]
        /\ UNCHANGED <<maint, srv, rd, wire, toHost, cl, got, raced, spent>>
    BY <1>2 DEF HostRestart, Reopened
  <2>2. LogOK(log')
    BY <2>1, <1>0, LogFieldsOK
  <2>3. log'.recs = log.recs /\ log'.cuts = log.cuts
    BY <2>1, <1>0 DEF Logs
  <2>4. EndOffset(log') = EndOffset(log) /\ EndOffset(log) \in Nat
    BY <2>3, <1>0, LogEnds DEF EndOffset
  <2>5. ReaderOK(rd, log')
    BY <2>3, <2>4, <1>0, ReaderKeeps
  <2>6. host' \in Hosts
    BY <2>1, <1>0, HostUpdates
  <2>7. QED BY <2>1, <2>2, <2>5, <2>6 DEF TypeInv
<1>3. QED BY <1>1, <1>2 DEF Fails, Drop, RelayRestart, HostCrash, MachineCrash

LEMMA TypeInitially == Init => TypeInv
<1> SUFFICES ASSUME Init PROVE TypeInv
  OBVIOUS
<1>1. LogOK(log)
  BY NewLogOK DEF Init
<1>2. host \in Hosts /\ spent \in Budgets
  BY DEF Init, Hosts, Budgets
<1>3. maint \in Maintenance /\ wire \in Seq(Messages) /\ toHost \in Seq(Requests)
  BY EmptySeq DEF Init, Maintenance
<1>4. srv \in Subs /\ ReaderOK(rd, log)
  BY NoReaderOK DEF Init
<1>5. cl \in Clients /\ got \in [id : Nat, inc : Nat \cup {None}] /\ raced \subseteq Nat
  BY DEF Init, Clients, None
<1>6. QED BY <1>1, <1>2, <1>3, <1>4, <1>5 DEF TypeInv

LEMMA TypeStep == ASSUME TypeInv, LiveInv, [Next]_vars PROVE TypeInv'
<1>1. CASE UNCHANGED vars
  BY <1>1 DEF vars, TypeInv
<1>2. CASE Next
  BY <1>2, TypeAppends, TypeMaintains, TypeReplays, TypeServes, TypeLives, TypeReceives,
     TypeConsumes, TypeFails DEF Next
<1>3. QED BY <1>1, <1>2

LEMMA TypeInvIsTypeOK == TypeInv => TypeOK
<1> SUFFICES ASSUME TypeInv PROVE TypeOK
  OBVIOUS
<1>1. Active(log) <= EndOffset(log) /\ log.first \in log.cuts
  BY LogEnds DEF TypeInv, LogOK
<1>2. log \in Logs /\ rd \in Readers
  BY DEF TypeInv, LogOK, ReaderOK, HoldsOK
<1>3. QED
  BY <1>1, <1>2 DEF TypeInv, TypeOK, Logs, Readers, Maintenance, Hosts, Subs, Requests, Clients

-----------------------------------------------------------------------------
(* A client never has more messages queued for it than the marks allow. *)

EventsIn(w) == {i \in DOMAIN w : w[i].type = "event"}
Count(w) == Cardinality(EventsIn(w))
Stepping(r) == r.io \notin {"none", "drain"}

\* A step is under way only while the client keeps up.
KeepsUp == Stepping(rd) => Len(wire) <= HighWater

BufferInv == KeepsUp /\ BufferBounded

LEMMA CountFacts ==
  ASSUME NEW w \in Seq(Messages)
  PROVE  /\ EventsIn(w) \subseteq 1 .. Len(w) /\ Len(w) \in Nat
         /\ IsFiniteSet(EventsIn(w)) /\ Count(w) \in Nat /\ Count(w) <= Len(w)
<1>1. EventsIn(w) \subseteq 1 .. Len(w) /\ Len(w) \in Nat
  BY LenProperties DEF EventsIn
<1> DEFINE n == Len(w)
<1>2. IsFiniteSet(1 .. n) /\ Cardinality(1 .. n) = n
  <2>1. n \in Nat BY <1>1
  <2> HIDE DEF n
  <2>2. n - 1 + 1 = n /\ (1 > n => n = 0) BY <2>1
  <2>3. IsFiniteSet(1 .. n) /\ Cardinality(1 .. n) = (IF 1 > n THEN 0 ELSE n - 1 + 1)
    BY <2>1, FS_Interval
  <2>4. QED BY <2>2, <2>3
<1>3. QED BY <1>1, <1>2, Parts DEF Count

LEMMA CountAppend ==
  ASSUME NEW w \in Seq(Messages), NEW m \in Messages, m.type # "event"
  PROVE  Count(Append(w, m)) = Count(w)
<1> DEFINE v == Append(w, m)
<1>1. /\ v \in Seq(Messages) /\ Len(v) = Len(w) + 1 /\ Len(w) \in Nat
      /\ \A i \in 1 .. Len(w) : v[i] = w[i]
      /\ v[Len(w) + 1] = m
  BY AppendProperties, LenProperties
<1>2. DOMAIN v = 1 .. Len(w) + 1 /\ DOMAIN w = 1 .. Len(w)
  BY <1>1, LenProperties
<1> HIDE DEF v
<1>3. EventsIn(v) = EventsIn(w)
  <2>1. ASSUME NEW i \in EventsIn(v) PROVE i \in EventsIn(w)
    <3>1. i \in 1 .. Len(w) + 1 /\ v[i].type = "event"
      BY <1>2 DEF EventsIn
    <3>2. i # Len(w) + 1
      BY <3>1, <1>1
    <3>3. i \in 1 .. Len(w)
      BY <3>1, <3>2, <1>1
    <3>4. QED BY <3>1, <3>3, <1>1, <1>2 DEF EventsIn
  <2>2. ASSUME NEW i \in EventsIn(w) PROVE i \in EventsIn(v)
    <3>1. i \in 1 .. Len(w) /\ w[i].type = "event"
      BY <1>2 DEF EventsIn
    <3>2. i \in 1 .. Len(w) + 1
      BY <3>1, <1>1
    <3>3. QED BY <3>1, <3>2, <1>1, <1>2 DEF EventsIn
  <2>3. QED BY <2>1, <2>2
<1>4. QED BY <1>3 DEF Count, v

LEMMA CountTail ==
  ASSUME NEW w \in Seq(Messages), w # <<>>
  PROVE  Count(Tail(w)) <= Count(w)
<1> DEFINE t == Tail(w)
           f == [i \in EventsIn(t) |-> i + 1]
<1>1. /\ t \in Seq(Messages) /\ Len(w) \in Nat \ {0} /\ Len(t) = Len(w) - 1
      /\ \A i \in 1 .. Len(w) - 1 : t[i] = w[i + 1]
  BY TailOK
<1>2. DOMAIN t = 1 .. Len(w) - 1 /\ DOMAIN w = 1 .. Len(w)
  BY <1>1, LenProperties
<1> HIDE DEF t
<1>3. \A i \in EventsIn(t) : i \in Int /\ i + 1 \in EventsIn(w)
  <2> SUFFICES ASSUME NEW i \in EventsIn(t) PROVE i \in Int /\ i + 1 \in EventsIn(w)
    OBVIOUS
  <2>1. i \in 1 .. Len(w) - 1 /\ t[i].type = "event"
    BY <1>2 DEF EventsIn
  <2>2. i + 1 \in 1 .. Len(w) /\ w[i + 1].type = "event"
    BY <2>1, <1>1
  <2>3. QED BY <2>1, <2>2, <1>2 DEF EventsIn
<1>4. f \in [EventsIn(t) -> EventsIn(w)] /\ \A i, j \in EventsIn(t) : f[i] = f[j] => i = j
  BY <1>3
<1>5. IsFiniteSet(EventsIn(w))
  BY CountFacts
<1> HIDE DEF f
<1>6. QED BY <1>4, <1>5, OneToOne DEF Count, t

LEMMA BufferIs == BufferBounded <=> Count(wire) <= HighWater + 2 * ReplayChunk - 1
BY DEF BufferBounded, Count, EventsIn

\* The loop itself writes no event, and takes a step only below the mark.
LEMMA CatchUpCounts ==
  ASSUME NEW L, LogOK(L), NEW s \in Subs, NEW r, Ready(r, L), NEW w \in Seq(Messages),
         CatchUp(s, r, w, L)
  PROVE  KeepsUp' /\ Count(wire') = Count(w)
<1>1. /\ rd'.io \in {"drain", "opening", "reading"}
      /\ rd'.io = "drain" \/ Len(wire') <= HighWater
      /\ \/ wire' = w
         \/ /\ OutOfLog(r, L)
            /\ wire' = Append(w, Gap(s, Resume(r, L), r.cur > EndOffset(L)))
  BY CatchUpDoes
<1>2. KeepsUp'
  BY <1>1 DEF KeepsUp, Stepping
<1>3. ASSUME OutOfLog(r, L)
      PROVE  LET g == Gap(s, Resume(r, L), r.cur > EndOffset(L))
             IN  g \in Messages /\ g.type # "event"
  <2>1. Resume(r, L) \in Nat /\ s.id \in Nat
    BY <1>3, Resumes DEF Ready, Subs
  <2>2. QED BY <2>1 DEF Gap, Messages
<1>4. QED BY <1>1, <1>2, <1>3, CountAppend

\* What a reader that returns a step holds: less than two chunks.
Returnable(r) ==
    /\ r \in Readers /\ r.acc \subseteq Offsets(log) /\ r.acc # {} /\ r.found = {}
    /\ Cardinality(r.acc) <= 2 * ReplayChunk - 1
    /\ r.seg # None => r.seg \in log.cuts /\ r.seg <= r.cur

Untouched == Stepping(rd) /\ UNCHANGED <<srv, wire>>
GoesRound == \E r : Ready(r, log) /\ CatchUp(srv, r, wire, log)
Returns   == Stepping(rd) /\ \E r \in Readers : Returnable(r) /\ StepReturns(r)
GoesLive  ==
    /\ rd' = NoReader
    /\ wire' = IF srv.told THEN wire ELSE Append(wire, Notice("caught_up", srv.id))

\* A step returns less than two chunks, written to a client that keeps up.
LEMMA ReturnCounts ==
  ASSUME Connected, KeepsUp, Stepping(rd), NEW r \in Readers,
         Returnable(r), StepReturns(r)
  PROVE  BufferInv'
<1> DEFINE n == Cardinality(r.acc)
           w == wire \o Events(r)
<1>1. /\ n \in Nat /\ SubAfter(r) \in Subs /\ w \in Seq(Messages)
      /\ Events(r) \in Seq(Messages) /\ Len(Events(r)) = n
      /\ Ready([r EXCEPT !.acc = {}], log)
      /\ CatchUp(SubAfter(r), [r EXCEPT !.acc = {}], w, log)
  BY StepReturnsDoes DEF Connected, Returnable
<1>2. Len(w) = Len(wire) + n /\ Len(wire) <= HighWater
  BY <1>1, ConcatProperties DEF Connected, KeepsUp
<1>3. Len(wire) \in Nat /\ HighWater \in Nat /\ ReplayChunk \in Nat
  BY LenProperties, ParametersAssumption DEF Connected
<1> HIDE DEF n
<1>4. Count(w) <= HighWater + 2 * ReplayChunk - 1
  <2>1. n <= 2 * ReplayChunk - 1
    BY DEF n, Returnable
  <2>2. Count(w) <= Len(w) /\ Count(w) \in Nat
    BY <1>1, CountFacts
  <2> HIDE DEF w
  <2>3. QED BY <2>1, <2>2, <1>1, <1>2, <1>3
<1> HIDE DEF w
<1>5. KeepsUp' /\ Count(wire') = Count(w)
  BY <1>1, CatchUpCounts DEF Connected
<1>6. BufferBounded'
  BY <1>4, <1>5 DEF BufferBounded, Count, EventsIn
<1>7. QED BY <1>5, <1>6 DEF BufferInv

LEMMA HeldIsReturnable ==
  ASSUME LogOK(log), NEW r, HoldsOK(r, log), r.found = {}, r.acc # {}
  PROVE  Returnable(r)
<1>1. /\ Cardinality(r.acc) < ReplayChunk /\ r.acc \subseteq Offsets(log) /\ r \in Readers
      /\ r.seg # None => r.seg \in log.cuts /\ r.seg <= r.cur
  BY DEF HoldsOK
<1>2. Cardinality(r.acc) \in Nat /\ ReplayChunk \in Nat
  BY <1>1, OffsetsFinite, ParametersAssumption
<1>3. Cardinality(r.acc) <= 2 * ReplayChunk - 1
  BY <1>1, <1>2
<1>4. QED BY <1>1, <1>3 DEF Returnable

LEMMA OpensOrGapForms ==
  ASSUME LogOK(log), Stepping(rd), NEW r, HoldsOK(r, log), r.found = {}, OpensOrGap(r)
  PROVE  Untouched \/ GoesRound \/ Returns
<1>1. CASE ~OutOfLog(r, log)
  BY <1>1 DEF OpensOrGap, Untouched
<1>2. CASE OutOfLog(r, log) /\ r.acc = {}
  <2>1. CatchUp(srv, [r EXCEPT !.seg = None], wire, log)
    BY <1>2 DEF OpensOrGap
  <2>2. Ready([r EXCEPT !.seg = None], log)
    BY <1>2, SegmentClosed
  <2>3. QED BY <2>1, <2>2 DEF GoesRound
<1>3. CASE OutOfLog(r, log) /\ r.acc # {}
  <2>1. StepReturns(Resumed(r))
    BY <1>3 DEF OpensOrGap, Resumed
  <2>2. /\ Resumed(r) \in Readers /\ Resumed(r).acc = r.acc /\ Resumed(r).found = {}
        /\ Resumed(r).seg = None
    BY <1>3, ResumedOK
  <2>3. Returnable(r)
    BY <1>3, HeldIsReturnable
  <2>4. Returnable(Resumed(r))
    BY <2>2, <2>3 DEF Returnable
  <2>5. QED BY <2>1, <2>2, <2>4 DEF Returns
<1>4. QED BY <1>1, <1>2, <1>3

LEMMA ReplayForms ==
  ASSUME TypeInv, Replays
  PROVE  Untouched \/ GoesRound \/ Returns \/ GoesLive
<1>0. /\ LogOK(log) /\ ReaderOK(rd, log) /\ HoldsOK(rd, log) /\ rd \in Readers
      /\ log.cuts \subseteq Nat /\ ReplayChunk \in Nat
  BY ParametersAssumption DEF TypeInv, ReaderOK, HoldsOK, LogOK, Logs
<1>1. CASE FileOpened \/ UseFile \/ FileRead \/ LeaveSegment
  BY <1>1 DEF FileOpened, UseFile, FileRead, LeaveSegment, Untouched, Stepping
<1>2. CASE FileGone
  <2>1. OpensOrGap(rd) /\ rd.io = "gone"
    BY <1>2 DEF FileGone
  <2>2. rd.found = {} /\ Stepping(rd)
    BY <2>1, <1>0 DEF ReaderOK, Stepping
  <2>3. QED BY <2>1, <2>2, <1>0, OpensOrGapForms
<1>3. CASE NextSegment
  <2> DEFINE c == Max({rd.cur, rd.tgt})
             r == [rd EXCEPT !.cur = c]
  <2>1. rd.io = "closing" /\ OpensOrGap(r) /\ Stepping(rd)
    BY <1>3 DEF NextSegment, Stepping
  <2>2. rd.tgt \in log.cuts /\ rd.seg = None /\ rd.found = {}
    BY <2>1, <1>0 DEF ReaderOK
  <2>3. c \in Nat
    <3>1. rd.cur \in Nat /\ rd.tgt \in Nat
      BY <2>2, <1>0 DEF Readers
    <3>2. QED BY <3>1, GreaterOf
  <2> HIDE DEF c
  <2>4. /\ r \in Readers /\ r.acc = rd.acc /\ r.found = {} /\ r.seg = None
    BY <2>2, <2>3, <1>0 DEF Readers
  <2> HIDE DEF r
  <2>5. HoldsOK(r, log)
    BY <2>2, <2>4, <1>0 DEF HoldsOK
  <2>6. QED BY <2>1, <2>4, <2>5, <1>0, OpensOrGapForms
<1>4. CASE UseRecords
  <2> DEFINE A == rd.acc \cup rd.found
             c == Max(rd.found) + 1
             r == [rd EXCEPT !.acc = A, !.cur = c, !.found = {}]
  <2>1. /\ rd.io = "read" /\ rd.found # {} /\ Stepping(rd)
        /\ IF Cardinality(r.acc) < ReplayChunk
           THEN UNCHANGED <<srv, wire>> ELSE StepReturns(r)
    BY <1>4 DEF UseRecords, Stepping
  <2>2. /\ IsFiniteSet(rd.found) /\ rd.found \subseteq Int /\ rd.found \subseteq Nat
        /\ IsFiniteSet(rd.acc) /\ rd.acc \subseteq Nat
    BY <1>0, OffsetsFinite DEF HoldsOK
  <2>3. Max(rd.found) \in rd.found /\ Max(rd.found) \in Nat
    BY <2>1, <2>2, MaxIs
  <2>4. A \in SUBSET Nat /\ c \in Nat
    BY <2>2, <2>3
  <2>5. A \subseteq Offsets(log) /\ A # {}
    BY <2>1, <1>0 DEF HoldsOK
  <2>6. Cardinality(A) <= 2 * ReplayChunk - 1
    <3>1. /\ Cardinality(rd.acc) \in Nat /\ Cardinality(rd.found) \in Nat
          /\ IsFiniteSet(rd.acc \cap rd.found) /\ Cardinality(rd.acc \cap rd.found) \in Nat
      BY <2>2, FS_CardinalityType, FS_Intersection
    <3>2. Cardinality(A) = Cardinality(rd.acc) + Cardinality(rd.found)
                             - Cardinality(rd.acc \cap rd.found)
      BY <2>2, FS_Union
    <3>3. Cardinality(rd.acc) < ReplayChunk /\ Cardinality(rd.found) <= ReplayChunk
      BY <1>0 DEF HoldsOK
    <3> HIDE DEF A
    <3>4. QED BY <3>1, <3>2, <3>3, <1>0
  <2>7. rd.seg # None /\ rd.seg \in log.cuts /\ rd.seg <= c
    <3>1. /\ rd.seg # None /\ rd.seg \in log.cuts /\ rd.seg <= rd.cur /\ rd.seg \in Nat
          /\ rd.cur <= Max(rd.found) /\ rd.cur \in Nat
      BY <2>1, <2>3, <1>0 DEF ReaderOK, HoldsOK, Readers
    <3>2. QED BY <3>1, <2>3
  <2> HIDE DEF A, c
  <2>8. r \in Readers /\ r.acc = A /\ r.found = {} /\ r.seg = rd.seg /\ r.cur = c
    BY <2>4, <1>0 DEF Readers
  <2> HIDE DEF r
  <2>9. Returnable(r)
    BY <2>5, <2>6, <2>7, <2>8 DEF Returnable
  <2>10. QED BY <2>1, <2>8, <2>9 DEF Untouched, Returns
<1>5. CASE EndOfLog
  <2>1. rd.io = "read" /\ rd.found = {} /\ Stepping(rd)
    BY <1>5 DEF EndOfLog, Stepping
  <2>2. CASE rd.acc # {} /\ StepReturns(rd)
    BY <2>1, <2>2, <1>0, HeldIsReturnable DEF Returns
  <2>3. CASE rd.acc = {} /\ GoesLive
    BY <2>3
  <2>4. CASE rd.acc = {} /\ CatchUp(srv, rd, wire, log)
    BY <2>1, <2>4, <1>0 DEF Ready, GoesRound
  <2>5. QED BY <1>5, <2>2, <2>3, <2>4 DEF EndOfLog, GoesLive
<1>6. CASE Drained
  <2>1. rd.io = "drain" /\ CatchUp(srv, rd, wire, log)
    BY <1>6 DEF Drained
  <2>2. Ready(rd, log)
    BY <2>1, <1>0 DEF Ready, ReaderOK
  <2>3. QED BY <2>1, <2>2 DEF GoesRound
<1>7. QED BY <1>1, <1>2, <1>3, <1>4, <1>5, <1>6 DEF Replays

LEMMA BufferReplays == ASSUME TypeInv, BufferInv, Replays PROVE BufferInv'
<1>0. Connected /\ KeepsUp /\ LogOK(log) /\ srv \in Subs /\ wire \in Seq(Messages) /\ BufferBounded
  BY DEF TypeInv, Connected, BufferInv
<1>1. CASE Untouched
  <2>1. Len(wire) <= HighWater
    BY <1>1, <1>0 DEF Untouched, KeepsUp
  <2>2. QED BY <1>1, <1>0, <2>1 DEF Untouched, BufferInv, KeepsUp, BufferBounded
<1>2. CASE GoesRound
  <2>1. PICK r : Ready(r, log) /\ CatchUp(srv, r, wire, log)
    BY <1>2 DEF GoesRound
  <2>2. KeepsUp' /\ Count(wire') = Count(wire)
    BY <2>1, <1>0, CatchUpCounts
  <2>3. QED BY <2>2, <1>0 DEF BufferInv, BufferBounded, Count, EventsIn
<1>3. CASE Returns
  <2>1. PICK r \in Readers : Returnable(r) /\ StepReturns(r)
    BY <1>3 DEF Returns
  <2>2. QED BY <2>1, <1>0, <1>3, ReturnCounts DEF Returns
<1>4. CASE GoesLive
  <2>1. Notice("caught_up", srv.id) \in Messages /\ Notice("caught_up", srv.id).type # "event"
    BY <1>0 DEF Notice, Messages, Subs
  <2>2. Count(wire') = Count(wire)
    BY <2>1, <1>0, <1>4, CountAppend DEF GoesLive
  <2>3. KeepsUp'
    BY <1>4 DEF GoesLive, NoReader, KeepsUp, Stepping
  <2>4. QED BY <2>2, <2>3, <1>0 DEF BufferInv, BufferBounded, Count, EventsIn
<1>5. QED BY <1>1, <1>2, <1>3, <1>4, ReplayForms

\* A record is pushed only below the mark.
LEMMA BufferPushes ==
  ASSUME TypeInv, LiveInv, BufferInv, NEW L, LogOK(L), OnLive(L, EndOffset(log))
  PROVE  BufferInv'
<1>0. /\ KeepsUp /\ srv \in Subs /\ wire \in Seq(Messages) /\ BufferBounded
      /\ Len(wire) \in Nat /\ HighWater \in Nat /\ ReplayChunk \in Nat /\ ReplayChunk >= 1
  BY LenProperties, ParametersAssumption DEF TypeInv, BufferInv
<1>1. CASE UNCHANGED <<srv, rd, wire>>
  BY <1>0, <1>1 DEF BufferInv, KeepsUp, BufferBounded
<1>2. CASE CatchUp([srv EXCEPT !.mode = "catchup"], ReaderAt(srv.cur), wire, L)
  <2>1. [srv EXCEPT !.mode = "catchup"] \in Subs /\ srv.cur \in Nat
    BY <1>0 DEF Subs
  <2>2. Ready(ReaderAt(srv.cur), L)
    BY <2>1, ReaderAtReady
  <2>3. KeepsUp' /\ Count(wire') = Count(wire)
    BY <2>1, <2>2, <1>0, <1>2, CatchUpCounts
  <2>4. QED BY <2>3, <1>0 DEF BufferInv, BufferBounded, Count, EventsIn
<1>3. CASE /\ srv.mode = "live" /\ ~AboveHighWater(wire) /\ EndOffset(log) = srv.cur
           /\ wire' = Append(wire, Event(srv, L, EndOffset(log))) /\ UNCHANGED rd
  <2> DEFINE n == Len(wire)
  <2>1. n <= HighWater
    BY <1>0, <1>3 DEF AboveHighWater
  <2>2. Len(wire') = n + 1 /\ DOMAIN wire' = 1 .. n + 1
    <3> DEFINE e == Event(srv, L, EndOffset(log))
               S == Messages \cup {e}
    <3>1. wire' = Append(wire, e) /\ e \in S /\ Len(wire) \in Nat
      BY <1>0, <1>3
    <3>2. \A i \in 1 .. Len(wire) : wire[i] \in S
      BY <1>0, ElementOfSeq
    <3>3. wire = [i \in 1 .. Len(wire) |-> wire[i]]
      BY <1>0, LenProperties
    <3> HIDE DEF e, S
    <3>4. wire \in Seq(S)
      BY <3>1, <3>2, <3>3
    <3>5. wire' \in Seq(S) /\ Len(wire') = Len(wire) + 1
      BY <3>1, <3>4, AppendProperties
    <3>6. QED BY <3>5, LenProperties
  <2> DEFINE B == EventsIn(wire')
  <2>3. B \subseteq 1 .. n + 1
    BY <2>2 DEF EventsIn
  <2>4. IsFiniteSet(1 .. n + 1) /\ Cardinality(1 .. n + 1) = n + 1
    <3>1. n + 1 \in Nat /\ n + 1 - 1 + 1 = n + 1 /\ ~(1 > n + 1)
      BY <1>0
    <3> DEFINE k == n + 1
    <3> HIDE DEF n
    <3>2. IsFiniteSet(1 .. k) /\ Cardinality(1 .. k) = (IF 1 > k THEN 0 ELSE k - 1 + 1)
      BY <3>1, FS_Interval
    <3>3. QED BY <3>1, <3>2
  <2>5. Count(wire') \in Nat /\ Count(wire') <= n + 1
    <3> HIDE DEF B
    <3>1. Cardinality(B) \in Nat /\ Cardinality(B) <= n + 1
      BY <2>3, <2>4, Parts
    <3>2. QED BY <3>1 DEF B, Count
  <2>6. n + 1 <= HighWater + 2 * ReplayChunk - 1
    BY <1>0, <2>1
  <2>7. Count(wire') <= HighWater + 2 * ReplayChunk - 1
    <3> HIDE DEF n
    <3>1. n \in Nat
      BY <1>0 DEF n
    <3>2. QED BY <2>5, <2>6, <3>1, <1>0
  <2>8. rd.io = "none"
    BY <1>3 DEF LiveInv, ReadsToCatchUp
  <2>9. QED BY <2>7, <2>8, <1>3 DEF BufferInv, BufferBounded, Count, EventsIn, KeepsUp, Stepping
<1>4. QED BY <1>1, <1>2, <1>3 DEF OnLive

LEMMA BufferKept ==
  ASSUME BufferInv, UNCHANGED <<rd, wire>>
  PROVE  BufferInv'
BY DEF BufferInv, KeepsUp, BufferBounded

\* Nobody reads, and the events queued are no more than they were.
LEMMA BufferIdle ==
  ASSUME BufferInv, rd'.io = "none", Count(wire') = Count(wire)
  PROVE  BufferInv'
BY DEF BufferInv, KeepsUp, Stepping, BufferBounded, Count, EventsIn

LEMMA BufferAppends == ASSUME TypeInv, LiveInv, BufferInv, Appends PROVE BufferInv'
<1>1. CASE AppendTears
  BY <1>1, BufferKept DEF AppendTears
<1>2. CASE AppendRecord \/ AppendFailsToRotate
  <2>1. TypeInv'
    BY TypeAppends
  <2>2. LogOK(log') /\ OnLive(log', EndOffset(log))
    BY <2>1, <1>2 DEF TypeInv, AppendRecord, AppendFailsToRotate
  <2> DEFINE L == log'
  <2>3. LogOK(L) /\ OnLive(L, EndOffset(log))
    BY <2>2
  <2> HIDE DEF L
  <2>4. QED BY <2>3, BufferPushes
<1>3. QED BY <1>1, <1>2 DEF Appends

LEMMA BufferServes == ASSUME TypeInv, LiveInv, BufferInv, Serves PROVE BufferInv'
<1>0. /\ LogOK(log) /\ wire \in Seq(Messages) /\ toHost \in Seq(Requests)
      /\ log.first \in Nat /\ log.inc \in Nat /\ BufferBounded
  BY LogEnds DEF TypeInv, LogOK, Logs, BufferInv
<1>1. CASE HandleUnsubscribe
  BY <1>1, BufferIdle DEF HandleUnsubscribe, NoReader
<1>2. CASE HandleSubscribe
  <2> DEFINE m == Head(toHost)
             from == IF IsReset(m) THEN log.first ELSE m.from
             s == [mode |-> "catchup", cur |-> from, id |-> m.id, told |-> FALSE]
             a == Response(m.id, log.first, log.inc, IsReset(m))
             w == Append(wire, a)
  <2>1. toHost # <<>> /\ m.op = "subscribe" /\ m \in Requests
    BY <1>2, <1>0, TailOK DEF HandleSubscribe
  <2>2. m.id \in Nat /\ m.from \in Nat
    BY <2>1 DEF Requests
  <2>3. CASE host.known
    <3>1. CatchUp(s, ReaderAt(from), w, log)
      BY <1>2, <2>3 DEF HandleSubscribe
    <3>2. from \in Nat
      BY <2>2, <1>0
    <3> HIDE DEF from
    <3>3. s \in Subs
      BY <3>2, <2>2 DEF Subs
    <3>4. a \in Messages /\ a.type # "event"
      BY <2>2, <1>0 DEF Response, Messages, IsReset
    <3> HIDE DEF s, a
    <3>5. w \in Seq(Messages) /\ Count(w) = Count(wire)
      BY <3>4, <1>0, CountAppend, AppendProperties
    <3> HIDE DEF w
    <3>6. Ready(ReaderAt(from), log)
      BY <3>2, ReaderAtReady
    <3>7. KeepsUp' /\ Count(wire') = Count(w)
      BY <3>1, <3>3, <3>5, <3>6, <1>0, CatchUpCounts
    <3>8. QED BY <3>5, <3>7, <1>0 DEF BufferInv, BufferBounded, Count, EventsIn
  <2>4. CASE ~host.known
    <3> DEFINE b == Notice("unknown_agent", m.id)
    <3>1. wire' = Append(wire, b) /\ UNCHANGED rd
      BY <1>2, <2>4 DEF HandleSubscribe
    <3>2. b \in Messages /\ b.type # "event"
      BY <2>2 DEF Notice, Messages
    <3> HIDE DEF b
    <3>3. Count(wire') = Count(wire)
      BY <3>1, <3>2, <1>0, CountAppend
    <3>4. rd.io = "none"
      BY <2>4 DEF LiveInv, ReadsToCatchUp, OnlyKnownServed
    <3>5. QED BY <3>1, <3>3, <3>4, BufferIdle
  <2>5. QED BY <2>3, <2>4
<1>3. QED BY <1>1, <1>2 DEF Serves

LEMMA BufferLives == ASSUME TypeInv, BufferInv, Lives PROVE BufferInv'
<1>1. CASE Destroyed \/ SpawnAgent
  BY <1>1, BufferKept DEF Destroyed, SpawnAgent
<1>2. CASE RemoveAgent
  <2>1. /\ rd' = NoReader
        /\ wire' = IF srv.mode = "closed" THEN wire
                   ELSE Append(wire, Notice("stream_closed", srv.id))
    BY <1>2 DEF RemoveAgent
  <2>2. /\ Notice("stream_closed", srv.id) \in Messages
        /\ Notice("stream_closed", srv.id).type # "event" /\ wire \in Seq(Messages)
    BY DEF TypeInv, Notice, Messages, Subs
  <2>3. Count(wire') = Count(wire)
    BY <2>1, <2>2, CountAppend
  <2>4. QED BY <2>1, <2>3, BufferIdle DEF NoReader
<1>3. QED BY <1>1, <1>2 DEF Lives

LEMMA BufferReceives == ASSUME TypeInv, BufferInv, Receives PROVE BufferInv'
<1>1. wire # <<>> /\ wire' = Tail(wire) /\ UNCHANGED rd
  BY DEF Receives, OnResponse, OnRefused, OnEvent, OnGap, OnCaughtUp, OnStreamClosed,
         Reads, UnlessClient
<1>2. wire \in Seq(Messages) /\ HighWater \in Nat /\ ReplayChunk \in Nat
  BY ParametersAssumption DEF TypeInv
<1>3. /\ Len(wire) \in Nat /\ Len(wire') \in Nat /\ Len(wire') <= Len(wire)
      /\ wire' \in Seq(Messages)
  BY <1>1, <1>2, TailOK
<1>4. Count(wire') <= Count(wire) /\ Count(wire) \in Nat /\ Count(wire') \in Nat
  BY <1>1, <1>2, <1>3, CountTail, CountFacts
<1>5. Count(wire') <= HighWater + 2 * ReplayChunk - 1
  <2>1. Count(wire) <= HighWater + 2 * ReplayChunk - 1
    BY BufferIs DEF BufferInv
  <2>2. QED BY <1>2, <1>4, <2>1
<1>6. KeepsUp'
  BY <1>1, <1>2, <1>3 DEF BufferInv, KeepsUp, Stepping
<1>7. QED BY <1>5, <1>6 DEF BufferInv, BufferBounded, Count, EventsIn

LEMMA BufferFails == ASSUME TypeInv, BufferInv, Fails PROVE BufferInv'
<1>1. CASE HostRestart
  BY <1>1, BufferKept DEF HostRestart
<1>2. CASE Drop \/ RelayRestart \/ HostCrash \/ MachineCrash
  <2>1. rd' = NoReader /\ wire' = <<>>
    BY <1>2 DEF Drop, RelayRestart, HostCrash, MachineCrash, Disconnected
  <2>2. EventsIn(<<>>) = {}
    BY DEF EventsIn
  <2>3. Count(wire') = 0
    BY <2>1, <2>2, FS_EmptySet DEF Count
  <2>4. 0 <= HighWater + 2 * ReplayChunk - 1
    BY ParametersAssumption
  <2>5. QED
    BY <2>1, <2>3, <2>4 DEF BufferInv, BufferBounded, Count, EventsIn, KeepsUp, Stepping, NoReader
<1>3. QED BY <1>1, <1>2 DEF Fails

LEMMA BufferStep ==
  ASSUME TypeInv, LiveInv, BufferInv, [Next]_vars
  PROVE  BufferInv'
<1>1. CASE UNCHANGED vars \/ Maintains \/ Consumes
  BY <1>1, BufferKept
  DEF vars, Maintains, Compact, EnforceRetention, Consumes, Connect, Subscribe, Unsubscribe,
      SubscribeTimesOut
<1>2. QED
  BY <1>1, BufferAppends, BufferReplays, BufferServes, BufferLives, BufferReceives, BufferFails
  DEF Next

LEMMA BufferInitially == Init => BufferInv
<1> SUFFICES ASSUME Init PROVE BufferInv
  OBVIOUS
<1>1. rd = NoReader /\ wire = <<>> /\ EventsIn(<<>>) = {}
  BY DEF Init, EventsIn
<1>2. Count(wire) = 0
  BY <1>1, FS_EmptySet DEF Count
<1>3. 0 <= HighWater + 2 * ReplayChunk - 1
  BY ParametersAssumption
<1>4. QED
  BY <1>1, <1>2, <1>3 DEF BufferInv, BufferBounded, Count, EventsIn, KeepsUp, Stepping, NoReader

(* The log, the subscription, its reader, both directions of the socket and  *)
(* the client stay what the types say, with the log's segments cut within it *)
(* and its oldest kept segment one of them: however appends, retention,      *)
(* compaction, reads, removals and crashes interleave.                       *)
THEOREM StreamIsTyped == Spec => []TypeOK
<1>1. Init => TypeInv /\ LiveInv
  BY TypeInitially, LiveInvInitially
<1>2. TypeInv /\ LiveInv /\ [Next]_vars => (TypeInv /\ LiveInv)'
  BY TypeStep, LiveStep
<1>3. TypeInv => TypeOK
  BY TypeInvIsTypeOK
<1>4. QED BY <1>1, <1>2, <1>3, PTL DEF Spec

(* The host never queues more events for a client than the high-water mark   *)
(* and two chunks, however far behind or silent the client is: catchUp takes *)
(* a step only below the mark and a step returns less than two chunks, and   *)
(* onLive pushes only below it.                                              *)
THEOREM BufferStaysBounded == Spec => []BufferBounded
<1>1. Init => TypeInv /\ LiveInv /\ BufferInv
  BY TypeInitially, LiveInvInitially, BufferInitially
<1>2. TypeInv /\ LiveInv /\ BufferInv /\ [Next]_vars => (TypeInv /\ LiveInv /\ BufferInv)'
  BY TypeStep, LiveStep, BufferStep
<1>3. BufferInv => BufferBounded
  BY DEF BufferInv
<1>4. QED BY <1>1, <1>2, <1>3, PTL DEF Spec

=============================================================================
