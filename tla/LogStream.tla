------------------------------ MODULE LogStream ------------------------------
(***************************************************************************)
(* One agent's event log in the agent host (eventLog.ts), the subscription *)
(* that streams it over the host's socket (socketServer.ts) and the        *)
(* relay's client that keeps the stream going across reconnects            *)
(* (hostClient.ts).                                                        *)
(*                                                                         *)
(* Every record has length 1, so a record's offset, its seq and its place  *)
(* in `recs` agree, and sizes are counted in records.  A partial message   *)
(* (kind "part") is one that compaction drops.  Files are read by a thread *)
(* of the pool: what it found is used later, by the event loop, and the    *)
(* two instants are separate steps.  Everything the loop does between two  *)
(* awaits on I/O is one step.                                              *)
(*                                                                         *)
(* Definitions named Mut... are faulty variants, used by no specification: *)
(* each breaks one of the properties at the end.                           *)
(***************************************************************************)
EXTENDS Integers, Sequences, FiniteSets, FiniteSetsExt, SequencesExt

CONSTANTS
    SegmentBytes,   \* a segment this long is sealed
    RetainBytes,    \* segments together longer than this lose the oldest
    HighWater,      \* outbound messages beyond which a reader waits
    ReplayChunk,    \* what one read brings, and one step aims at
    Kinds,          \* kinds of event the agent prints: "full", "part"
    FromEnd,        \* whether the consumer also subscribes from the log's end
    \* bounds of the instances checked, not of the code:
    MaxRecords, MaxDrops, MaxCrashes, MaxLosses, MaxRemovals, MaxSubs, MaxFails

ASSUME ParametersAssumption ==
    /\ SegmentBytes \in Nat \ {0}
    /\ RetainBytes \in Nat
    /\ HighWater \in Nat
    /\ ReplayChunk \in Nat \ {0}
    /\ Kinds \subseteq {"full", "part"}
    /\ FromEnd \in BOOLEAN
    /\ \A bound \in {MaxRecords, MaxDrops, MaxCrashes, MaxLosses, MaxRemovals,
                     MaxSubs, MaxFails} : bound \in Nat

VARIABLES
    log,      \* the log directory, and what of it the host has in memory
    maint,    \* maintenance: compactions and retentions still to be done
    host,     \* the host process and the agent's place in it
    srv,      \* the server's Subscription
    rd,       \* its LogReader, and the await it stands at
    wire,     \* messages written to the client and not read by it yet
    toHost,   \* messages written to the host and not read by it yet
    cl,       \* the client and its SubscriptionState
    got,      \* history: the record last handed to the consumer, and its log
    raced,    \* history: ids of records appended behind a read that found the
              \* end of the file, before that read's result was used
    spent     \* history: how much of each bound is used up

vars == <<log, maint, host, srv, rd, wire, toHost, cl, got, raced, spent>>

None == -1

(***************************************************************************)
(* The log                                                                 *)
(***************************************************************************)
Records == [id : Nat, life : Nat, kind : {"full", "part", "glued"}]

\* endOffset, activeSegment, segmentList
EndOffset(L) == Len(L.recs)
Active(L)    == Max(L.cuts)
Segments(L)  == {b \in L.cuts : b >= L.first}
SegmentEnd(L, b) ==
    LET later == {c \in L.cuts : c > b}
    IN  IF later = {} THEN EndOffset(L) ELSE Min(later)

\* The offsets of the records in a segment's file, compacted or not.  A record
\* glued to a torn one does not parse, and no reader returns it.
File(L, b, packed) ==
    {o \in b .. (SegmentEnd(L, b) - 1) :
        /\ L.recs[o + 1].kind # "glued"
        /\ packed => L.recs[o + 1].kind # "part"}

\* What the segments from base f on hold on disk.
SizeFrom(L, f) ==
    Cardinality(UNION {File(L, b, b \in L.packed) : b \in {c \in L.cuts : c >= f}})

\* enforceRetention: the oldest segment that may stay.
Retained(L) ==
    Min({b \in Segments(L) : SizeFrom(L, b) <= RetainBytes \/ b = Active(L)})

NewLog(inc) ==
    [inc |-> inc, recs |-> <<>>, cuts |-> {0}, first |-> 0, packed |-> {},
     torn |-> FALSE, failed |-> FALSE, named |-> TRUE]

(***************************************************************************)
(* Messages                                                                *)
(***************************************************************************)
Event(s, L, o) ==
    [type |-> "event", sub |-> s.id, inc |-> L.inc, off |-> o, rec |-> L.recs[o + 1]]
Gap(s, to, ahead) ==
    [type |-> "replay_gap", sub |-> s.id, to |-> to, ahead |-> ahead]
Response(id, first, inc, reset) ==
    [type |-> "ok", sub |-> id, first |-> first, inc |-> inc, reset |-> reset]
Notice(type, id) == [type |-> type, sub |-> id]

\* socket.writableLength > highWaterBytes
AboveHighWater(w) == Len(w) > HighWater

\* Records of a step, in the order the reader found them.
InOrder(S) ==
    CHOOSE out \in [1 .. Cardinality(S) -> S] :
        \A i, j \in DOMAIN out : i < j => out[i] < out[j]
FirstOf(S) == {o \in S : Cardinality({x \in S : x < o}) < ReplayChunk}

(***************************************************************************)
(* The server's subscription and its reader                                *)
(***************************************************************************)
NoReader ==
    [io |-> "none", seg |-> None, packed |-> FALSE, cur |-> 0, acc |-> {},
     found |-> {}, tgt |-> None]
NoSubscription == [mode |-> "closed", cur |-> 0, id |-> 0, told |-> FALSE]

ReaderAt(c) == [NoReader EXCEPT !.cur = c]

MutOpening(r, L) ==
    [r EXCEPT !.io = "opening", !.seg = None, !.tgt = Min(Segments(L))]

\* openSegmentFor, up to its await on open()
Opening(r, L) ==
    [r EXCEPT !.io = "opening", !.seg = None,
              !.tgt = Max({b \in Segments(L) : b <= r.cur})]

OutOfLog(r, L)   == r.cur < L.first \/ r.cur > EndOffset(L)
Resume(r, L)     == IF r.cur < L.first THEN L.first ELSE EndOffset(L)

\* step(), from its start to its first await on I/O, when there is no gap
StepStarts(r, L) ==
    IF r.seg = None THEN Opening(r, L) ELSE [r EXCEPT !.io = "reading"]

(* The loop of catchUp from its top, with subscription s, reader r and      *)
(* outbound messages w, to its next await on I/O: it waits for a drain, or  *)
(* takes a step; a step that is a gap is told, and the loop goes round.     *)
CatchUp(s, r, w, L) ==
    \/ /\ AboveHighWater(w)
       /\ rd' = [r EXCEPT !.io = "drain"]
       /\ srv' = s
       /\ wire' = w
    \/ /\ ~AboveHighWater(w)
       /\ r.seg # None \/ ~OutOfLog(r, L)
       /\ rd' = StepStarts(r, L)
       /\ srv' = s
       /\ wire' = w
    \/ /\ ~AboveHighWater(w)
       /\ r.seg = None /\ OutOfLog(r, L)
       /\ LET to == Resume(r, L)
              r2 == [r EXCEPT !.cur = to]
          IN  /\ srv' = [s EXCEPT !.cur = to]
              /\ wire' = Append(w, Gap(s, to, r.cur > EndOffset(L)))
              /\ rd' = IF AboveHighWater(wire') THEN [r2 EXCEPT !.io = "drain"]
                                               ELSE StepStarts(r2, L)

\* A step returned records: they are written and the loop goes round.
StepReturns(r) ==
    LET out == InOrder(r.acc)
        w   == wire \o [i \in 1 .. Len(out) |-> Event(srv, log, out[i])]
    IN  CatchUp([srv EXCEPT !.cur = out[Len(out)] + 1], [r EXCEPT !.acc = {}], w, log)

MutOnLivePushes(L, o) ==
    IF srv.mode # "live"
    THEN UNCHANGED <<srv, rd, wire>>
    ELSE /\ wire' = Append(wire, Event(srv, L, o))
         /\ srv' = [srv EXCEPT !.cur = o + 1]
         /\ UNCHANGED rd

\* onLive, for each record appended
OnLive(L, o) ==
    IF srv.mode # "live"
    THEN UNCHANGED <<srv, rd, wire>>
    ELSE IF o # srv.cur \/ AboveHighWater(wire)
    THEN CatchUp([srv EXCEPT !.mode = "catchup"], ReaderAt(srv.cur), wire, L)
    ELSE /\ wire' = Append(wire, Event(srv, L, o))
         /\ srv' = [srv EXCEPT !.cur = o + 1]
         /\ UNCHANGED rd

-----------------------------------------------------------------------------
(***************************************************************************)
(* The host writes                                                         *)
(***************************************************************************)
Init ==
    /\ log = NewLog(1)
    /\ maint = <<>>
    /\ host = [up |-> TRUE, known |-> TRUE, removing |-> FALSE, life |-> 1]
    /\ srv = NoSubscription
    /\ rd = NoReader
    /\ wire = <<>>
    /\ toHost = <<>>
    /\ cl = [up |-> FALSE, on |-> FALSE, next |-> 0, seq |-> -1, inc |-> None,
             sub |-> 0, ids |-> 0, wait |-> FALSE]
    /\ got = [id |-> 0, inc |-> None]
    /\ raced = {}
    /\ spent = [records |-> 0, drops |-> 0, crashes |-> 0, losses |-> 0,
                removals |-> 0, subs |-> 0, fails |-> 0]

Spend(what) == spent' = [spent EXCEPT ![what] = @ + 1]

Writable == host.up /\ host.known /\ ~log.failed /\ spent.records < MaxRecords

\* The log once a record of this kind is on disk.
Written(kind) ==
    [log EXCEPT !.recs = Append(@, [id |-> spent.records + 1, life |-> host.life,
                                    kind |-> IF log.torn THEN "glued" ELSE kind]),
                !.torn = FALSE]

Full(L) == EndOffset(L) - Active(L) >= SegmentBytes

MutRotated(L) == [L EXCEPT !.cuts = @ \cup {EndOffset(L) + 1}]

Rotated(L) == [L EXCEPT !.cuts = @ \cup {EndOffset(L)}]

\* The reader's last read found the end of the file this record goes to.
Races ==
    raced' = IF rd.io = "read" /\ rd.found = {} /\ rd.seg = Active(log)
             THEN raced \cup {spent.records + 1} ELSE raced

\* append: the record is on disk, the segment is sealed if it is full, and
\* then the listeners are told.
AppendRecord ==
    \E kind \in Kinds :
        LET L == Written(kind) IN
        /\ Writable
        /\ IF Full(L)
           THEN /\ log' = Rotated(L)
                /\ maint' = maint \o << [do |-> "compact", seg |-> Active(L)],
                                        [do |-> "retain",  seg |-> Active(L)] >>
           ELSE /\ log' = L
                /\ UNCHANGED maint
        /\ OnLive(log', EndOffset(log))
        /\ Races
        /\ Spend("records")
        /\ UNCHANGED <<host, toHost, cl, got>>

\* append: the next segment cannot be opened; this record is told, and no
\* other is taken.
AppendFailsToRotate ==
    \E kind \in Kinds :
        LET L == Written(kind) IN
        /\ Writable
        /\ spent.fails < MaxFails
        /\ Full(L)
        /\ log' = [L EXCEPT !.failed = TRUE]
        /\ OnLive(log', EndOffset(log))
        /\ Races
        /\ spent' = [spent EXCEPT !.records = @ + 1, !.fails = @ + 1]
        /\ UNCHANGED <<maint, host, toHost, cl, got>>

\* append: the write fails half way.
AppendTears ==
    /\ Writable
    /\ spent.fails < MaxFails
    /\ log' = [log EXCEPT !.failed = TRUE, !.torn = TRUE]
    /\ Spend("fails")
    /\ UNCHANGED <<maint, host, srv, rd, wire, toHost, cl, got, raced>>

\* compact: the rename.  It fails when the segment is gone meanwhile.
Compact ==
    /\ host.up
    /\ maint # <<>> /\ Head(maint).do = "compact"
    /\ maint' = Tail(maint)
    /\ log' = IF Head(maint).seg \in Segments(log)
              THEN [log EXCEPT !.packed = @ \cup {Head(maint).seg}]
              ELSE log
    /\ UNCHANGED <<host, srv, rd, wire, toHost, cl, got, raced, spent>>

EnforceRetention ==
    /\ host.up
    /\ maint # <<>> /\ Head(maint).do = "retain"
    /\ maint' = Tail(maint)
    /\ log' = [log EXCEPT !.first = Retained(log)]
    /\ UNCHANGED <<host, srv, rd, wire, toHost, cl, got, raced, spent>>

-----------------------------------------------------------------------------
(***************************************************************************)
(* The reader: a thread opens and reads, the loop uses what it found       *)
(***************************************************************************)
Unwritten == <<log, maint, host, toHost, cl, got, raced, spent>>

\* The connection is gone, for both ends.
Disconnected ==
    /\ srv' = NoSubscription
    /\ rd' = NoReader
    /\ wire' = <<>>
    /\ toHost' = <<>>

FileOpened ==
    /\ rd.io = "opening"
    /\ rd' = [rd EXCEPT !.io = IF rd.tgt \in Segments(log) THEN "opened" ELSE "gone",
                        !.packed = rd.tgt \in log.packed]
    /\ UNCHANGED <<srv, wire>> /\ UNCHANGED Unwritten

UseFile ==
    /\ rd.io = "opened"
    /\ rd' = [rd EXCEPT !.io = "reading", !.seg = rd.tgt]
    /\ UNCHANGED <<srv, wire>> /\ UNCHANGED Unwritten

\* openSegmentFor while step() already holds records, or from step()'s start:
\* it opens, or finds a gap.  A gap met with records in hand is not returned.
OpensOrGap(r) ==
    IF ~OutOfLog(r, log)
    THEN /\ rd' = Opening(r, log)
         /\ UNCHANGED <<srv, wire>>
    ELSE IF r.acc = {}
    THEN CatchUp(srv, [r EXCEPT !.seg = None], wire, log)
    ELSE StepReturns([r EXCEPT !.seg = None, !.cur = Resume(r, log)])

\* ENOENT: retention deleted the segment meanwhile.  The loop of
\* openSegmentFor tries again (three times at most: a bound no instance met).
FileGone ==
    /\ rd.io = "gone"
    /\ OpensOrGap(rd)
    /\ UNCHANGED Unwritten

FileRead ==
    /\ rd.io = "reading"
    /\ rd' = [rd EXCEPT !.io = "read",
                        !.found = FirstOf({o \in File(log, rd.seg, rd.packed) : o >= rd.cur})]
    /\ UNCHANGED <<srv, wire>> /\ UNCHANGED Unwritten

\* The records found are kept; the step goes on until it has enough.
UseRecords ==
    /\ rd.io = "read" /\ rd.found # {}
    /\ LET r == [rd EXCEPT !.acc = @ \cup rd.found, !.cur = Max(rd.found) + 1,
                           !.found = {}]
       IN  IF Cardinality(r.acc) < ReplayChunk
           THEN rd' = [r EXCEPT !.io = "reading"] /\ UNCHANGED <<srv, wire>>
           ELSE StepReturns(r)
    /\ UNCHANGED Unwritten

Following == {b \in Segments(log) : b > rd.seg}

\* Nothing found, and a newer segment exists: this one is taken for read
\* through, and its file is closed.
LeaveSegment ==
    /\ rd.io = "read" /\ rd.found = {}
    /\ Following # {}
    /\ rd' = [rd EXCEPT !.io = "closing", !.seg = None, !.tgt = Min(Following)]
    /\ UNCHANGED <<srv, wire>> /\ UNCHANGED Unwritten

NextSegment ==
    /\ rd.io = "closing"
    /\ OpensOrGap([rd EXCEPT !.cur = Max({rd.cur, rd.tgt})])
    /\ UNCHANGED Unwritten

MutAtEnd(r) == TRUE

\* Nothing found at the live end: the step returns what it holds, or the
\* subscription goes live if nothing was appended meanwhile.
AtEnd(r) == r.cur = EndOffset(log)

EndOfLog ==
    /\ rd.io = "read" /\ rd.found = {}
    /\ Following = {}
    /\ IF rd.acc # {} THEN StepReturns(rd)
       ELSE IF AtEnd(rd)
       THEN /\ srv' = [srv EXCEPT !.mode = "live", !.cur = rd.cur, !.told = TRUE]
            /\ rd' = NoReader
            /\ wire' = IF srv.told THEN wire ELSE Append(wire, Notice("caught_up", srv.id))
       ELSE CatchUp(srv, rd, wire, log)
    /\ UNCHANGED Unwritten

\* The socket's buffer is flushed.
Drained ==
    /\ rd.io = "drain"
    /\ wire = <<>>
    /\ CatchUp(srv, rd, wire, log)
    /\ UNCHANGED Unwritten

-----------------------------------------------------------------------------
(***************************************************************************)
(* The host answers the client                                             *)
(***************************************************************************)
UnlessRead == <<log, maint, host, cl, got, raced, spent>>

MutIsReset(m) == FALSE

IsReset(m) == m.inc # None /\ m.inc # log.inc

HandleSubscribe ==
    /\ host.up
    /\ toHost # <<>> /\ Head(toHost).op = "subscribe"
    /\ toHost' = Tail(toHost)
    /\ LET m == Head(toHost)
           from == IF IsReset(m) THEN log.first ELSE m.from
       IN  IF host.known
           THEN CatchUp([mode |-> "catchup", cur |-> from, id |-> m.id, told |-> FALSE],
                        ReaderAt(from),
                        Append(wire, Response(m.id, log.first, log.inc, IsReset(m))), log)
           ELSE /\ wire' = Append(wire, Notice("unknown_agent", m.id))
                /\ UNCHANGED <<srv, rd>>
    /\ UNCHANGED UnlessRead

\* closeSubscription.  Nobody waits for the response to an unsubscribe.
HandleUnsubscribe ==
    /\ host.up
    /\ toHost # <<>> /\ Head(toHost).op = "unsubscribe"
    /\ toHost' = Tail(toHost)
    /\ srv' = NoSubscription
    /\ rd' = NoReader
    /\ UNCHANGED wire
    /\ UNCHANGED UnlessRead

\* remove: closeSubscriptions and forget, up to the deletion of the log.
RemoveAgent ==
    /\ host.up /\ host.known
    /\ spent.removals < MaxRemovals
    /\ host' = [host EXCEPT !.known = FALSE, !.removing = TRUE]
    /\ srv' = NoSubscription
    /\ rd' = NoReader
    /\ wire' = IF srv.mode = "closed" THEN wire
               ELSE Append(wire, Notice("stream_closed", srv.id))
    /\ Spend("removals")
    /\ UNCHANGED <<log, maint, toHost, cl, got, raced>>

\* destroy: maintenance first, then the directory.
Destroyed ==
    /\ host.up /\ host.removing
    /\ maint = <<>>
    /\ log' = NewLog(log.inc + 1)
    /\ host' = [host EXCEPT !.removing = FALSE]
    /\ UNCHANGED <<maint, srv, rd, wire, toHost, cl, got, raced, spent>>

\* spawnAgent: the id is free, and its log is opened.
SpawnAgent ==
    /\ host.up /\ ~host.known /\ ~host.removing
    /\ host' = [host EXCEPT !.known = TRUE, !.life = @ + 1]
    /\ log' = [log EXCEPT !.inc = IF log.named THEN @ ELSE @ + 1, !.named = TRUE,
                          !.torn = FALSE, !.failed = FALSE]
    /\ UNCHANGED <<maint, srv, rd, wire, toHost, cl, got, raced, spent>>

-----------------------------------------------------------------------------
(***************************************************************************)
(* The client and its consumer                                             *)
(***************************************************************************)
\* sendSubscribe; the subscription's id is the request's.
SendSubscribe(c) ==
    /\ cl' = [c EXCEPT !.sub = c.ids + 1, !.ids = @ + 1, !.wait = TRUE]
    /\ toHost' = Append(toHost, [op |-> "subscribe", id |-> c.ids + 1,
                                 from |-> c.next, inc |-> c.inc])

\* connectNow to hello_ok.
Connect ==
    /\ host.up /\ ~cl.up
    /\ IF cl.on THEN SendSubscribe([cl EXCEPT !.up = TRUE])
                ELSE cl' = [cl EXCEPT !.up = TRUE] /\ UNCHANGED toHost
    /\ UNCHANGED <<log, maint, host, srv, rd, wire, got, raced, spent>>

\* Where the consumer may start: START_OF_LOG, or the end it was told.
Starts == {0} \cup (IF FromEnd THEN {EndOffset(log)} ELSE {})

\* subscribe: a subscription in force is replaced.
Subscribe ==
    /\ spent.subs < MaxSubs
    /\ \E from \in Starts :
        LET c == [cl EXCEPT !.on = TRUE, !.next = from, !.seq = -1, !.inc = None,
                            !.sub = 0, !.wait = FALSE]
        IN  IF cl.up THEN SendSubscribe(c) ELSE cl' = c /\ UNCHANGED toHost
    /\ Spend("subs")
    /\ UNCHANGED <<log, maint, host, srv, rd, wire, got, raced>>

\* HostSubscription.close
Unsubscribe ==
    /\ cl.on
    /\ cl' = [cl EXCEPT !.on = FALSE, !.wait = FALSE]
    /\ toHost' = IF cl.up THEN Append(toHost, [op |-> "unsubscribe"]) ELSE toHost
    /\ UNCHANGED <<log, maint, host, srv, rd, wire, got, raced, spent>>

\* No answer to the subscribe within requestTimeoutMs: it is given up.
SubscribeTimesOut ==
    /\ cl.up /\ cl.wait
    /\ spent.drops < MaxDrops
    /\ cl' = [cl EXCEPT !.on = FALSE, !.wait = FALSE]
    /\ Spend("drops")
    /\ UNCHANGED <<log, maint, host, srv, rd, wire, toHost, got, raced>>

Answered(c, m) ==
    IF m.reset THEN [c EXCEPT !.next = m.first, !.seq = -1, !.inc = m.inc, !.wait = FALSE]
    ELSE IF c.inc = None THEN [c EXCEPT !.seq = -1, !.inc = m.inc, !.wait = FALSE]
    ELSE [c EXCEPT !.inc = m.inc, !.wait = FALSE]

InForce(m) == cl.on /\ m.sub = cl.sub

\* One message read: onMessage, for the subscription in force.
Reads(type) == cl.up /\ wire # <<>> /\ Head(wire).type = type /\ wire' = Tail(wire)
UnlessClient == <<log, maint, host, srv, rd, toHost, raced, spent>>

OnResponse ==
    /\ Reads("ok")
    /\ LET m == Head(wire)
       IN  cl' = IF InForce(m) /\ cl.wait THEN Answered(cl, m) ELSE cl
    /\ UNCHANGED got /\ UNCHANGED UnlessClient

OnRefused ==
    /\ Reads("unknown_agent")
    /\ cl' = IF InForce(Head(wire)) /\ cl.wait THEN [cl EXCEPT !.on = FALSE, !.wait = FALSE]
             ELSE cl
    /\ UNCHANGED got /\ UNCHANGED UnlessClient

\* A record is handed on unless its seq is not above the last one's.
Hands(m) == InForce(m) /\ m.off > cl.seq

OnEvent ==
    /\ Reads("event")
    /\ LET m == Head(wire)
       IN  IF Hands(m)
           THEN /\ cl' = [cl EXCEPT !.next = m.off + 1, !.seq = m.off, !.inc = m.inc]
                /\ got' = [id |-> m.rec.id, inc |-> m.inc]
           ELSE UNCHANGED <<cl, got>>
    /\ UNCHANGED UnlessClient

MutMoved(c, m) == [c EXCEPT !.next = m.to]

\* A log shorter than the cursor says writes seqs again that were seen.
Moved(c, m) == [c EXCEPT !.next = m.to, !.seq = IF m.ahead THEN -1 ELSE @]

OnGap ==
    /\ Reads("replay_gap")
    /\ cl' = IF InForce(Head(wire)) THEN Moved(cl, Head(wire)) ELSE cl
    /\ UNCHANGED got /\ UNCHANGED UnlessClient

OnCaughtUp ==
    /\ Reads("caught_up")
    /\ UNCHANGED <<cl, got>> /\ UNCHANGED UnlessClient

OnStreamClosed ==
    /\ Reads("stream_closed")
    /\ cl' = IF InForce(Head(wire)) THEN [cl EXCEPT !.on = FALSE, !.wait = FALSE] ELSE cl
    /\ UNCHANGED got /\ UNCHANGED UnlessClient

-----------------------------------------------------------------------------
(***************************************************************************)
(* Failures                                                                *)
(***************************************************************************)
Lost(c) == [c EXCEPT !.up = FALSE, !.wait = FALSE]

\* The connection drops; what was on its way is lost.
Drop ==
    /\ cl.up
    /\ spent.drops < MaxDrops
    /\ Disconnected
    /\ cl' = Lost(cl)
    /\ Spend("drops")
    /\ UNCHANGED <<log, maint, host, got, raced>>

\* A cursor the consumer kept: where the client stood at some moment.
Kept(c, n) == [Lost(c) EXCEPT !.on = TRUE, !.next = n, !.seq = n - 1, !.sub = 0]

\* The relay restarts and goes on from a cursor its consumer kept.
RelayRestart ==
    /\ spent.subs < MaxSubs
    /\ cl.inc # None
    /\ \E n \in 0 .. cl.next : cl' = Kept(cl, n)
    /\ Disconnected
    /\ Spend("subs")
    /\ UNCHANGED <<log, maint, host, got, raced>>

\* What a deletion cut short leaves of the directory.
HalfDeleted ==
    {[log EXCEPT !.named = n] : n \in BOOLEAN}
      \cup {[NewLog(log.inc) EXCEPT !.named = n] : n \in BOOLEAN}

\* The host's process dies, in the middle of a write or of a deletion.
HostCrash ==
    /\ host.up
    /\ spent.crashes < MaxCrashes
    /\ log' \in IF host.removing THEN HalfDeleted
                ELSE {log, [log EXCEPT !.torn = TRUE]}
    /\ host' = [host EXCEPT !.up = FALSE, !.removing = FALSE]
    /\ maint' = <<>>
    /\ Disconnected
    /\ cl' = Lost(cl)
    /\ Spend("crashes")
    /\ UNCHANGED <<got, raced>>

\* The machine dies: the host and the relay with it, and the active segment
\* may have lost what was not synced.
MachineCrash ==
    /\ host.up /\ ~host.removing
    /\ spent.losses < MaxLosses
    /\ cl.inc # None
    /\ \E k \in Active(log) .. EndOffset(log) :
        log' = [log EXCEPT !.recs = SubSeq(@, 1, k)]
    /\ \E n \in 0 .. cl.next : cl' = Kept(cl, n)
    /\ host' = [host EXCEPT !.up = FALSE]
    /\ maint' = <<>>
    /\ Disconnected
    /\ Spend("losses")
    /\ UNCHANGED <<got, raced>>

MutReopened(L) == [L EXCEPT !.failed = FALSE]

\* A start of the host: the agents' logs are opened, a torn tail is cut.
Reopened(L) == [L EXCEPT !.torn = FALSE, !.failed = FALSE]

HostRestart ==
    /\ ~host.up
    /\ host' = [host EXCEPT !.up = TRUE]
    /\ log' = IF host.known THEN Reopened(log) ELSE log
    /\ UNCHANGED <<maint, srv, rd, wire, toHost, cl, got, raced, spent>>

-----------------------------------------------------------------------------
Appends == AppendRecord \/ AppendFailsToRotate \/ AppendTears
Maintains == Compact \/ EnforceRetention
Replays ==
    \/ FileOpened \/ UseFile \/ FileGone
    \/ FileRead \/ UseRecords \/ LeaveSegment \/ NextSegment \/ EndOfLog
    \/ Drained
Serves == HandleSubscribe \/ HandleUnsubscribe
Lives == RemoveAgent \/ Destroyed \/ SpawnAgent
Receives ==
    OnResponse \/ OnRefused \/ OnEvent \/ OnGap \/ OnCaughtUp \/ OnStreamClosed
Consumes == Connect \/ Subscribe \/ Unsubscribe \/ SubscribeTimesOut
Fails == Drop \/ RelayRestart \/ HostCrash \/ MachineCrash \/ HostRestart

Next ==
    \/ Appends \/ Maintains \/ Replays \/ Serves \/ Lives
    \/ Receives \/ Consumes \/ Fails

(* What the code's scheduling gives: the loop and its threads go on, the    *)
(* socket delivers, the client reconnects, the host is started again.       *)
Fairness ==
    /\ WF_vars(Replays) /\ WF_vars(Serves) /\ WF_vars(Receives)
    /\ WF_vars(Connect) /\ WF_vars(HostRestart)

Spec == Init /\ [][Next]_vars
FairSpec == Spec /\ Fairness

-----------------------------------------------------------------------------
(***************************************************************************)
(* Properties                                                              *)
(***************************************************************************)
Messages ==
    [type : {"event"}, sub : Nat, inc : Nat, off : Nat, rec : Records]
      \cup [type : {"replay_gap"}, sub : Nat, to : Nat, ahead : BOOLEAN]
      \cup [type : {"ok"}, sub : Nat, first : Nat, inc : Nat, reset : BOOLEAN]
      \cup [type : {"unknown_agent", "caught_up", "stream_closed"}, sub : Nat]

TypeOK ==
    /\ log \in [inc : Nat, recs : Seq(Records), cuts : SUBSET Nat, first : Nat,
                packed : SUBSET Nat, torn : BOOLEAN, failed : BOOLEAN, named : BOOLEAN]
    /\ Active(log) <= EndOffset(log) /\ log.first \in log.cuts
    /\ maint \in Seq([do : {"compact", "retain"}, seg : Nat])
    /\ host \in [up : BOOLEAN, known : BOOLEAN, removing : BOOLEAN, life : Nat]
    /\ srv \in [mode : {"closed", "catchup", "live"}, cur : Nat, id : Nat, told : BOOLEAN]
    /\ rd \in [io : {"none", "drain", "opening", "opened", "gone", "reading", "read",
                     "closing"},
               seg : Nat \cup {None}, packed : BOOLEAN, cur : Nat, acc : SUBSET Nat,
               found : SUBSET Nat, tgt : Nat \cup {None}]
    /\ wire \in Seq(Messages)
    /\ toHost \in Seq([op : {"unsubscribe"}]
                        \cup [op : {"subscribe"}, id : Nat, from : Nat, inc : Nat \cup {None}])
    /\ cl \in [up : BOOLEAN, on : BOOLEAN, next : Nat, seq : Nat \cup {-1},
               inc : Nat \cup {None}, sub : Nat, ids : Nat, wait : BOOLEAN]
    /\ got \in [id : Nat, inc : Nat \cup {None}]
    /\ raced \subseteq Nat

\* A live subscription stands at the end of the log: nothing was appended
\* between the last look at the disk and the switch, and nothing is pushed out
\* of order.
LiveAtEnd == srv.mode = "live" => srv.cur = EndOffset(log)

\* However far behind the client is, what is queued for it is bounded.
BufferBounded ==
    Cardinality({i \in DOMAIN wire : wire[i].type = "event"}) <= HighWater + 2 * ReplayChunk - 1

\* The consumer's place in the log there is now, and what it was handed of it.
At     == IF cl.inc \in {None, log.inc} THEN cl.next ELSE 0
Handed == IF got.inc = log.inc THEN got.id ELSE 0
Ids    == [i \in DOMAIN log.recs |-> log.recs[i].id]

\* The records the consumer must not miss, and those of them that were not
\* appended behind a read that had already found the end of the file.
Owed    == {i \in DOMAIN log.recs : i > log.first /\ log.recs[i].kind # "part"}
Unraced == {i \in Owed : log.recs[i].id \notin raced}

Stream == INSTANCE ReliableStream
    WITH sent <- Ids, owed <- Owed, base <- log.first, at <- At, got <- Handed,
         asks <- spent.subs

StreamUnraced == INSTANCE ReliableStream
    WITH sent <- Ids, owed <- Unraced, base <- log.first, at <- At, got <- Handed,
         asks <- spent.subs

StreamSpec == Stream!Spec
\* Until the machine dies, that is: its log may then come back shorter.
StreamUnracedSpec ==
    /\ StreamUnraced!Init
    /\ [][spent.losses' = 0 => StreamUnraced!Next]_(StreamUnraced!vars)

\* The seq filter never swallows a record the cursor has not passed: also
\* after a log came back shorter, or is another.
FilterBehindCursor == cl.seq < cl.next

\* The stream catches up: a consumer that stays subscribed misses nothing it
\* is owed, but for the records raced past.
CatchesUp == <>[](cl.on => \A i \in Unraced : i <= At)

=============================================================================
