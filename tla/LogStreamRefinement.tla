------------------------- MODULE LogStreamRefinement -------------------------
(***************************************************************************)
(* That LogStream keeps the promise of ReliableStream, for every size of   *)
(* segment, buffer and chunk and any number of failures, and that the      *)
(* client's duplicate filter stays behind its cursor.                      *)
(*                                                                         *)
(* The invariant ties the two ends of the stream: whatever is on its way   *)
(* to the client moves its cursor, message by message, to a place from     *)
(* which the server's subscription goes on, and nothing that is skipped on *)
(* the way is owed (Joined).  Between the subscription and the disk, what  *)
(* the reader holds and has not returned yet closes the same gap           *)
(* (Follows).                                                              *)
(***************************************************************************)
EXTENDS LogStreamProofs

-----------------------------------------------------------------------------
(* What was and what may be left out.  As long as the machine has not died   *)
(* and the agent was not removed ("sure") its log only grows, and a record   *)
(* once free to be passed over stays so.                                     *)

Sure == spent.losses = 0 /\ spent.removals = 0
View == [log |-> log, raced |-> raced, sure |-> Sure]

Free(V) ==
    {o \in Offsets(V.log) : \/ o < V.log.first
                            \/ V.log.recs[o + 1].kind = "part"
                            \/ V.log.recs[o + 1].id \in V.raced}

\* From a on to b, nothing in between is owed.
Skips(a, b, V) ==
    /\ a <= b
    /\ V.sure => \A o \in Nat : a <= o /\ o < b => o \in Free(V)

\* A message moves the cursor of subscription sub from a to b.
EventLink(m, a, b, V) ==
    /\ m.type = "event"
    /\ Skips(a, m.off, V) /\ b = m.off + 1
    /\ V.sure => /\ m.off < EndOffset(V.log) /\ m.inc = V.log.inc
                 /\ m.rec = V.log.recs[m.off + 1]

GapLink(m, a, b, V) ==
    /\ m.type = "replay_gap"
    /\ b = m.to
    /\ m.ahead \/ a < m.to
    /\ V.sure => ~m.ahead /\ m.to <= V.log.first

ResponseLink(m, a, b, V) ==
    /\ m.type = "ok"
    /\ b = IF m.reset THEN m.first ELSE a
    /\ V.sure => ~m.reset /\ m.inc = V.log.inc

NoticeLink(m, a, b) ==
    m.type \in {"unknown_agent", "caught_up", "stream_closed"} /\ b = a

Link(m, a, b, sub, V) ==
    \/ m.sub # sub /\ b = a
    \/ /\ m.sub = sub
       /\ \/ EventLink(m, a, b, V) \/ GapLink(m, a, b, V)
          \/ ResponseLink(m, a, b, V) \/ NoticeLink(m, a, b)

\* The places a cursor at n goes through as the messages in w are read.
Chain(c, w, n, sub, V) ==
    /\ c \in [0 .. Len(w) -> Nat] /\ c[0] = n
    /\ \A i \in 1 .. Len(w) : Link(w[i], c[i - 1], c[i], sub, V)

\* Read to the end, they move it to e.
Reaches(w, n, e, sub, V) == \E c : Chain(c, w, n, sub, V) /\ c[Len(w)] = e

\* From there the server's subscription goes on.
LeadsTo(s, e, sub, V) ==
    s.mode # "closed" /\ s.id = sub => Skips(e, s.cur, V)

\* Once the client has read what is on its way to it, it stands where the
\* subscription's next record is the next it is owed.
Joined(w, s, n, sub, V) ==
    \E e \in Nat : Reaches(w, n, e, sub, V) /\ LeadsTo(s, e, sub, V)

ChainInv == cl.on => Joined(wire, srv, cl.next, cl.sub, View)

\* What lies between a subscription and its reader, the reader holds.
Follows(s, r, V) ==
    /\ s.cur <= r.cur
    /\ \A o \in r.acc : s.cur <= o /\ o < r.cur
    /\ V.sure => /\ r.cur <= EndOffset(V.log)
                 /\ \A o \in Nat : s.cur <= o /\ o < r.cur => o \in r.acc \/ o \in Free(V)

\* What a read did not bring, up to the last record it brought or the end of
\* the segment, is free.
FoundAll(r, V) ==
    IF r.found # {}
    THEN \A f \in r.found, o \in Nat : r.cur <= o /\ o < f => o \in r.found \/ o \in Free(V)
    ELSE \A o \in Nat : r.cur <= o /\ o < SegmentEnd(V.log, r.seg) => o \in Free(V)

ReadThrough(r, V) == \A o \in Nat : r.cur <= o /\ o < r.tgt => o \in Free(V)

ReaderInv ==
    rd.io # "none" =>
        /\ Follows(srv, rd, View)
        /\ View.sure /\ rd.io = "read" => FoundAll(rd, View)
        /\ View.sure /\ rd.io = "closing" => ReadThrough(rd, View)

\* Requests and answers carry the ids the client gave out, in that order.
IdsInv ==
    /\ cl.sub <= cl.ids
    /\ \A i \in DOMAIN wire : 1 <= wire[i].sub /\ wire[i].sub <= cl.ids
    /\ srv.mode # "closed" => 1 <= srv.id /\ srv.id <= cl.ids
    /\ \A i \in DOMAIN wire, j \in DOMAIN wire :
          i < j /\ wire[j].type = "ok" => wire[i].sub < wire[j].sub
    /\ \A j \in DOMAIN toHost : toHost[j].op = "subscribe" =>
          /\ 1 <= toHost[j].id /\ toHost[j].id <= cl.ids
          /\ srv.mode # "closed" => srv.id < toHost[j].id
          /\ \A i \in DOMAIN wire : wire[i].sub < toHost[j].id
          /\ \A i \in DOMAIN toHost :
                i < j /\ toHost[i].op = "subscribe" => toHost[i].id < toHost[j].id

\* The request in force was sent from where the client stands, and is answered
\* once.
PendingInv ==
    cl.on =>
        /\ \A i \in DOMAIN toHost :
              toHost[i].op = "subscribe" /\ toHost[i].id = cl.sub =>
                  toHost[i].from = cl.next /\ toHost[i].inc = cl.inc /\ cl.wait
        /\ \A i \in DOMAIN wire : wire[i].type = "ok" /\ wire[i].sub = cl.sub => cl.wait

\* Nothing was lost, and nobody is past the end.
SureInv ==
    Sure =>
        /\ log.inc = 1 /\ host.known /\ ~host.removing
        /\ host.up /\ log.torn => log.failed
        /\ \A i \in DOMAIN log.recs : log.recs[i].id <= spent.records /\ log.recs[i].kind # "glued"
        /\ cl.inc \in {None, 1} /\ cl.next <= EndOffset(log)
        /\ srv.cur <= EndOffset(log)
        /\ \A i \in DOMAIN toHost : toHost[i].op = "subscribe" =>
              toHost[i].inc \in {None, 1} /\ toHost[i].from <= EndOffset(log)

-----------------------------------------------------------------------------
(* How cursors move.                                                         *)

\* A later view: what was free is, and what was written stands.
Later(V, W) ==
    W.sure =>
        /\ V.sure /\ Free(V) \subseteq Free(W)
        /\ EndOffset(V.log) <= EndOffset(W.log)
        /\ V.log.first <= W.log.first /\ W.log.inc = V.log.inc
        /\ \A o \in Offsets(V.log) : W.log.recs[o + 1] = V.log.recs[o + 1]

LEMMA SkipsNothing == ASSUME NEW a \in Nat, NEW V PROVE Skips(a, a, V)
BY DEF Skips

LEMMA SkipsOn ==
  ASSUME NEW a \in Nat, NEW b \in Nat, NEW c \in Nat, NEW V, Skips(a, b, V), Skips(b, c, V)
  PROVE  Skips(a, c, V)
BY DEF Skips

LEMMA SkipsLater ==
  ASSUME NEW a, NEW b, NEW V, NEW W, Later(V, W), Skips(a, b, V)
  PROVE  Skips(a, b, W)
BY DEF Skips, Later

LEMMA LinkLater ==
  ASSUME NEW m \in Messages, NEW a \in Nat, NEW b \in Nat, NEW sub, NEW V, NEW W,
         Later(V, W), LogOK(V.log), LogOK(W.log),
         Link(m, a, b, sub, V)
  PROVE  Link(m, a, b, sub, W)
<1>0. /\ EndOffset(V.log) \in Nat /\ EndOffset(W.log) \in Nat
      /\ V.log.first \in Nat /\ W.log.first \in Nat
  BY LogEnds
<1>1. CASE m.sub # sub
  BY <1>1 DEF Link
<1>2. CASE m.sub = sub /\ EventLink(m, a, b, V)
  <2>1. m.off \in Nat /\ m.type = "event"
    BY <1>2, MessageFields DEF EventLink
  <2>2. Skips(a, m.off, W)
    BY <1>2, SkipsLater DEF EventLink
  <2>3. ASSUME W.sure
        PROVE  m.off < EndOffset(W.log) /\ m.inc = W.log.inc /\ m.rec = W.log.recs[m.off + 1]
    <3>1. m.off < EndOffset(V.log) /\ m.inc = V.log.inc /\ m.rec = V.log.recs[m.off + 1]
      BY <2>3, <1>2 DEF EventLink, Later
    <3>2. m.off \in Offsets(V.log)
      BY <3>1, <2>1 DEF Offsets
    <3>3. QED BY <2>1, <2>3, <3>1, <3>2, <1>0 DEF Later
  <2>4. EventLink(m, a, b, W)
    BY <1>2, <2>2, <2>3 DEF EventLink
  <2>5. QED BY <1>2, <2>4 DEF Link
<1>3. CASE m.sub = sub /\ GapLink(m, a, b, V)
  <2>1. m.to \in Nat
    BY <1>3, MessageFields DEF GapLink
  <2>2. GapLink(m, a, b, W)
    BY <1>3, <2>1, <1>0 DEF GapLink, Later
  <2>3. QED BY <1>3, <2>2 DEF Link
<1>4. CASE m.sub = sub /\ ResponseLink(m, a, b, V)
  BY <1>4 DEF ResponseLink, Later, Link
<1>5. CASE m.sub = sub /\ NoticeLink(m, a, b)
  BY <1>5 DEF Link
<1>6. QED BY <1>1, <1>2, <1>3, <1>4, <1>5 DEF Link

LEMMA ReachesIs ==
  ASSUME NEW w \in Seq(Messages), NEW n, NEW e, NEW sub, NEW V, Reaches(w, n, e, sub, V)
  PROVE  n \in Nat /\ e \in Nat
<1>1. PICK c : Chain(c, w, n, sub, V) /\ c[Len(w)] = e
  BY DEF Reaches
<1>2. Len(w) \in Nat /\ 0 \in 0 .. Len(w) /\ Len(w) \in 0 .. Len(w)
  BY LenProperties
<1>3. QED BY <1>1, <1>2 DEF Chain

LEMMA ReachesLater ==
  ASSUME NEW w \in Seq(Messages), NEW n, NEW e, NEW sub, NEW V, NEW W, Later(V, W),
         LogOK(V.log), LogOK(W.log), Reaches(w, n, e, sub, V)
  PROVE  Reaches(w, n, e, sub, W)
<1>1. PICK c : Chain(c, w, n, sub, V) /\ c[Len(w)] = e
  BY DEF Reaches
<1>2. ASSUME NEW i \in 1 .. Len(w)
      PROVE  Link(w[i], c[i - 1], c[i], sub, W)
  <2>1. w[i] \in Messages /\ Len(w) \in Nat
    BY ElementOfSeq, LenProperties
  <2>2. c[i - 1] \in Nat /\ c[i] \in Nat /\ Link(w[i], c[i - 1], c[i], sub, V)
    BY <1>1, <2>1 DEF Chain
  <2>3. QED BY <2>1, <2>2, LinkLater
<1>3. Chain(c, w, n, sub, W)
  BY <1>1, <1>2 DEF Chain
<1>4. QED BY <1>1, <1>3 DEF Reaches

\* Nothing for the subscription is on its way.
LEMMA ReachesNothing ==
  ASSUME NEW w \in Seq(Messages), NEW n \in Nat, NEW sub, NEW V,
         \A i \in 1 .. Len(w) : w[i].sub # sub
  PROVE  Reaches(w, n, n, sub, V)
<1> DEFINE c == [i \in 0 .. Len(w) |-> n]
<1>1. Len(w) \in Nat /\ 0 \in 0 .. Len(w) /\ Len(w) \in 0 .. Len(w)
  BY LenProperties
<1>2. c \in [0 .. Len(w) -> Nat] /\ c[0] = n /\ c[Len(w)] = n
  BY <1>1
<1>3. ASSUME NEW i \in 1 .. Len(w)
      PROVE  Link(w[i], c[i - 1], c[i], sub, V)
  <2>1. i - 1 \in 0 .. Len(w) /\ i \in 0 .. Len(w)
    BY <1>1
  <2>2. c[i - 1] = n /\ c[i] = n
    BY <2>1
  <2>3. QED BY <2>2 DEF Link
<1> HIDE DEF c
<1>4. QED BY <1>2, <1>3 DEF Reaches, Chain

\* One message more.
LEMMA ReachesPush ==
  ASSUME NEW w \in Seq(Messages), NEW m \in Messages, NEW n, NEW a, NEW b \in Nat,
         NEW sub, NEW V, Reaches(w, n, a, sub, V), Link(m, a, b, sub, V)
  PROVE  Reaches(Append(w, m), n, b, sub, V)
<1>1. PICK c : Chain(c, w, n, sub, V) /\ c[Len(w)] = a
  BY DEF Reaches
<1> DEFINE k == Len(w)
           v == Append(w, m)
           d == [i \in 0 .. k + 1 |-> IF i <= k THEN c[i] ELSE b]
<1>2. /\ k \in Nat /\ Len(v) = k + 1 /\ v[k + 1] = m
      /\ \A i \in 1 .. k : v[i] = w[i]
  BY AppendProperties, LenProperties
<1>3. c \in [0 .. k -> Nat] /\ c[0] = n
  BY <1>1 DEF Chain
<1> HIDE DEF v
<1>4. ASSUME NEW i \in 1 .. k + 1
      PROVE  Link(v[i], d[i - 1], d[i], sub, V)
  <2>0. i \in Int /\ i - 1 \in 0 .. k + 1 /\ i \in 0 .. k + 1 /\ i - 1 <= k
    BY <1>2
  <2>1. CASE i <= k
    <3>1. i \in 1 .. Len(w) /\ d[i - 1] = c[i - 1] /\ d[i] = c[i] /\ v[i] = w[i]
      BY <2>0, <2>1, <1>2
    <3>2. Link(w[i], c[i - 1], c[i], sub, V)
      BY <3>1, <1>1 DEF Chain
    <3>3. QED BY <3>1, <3>2
  <2>2. CASE i = k + 1
    <3>1. d[i - 1] = c[k] /\ d[i] = b /\ v[i] = m
      BY <2>0, <2>2, <1>2
    <3>2. QED BY <3>1, <1>1
  <2>3. QED BY <2>0, <2>1, <2>2, <1>2
<1>5. d \in [0 .. k + 1 -> Nat] /\ d[0] = n /\ d[k + 1] = b
  BY <1>2, <1>3
<1> HIDE DEF d, k
<1>6. Chain(d, v, n, sub, V) /\ d[Len(v)] = b
  BY <1>2, <1>4, <1>5 DEF Chain
<1>7. QED BY <1>6 DEF Reaches, v

\* The messages of a step more.
LEMMA ReachesOn ==
  ASSUME NEW w \in Seq(Messages), NEW v \in Seq(Messages), NEW n, NEW a, NEW e,
         NEW sub, NEW V, Reaches(w, n, a, sub, V), Reaches(v, a, e, sub, V)
  PROVE  Reaches(w \o v, n, e, sub, V)
<1>1. PICK c : Chain(c, w, n, sub, V) /\ c[Len(w)] = a
  BY DEF Reaches
<1>2. PICK p : Chain(p, v, a, sub, V) /\ p[Len(v)] = e
  BY DEF Reaches
<1> DEFINE k == Len(w)
           j == Len(v)
           u == w \o v
           d == [i \in 0 .. k + j |-> IF i <= k THEN c[i] ELSE p[i - k]]
<1>3. /\ k \in Nat /\ j \in Nat /\ Len(u) = k + j
      /\ \A i \in 1 .. k : u[i] = w[i]
      /\ \A i \in k + 1 .. k + j : u[i] = v[i - k]
  BY ConcatProperties, LenProperties
<1>4. c \in [0 .. k -> Nat] /\ c[0] = n /\ p \in [0 .. j -> Nat] /\ p[0] = a
  BY <1>1, <1>2 DEF Chain
<1> HIDE DEF u
<1>5. ASSUME NEW i \in 1 .. k + j
      PROVE  Link(u[i], d[i - 1], d[i], sub, V)
  <2>0. i \in Int /\ i - 1 \in 0 .. k + j /\ i \in 0 .. k + j
    BY <1>3
  <2>1. CASE i <= k
    <3>1. i \in 1 .. k /\ d[i - 1] = c[i - 1] /\ d[i] = c[i] /\ u[i] = w[i]
      BY <2>0, <2>1, <1>3
    <3>2. Link(w[i], c[i - 1], c[i], sub, V)
      BY <3>1, <1>1 DEF Chain
    <3>3. QED BY <3>1, <3>2
  <2>2. CASE i > k
    <3>0. i - k \in 1 .. j /\ i \in k + 1 .. k + j /\ ~(i <= k)
      BY <2>0, <2>2, <1>3
    <3>1. i - k \in 1 .. j /\ d[i] = p[i - k] /\ u[i] = v[i - k]
      BY <3>0, <2>0, <1>3
    <3>2. d[i - 1] = p[i - k - 1]
      <4>1. CASE i - 1 = k
        <5>1. d[i - 1] = c[k] /\ i - k - 1 = 0
          BY <2>0, <4>1, <1>3
        <5>2. QED BY <5>1, <1>1, <1>4
      <4>2. CASE i - 1 > k
        <5>1. d[i - 1] = p[(i - 1) - k] /\ (i - 1) - k = i - k - 1
          BY <2>0, <4>2, <1>3
        <5>2. QED BY <5>1
      <4>3. QED BY <2>0, <2>2, <1>3, <4>1, <4>2
    <3>3. Link(v[i - k], p[i - k - 1], p[i - k], sub, V)
      BY <3>1, <1>2 DEF Chain
    <3>4. QED BY <3>1, <3>2, <3>3
  <2>3. QED BY <2>0, <2>1, <2>2, <1>3
<1>6. d \in [0 .. k + j -> Nat]
  <2>1. ASSUME NEW i \in 0 .. k + j PROVE (IF i <= k THEN c[i] ELSE p[i - k]) \in Nat
    <3>1. CASE i <= k
      BY <3>1, <1>3, <1>4
    <3>2. CASE i > k
      <4>1. i - k \in 0 .. j /\ ~(i <= k)
        BY <3>2, <1>3
      <4>2. p[i - k] \in Nat
        BY <4>1, <1>4
      <4>3. QED BY <4>1, <4>2
    <3>3. QED BY <3>1, <3>2, <1>3
  <2>2. QED BY <2>1
<1>7. d[0] = n /\ d[k + j] = e
  <2>1. d[0] = n
    BY <1>3, <1>4
  <2>2. CASE j = 0
    <3>1. d[k + j] = c[k]
      BY <2>2, <1>3
    <3>2. QED BY <2>1, <2>2, <3>1, <1>1, <1>2, <1>4
  <2>3. CASE j > 0
    <3>1. d[k + j] = p[(k + j) - k] /\ (k + j) - k = j
      BY <2>3, <1>3
    <3>2. QED BY <2>1, <3>1, <1>2
  <2>4. QED BY <2>2, <2>3, <1>3
<1> HIDE DEF d, k, j
<1>8. Chain(d, u, n, sub, V) /\ d[Len(u)] = e
  BY <1>3, <1>5, <1>6, <1>7 DEF Chain
<1>9. QED BY <1>8 DEF Reaches, u

\* The first message is read.
LEMMA ReachesPop ==
  ASSUME NEW w \in Seq(Messages), w # <<>>, NEW n, NEW e, NEW sub, NEW V,
         Reaches(w, n, e, sub, V)
  PROVE  \E b \in Nat : Link(Head(w), n, b, sub, V) /\ Reaches(Tail(w), b, e, sub, V)
<1>1. PICK c : Chain(c, w, n, sub, V) /\ c[Len(w)] = e
  BY DEF Reaches
<1> DEFINE t == Tail(w)
           k == Len(w)
           d == [i \in 0 .. k - 1 |-> c[i + 1]]
<1>2. /\ k \in Nat \ {0} /\ Len(t) = k - 1 /\ Head(w) = w[1] /\ t \in Seq(Messages)
      /\ \A i \in 1 .. k - 1 : t[i] = w[i + 1]
  BY TailOK
<1>3. c \in [0 .. k -> Nat] /\ c[0] = n
  BY <1>1 DEF Chain
<1>4. 1 \in 0 .. k /\ 1 \in 1 .. k /\ 1 - 1 = 0
  BY <1>2
<1>5. c[1] \in Nat /\ Link(Head(w), n, c[1], sub, V)
  <2>1. Link(w[1], c[1 - 1], c[1], sub, V)
    BY <1>1, <1>4 DEF Chain
  <2>2. QED BY <2>1, <1>2, <1>3, <1>4
<1> HIDE DEF t
<1>6. d \in [0 .. k - 1 -> Nat] /\ d[0] = c[1] /\ d[k - 1] = c[k]
  BY <1>2, <1>3
<1>7. ASSUME NEW i \in 1 .. k - 1
      PROVE  Link(t[i], d[i - 1], d[i], sub, V)
  <2>1. i + 1 \in 1 .. k /\ i \in 0 .. k - 1 /\ i - 1 \in 0 .. k - 1 /\ (i - 1) + 1 = i
        /\ (i + 1) - 1 = i
    BY <1>2
  <2>2. d[i] = c[i + 1] /\ d[i - 1] = c[i] /\ t[i] = w[i + 1]
    BY <2>1, <1>2
  <2>3. Link(w[i + 1], c[(i + 1) - 1], c[i + 1], sub, V)
    BY <2>1, <1>1 DEF Chain
  <2>4. QED BY <2>1, <2>2, <2>3
<1> HIDE DEF d, k
<1>8. Chain(d, t, c[1], sub, V) /\ d[Len(t)] = e
  BY <1>1, <1>2, <1>6, <1>7 DEF Chain, k
<1>9. Reaches(t, c[1], e, sub, V)
  BY <1>8 DEF Reaches
<1>10. QED BY <1>5, <1>9 DEF t

-----------------------------------------------------------------------------
(* What the loop and a step write goes on from where the client will be.     *)

LEMMA CatchUpGoesOn ==
  ASSUME NEW L, LogOK(L), NEW s \in Subs, s.mode # "closed", NEW r, Ready(r, L),
         NEW w \in Seq(Messages), NEW V, V.log = L, Follows(s, r, V), CatchUp(s, r, w, L)
  PROVE  /\ Follows(srv', rd', V)
         /\ \A n, sub \in Nat : Joined(w, s, n, sub, V) => Joined(wire', srv', n, sub, V)
<1>0. /\ ReaderOK(rd', L) /\ rd'.acc = {} /\ srv' \in Subs
      /\ s.cur \in Nat /\ r.cur \in Nat /\ r.acc = {} /\ s.cur <= r.cur
      /\ EndOffset(L) \in Nat /\ L.first \in Nat /\ L.first <= EndOffset(L)
  BY CatchUpDoes, LogEnds DEF Subs, Ready, HoldsOK, Readers, Follows
<1>1. CASE srv' = s /\ wire' = w /\ rd'.cur = r.cur
  <2>1. Follows(srv', rd', V)
    BY <1>0, <1>1 DEF Follows
  <2>2. QED BY <2>1, <1>1
<1>2. CASE /\ r.seg = None /\ OutOfLog(r, L)
           /\ srv' = [s EXCEPT !.cur = Resume(r, L)] /\ rd'.cur = Resume(r, L)
           /\ wire' = Append(w, Gap(s, Resume(r, L), r.cur > EndOffset(L)))
  <2> DEFINE to == Resume(r, L)
             ahead == r.cur > EndOffset(L)
             m == Gap(s, to, ahead)
  <2>0. HoldsOK(r, L) /\ ahead \in BOOLEAN
    BY DEF Ready
  <2>1. to \in Nat /\ to <= EndOffset(L) /\ ahead \in BOOLEAN
    BY <2>0, <1>2, Resumes
  <2>2. ~ahead => to = L.first /\ r.cur < to
    BY <1>0, <1>2 DEF OutOfLog, Resume
  <2>3. V.sure => ~ahead
    BY <1>0 DEF Follows
  <2>4. srv'.cur = to /\ srv'.id = s.id /\ srv'.mode = s.mode /\ rd'.cur = to
    BY <2>1, <1>2 DEF Subs
  <2>5. m \in Messages /\ m.type = "replay_gap" /\ m.sub = s.id /\ m.to = to /\ m.ahead = ahead
    BY <2>1 DEF Gap, Messages, Subs
  <2>6. wire' = Append(w, m)
    BY <1>2
  <2> HIDE DEF m, to, ahead
  <2>7. Follows(srv', rd', V)
    BY <2>1, <2>4, <1>0 DEF Follows
  <2>8. ASSUME NEW n \in Nat, NEW sub \in Nat, Joined(w, s, n, sub, V)
        PROVE  Joined(wire', srv', n, sub, V)
    <3>1. PICK e \in Nat : Reaches(w, n, e, sub, V) /\ LeadsTo(s, e, sub, V)
      BY <2>8 DEF Joined
    <3>2. CASE s.id # sub
      <4>1. Link(m, e, e, sub, V)
        BY <3>2, <2>5 DEF Link
      <4>2. Reaches(wire', n, e, sub, V)
        BY <4>1, <3>1, <2>5, <2>6, ReachesPush
      <4>3. LeadsTo(srv', e, sub, V)
        BY <3>2, <2>4 DEF LeadsTo
      <4>4. QED BY <4>2, <4>3 DEF Joined
    <3>3. CASE s.id = sub
      <4>1. e <= s.cur
        BY <3>1, <3>3 DEF LeadsTo, Skips
      <4>2. ahead \/ e < to
        BY <4>1, <2>1, <2>2, <1>0
      <4>3. GapLink(m, e, to, V)
        BY <4>2, <2>1, <2>2, <2>3, <2>5, <1>0 DEF GapLink
      <4>4. Link(m, e, to, sub, V)
        BY <4>3, <3>3, <2>5 DEF Link
      <4>5. Reaches(wire', n, to, sub, V)
        BY <4>4, <3>1, <2>1, <2>5, <2>6, ReachesPush
      <4>6. LeadsTo(srv', to, sub, V)
        BY <2>1, <2>4, SkipsNothing DEF LeadsTo
      <4>7. QED BY <4>5, <4>6, <2>1 DEF Joined
    <3>4. QED BY <3>2, <3>3
  <2>9. QED BY <2>7, <2>8
<1>3. QED BY <1>1, <1>2, CatchUpDoes

LEMMA SortedCovers ==
  ASSUME NEW S, IsFiniteSet(S), S \subseteq Nat, NEW out, Sorted(S, out)
  PROVE  Onto(S, out)
<1>1. S \subseteq Int
  OBVIOUS
<1>2. QED BY <1>1, SortedIsOnto

LEMMA SortedEnds ==
  ASSUME NEW S, IsFiniteSet(S), S \subseteq Nat, S # {}, NEW out, Sorted(S, out)
  PROVE  LET n == Cardinality(S)
         IN  /\ n \in Nat \ {0} /\ \A i \in 1 .. n : out[i] \in S
             /\ \A x \in S : out[1] <= x /\ x <= out[n]
             /\ \A i \in 2 .. n : out[i - 1] < out[i]
             /\ \A i \in 2 .. n, x \in S : ~(out[i - 1] < x /\ x < out[i])
<1> DEFINE n == Cardinality(S)
<1>1. n \in Nat /\ n # 0
  BY FS_CardinalityType, FS_EmptySet
<1>2. \A i \in 1 .. n : out[i] \in S /\ out[i] \in Nat
  BY DEF Sorted
<1>3. \A i, j \in 1 .. n : i < j => out[i] < out[j]
  BY DEF Sorted
<1>4. \A x \in S : \E i \in 1 .. n : out[i] = x
  <2>1. Onto(S, out)
    BY SortedCovers
  <2>2. QED BY <2>1 DEF Onto
<1> HIDE DEF n
<1>5. ASSUME NEW x \in S PROVE out[1] <= x /\ x <= out[n]
  <2>1. PICK i \in 1 .. n : out[i] = x
    BY <1>4
  <2>2. 1 \in 1 .. n /\ n \in 1 .. n /\ i \in Int /\ (i = 1 \/ 1 < i) /\ (i = n \/ i < n)
    BY <1>1
  <2>3. out[1] <= out[i] /\ out[i] <= out[n]
    BY <2>2, <1>2, <1>3
  <2>4. QED BY <2>1, <2>3
<1>6. ASSUME NEW i \in 2 .. n
      PROVE  out[i - 1] < out[i] /\ \A x \in S : ~(out[i - 1] < x /\ x < out[i])
  <2>0. i \in 1 .. n /\ i - 1 \in 1 .. n /\ i - 1 < i /\ i \in Int
    BY <1>1
  <2>1. ASSUME NEW x \in S, out[i - 1] < x, x < out[i] PROVE FALSE
    <3>1. PICK j \in 1 .. n : out[j] = x
      BY <1>4
    <3>2. j \in Int /\ (j <= i - 1 \/ i <= j)
      BY <2>0
    <3>3. CASE j <= i - 1
      <4>1. out[j] <= out[i - 1]
        BY <3>3, <2>0, <1>2, <1>3
      <4>2. QED BY <4>1, <3>1, <2>1, <2>0, <1>2
    <3>4. CASE i <= j
      <4>1. out[i] <= out[j]
        BY <3>4, <3>2, <2>0, <1>2, <1>3
      <4>2. QED BY <4>1, <3>1, <2>1, <2>0, <1>2
    <3>5. QED BY <3>2, <3>3, <3>4
  <2>2. QED BY <2>0, <2>1, <1>3
<1>7. QED BY <1>1, <1>2, <1>5, <1>6 DEF n

LEMMA StepGoesOn ==
  ASSUME LogOK(log), srv \in Subs, srv.mode # "closed", wire \in Seq(Messages),
         NEW r \in Readers, Returnable(r), NEW V, V.log = log, Follows(srv, r, V),
         StepReturns(r)
  PROVE  /\ Follows(srv', rd', V)
         /\ \A n, sub \in Nat : Joined(wire, srv, n, sub, V) => Joined(wire', srv', n, sub, V)
<1> DEFINE n == Cardinality(r.acc)
           out == InOrder(r.acc)
           q == [r EXCEPT !.acc = {}]
           s == SubAfter(r)
           v == Events(r)
<1>1. /\ n \in Nat \ {0} /\ Sorted(r.acc, out)
      /\ v \in Seq(Messages) /\ Len(v) = n /\ wire \o v \in Seq(Messages)
      /\ out[n] \in r.acc /\ s \in Subs /\ s.cur = out[n] + 1 /\ s.id = srv.id
      /\ s.mode = srv.mode
      /\ Ready(q, log) /\ q.cur = r.cur
      /\ CatchUp(s, q, wire \o v, log)
  BY StepReturnsDoes DEF Returnable
<1>2. /\ r.acc \subseteq Offsets(log) /\ r.acc # {}
      /\ IsFiniteSet(r.acc) /\ r.acc \subseteq Nat
      /\ srv.cur \in Nat /\ r.cur \in Nat
  BY OffsetsFinite DEF Returnable, Subs, Readers
<1>3. v = [i \in 1 .. n |-> Event(srv, log, out[i])] /\ q.acc = {}
  BY DEF Events, Readers
<1> HIDE DEF out, s, v, q
<1>4. /\ \A i \in 1 .. n : out[i] \in r.acc
      /\ \A x \in r.acc : out[1] <= x /\ x <= out[n]
      /\ \A i \in 2 .. n : out[i - 1] < out[i]
      /\ \A i \in 2 .. n, x \in r.acc : ~(out[i - 1] < x /\ x < out[i])
  BY <1>1, <1>2, SortedEnds
<1> HIDE DEF n
<1>5. \A o \in r.acc : o \in Nat /\ srv.cur <= o /\ o < r.cur
  BY <1>2 DEF Follows
<1>6. V.sure => /\ r.cur <= EndOffset(log)
                /\ \A o \in Nat : srv.cur <= o /\ o < r.cur => o \in r.acc \/ o \in Free(V)
  BY DEF Follows
<1>7. Follows(s, q, V)
  <2>1. s.cur <= q.cur /\ s.cur \in Nat
    BY <1>1, <1>2, <1>5
  <2>2. ASSUME V.sure, NEW o \in Nat, s.cur <= o, o < q.cur PROVE o \in Free(V)
    <3>1. out[n] \in Nat /\ out[n] < o /\ srv.cur <= o /\ o < r.cur
      BY <2>2, <1>1, <1>2, <1>5
    <3>2. o \notin r.acc
      BY <3>1, <1>4
    <3>3. QED BY <3>1, <3>2, <2>2, <1>6
  <2>3. QED BY <2>1, <2>2, <1>1, <1>3, <1>6 DEF Follows
<1>8. ASSUME NEW k \in Nat, NEW sub \in Nat, Joined(wire, srv, k, sub, V)
      PROVE  Joined(wire \o v, s, k, sub, V)
  <2>1. PICK e \in Nat : Reaches(wire, k, e, sub, V) /\ LeadsTo(srv, e, sub, V)
    BY <1>8 DEF Joined
  <2>2. \A i \in 1 .. n : v[i] = Event(srv, log, out[i]) /\ v[i].sub = srv.id
    BY <1>3 DEF Event
  <2>3. CASE srv.id # sub
    <3>1. Reaches(v, e, e, sub, V)
      BY <2>2, <2>3, <1>1, ReachesNothing
    <3>2. Reaches(wire \o v, k, e, sub, V)
      BY <3>1, <2>1, <1>1, ReachesOn
    <3>3. LeadsTo(s, e, sub, V)
      BY <2>3, <1>1 DEF LeadsTo
    <3>4. QED BY <3>2, <3>3 DEF Joined
  <2>4. CASE srv.id = sub
    <3> DEFINE p == [i \in 0 .. n |-> IF i = 0 THEN e ELSE out[i] + 1]
    <3>1. Skips(e, srv.cur, V)
      BY <2>1, <2>4 DEF LeadsTo
    <3>2. p \in [0 .. n -> Nat] /\ p[0] = e /\ p[n] = out[n] + 1
      <4>1. ASSUME NEW i \in 0 .. n PROVE (IF i = 0 THEN e ELSE out[i] + 1) \in Nat
        <5>1. CASE i = 0
          BY <5>1
        <5>2. CASE i # 0
          <6>1. i \in 1 .. n
            BY <5>2, <1>1
          <6>2. QED BY <6>1, <5>2, <1>4, <1>5
        <5>3. QED BY <5>1, <5>2
      <4>2. QED BY <4>1, <1>1
    <3>3. ASSUME NEW i \in 1 .. n PROVE Link(v[i], p[i - 1], p[i], sub, V)
      <4> DEFINE a == p[i - 1]
      <4>1. out[i] \in r.acc /\ out[i] \in Nat /\ out[i] < EndOffset(log)
        BY <1>2, <1>4 DEF Offsets
      <4>2. p[i] = out[i] + 1 /\ i \in Int
        BY <1>1
      <4>3. Skips(a, out[i], V)
        <5>1. CASE i = 1
          <6>1. a = e /\ srv.cur <= out[1] /\ e <= srv.cur
            BY <5>1, <3>1, <3>2, <4>1, <1>5 DEF Skips
          <6>2. ASSUME V.sure, NEW o \in Nat, e <= o, o < out[1] PROVE o \in Free(V)
            <7>1. o \notin r.acc /\ o < r.cur
              BY <6>2, <5>1, <4>1, <1>2, <1>4, <1>5
            <7>2. CASE o < srv.cur
              BY <7>2, <6>2, <3>1 DEF Skips
            <7>3. CASE srv.cur <= o
              BY <7>1, <7>3, <6>2, <1>6
            <7>4. QED BY <7>2, <7>3, <1>2
          <6>3. e <= out[1]
            BY <6>1, <5>1, <4>1, <1>2
          <6>4. QED BY <6>1, <6>2, <6>3, <5>1 DEF Skips
        <5>2. CASE i # 1
          <6>1. i \in 2 .. n /\ i - 1 \in 1 .. n /\ i - 1 # 0 /\ i - 1 \in 0 .. n
            BY <5>2, <1>1
          <6>2. a = out[i - 1] + 1 /\ out[i - 1] \in r.acc /\ out[i - 1] < out[i]
            BY <6>1, <1>4
          <6>3. out[i - 1] \in Nat /\ srv.cur <= out[i - 1]
            BY <6>2, <1>5
          <6>4. ASSUME V.sure, NEW o \in Nat, a <= o, o < out[i] PROVE o \in Free(V)
            <7>1. out[i - 1] < o /\ srv.cur <= o
              BY <6>2, <6>3, <6>4, <1>2
            <7>2. o \notin r.acc
              BY <7>1, <6>1, <6>4, <1>4
            <7>3. o < r.cur
              BY <6>4, <4>1, <1>2, <1>5
            <7>4. QED BY <7>1, <7>2, <7>3, <6>4, <1>6
          <6>5. a <= out[i]
            BY <6>2, <6>3, <4>1
          <6>6. QED BY <6>4, <6>5 DEF Skips
        <5>3. QED BY <5>1, <5>2
      <4>4. /\ v[i].type = "event" /\ v[i].off = out[i] /\ v[i].sub = sub
            /\ v[i].inc = log.inc /\ v[i].rec = log.recs[out[i] + 1]
        <5> HIDE DEF a, p
        <5>1. v[i] = Event(srv, log, out[i])
          BY <2>2
        <5>2. QED BY <5>1, <2>4 DEF Event
      <4> HIDE DEF a, p
      <4>5. EventLink(v[i], a, p[i], V)
        BY <4>1, <4>2, <4>3, <4>4 DEF EventLink
      <4>6. QED BY <4>4, <4>5 DEF Link, a
    <3> HIDE DEF p
    <3>4. Chain(p, v, e, sub, V) /\ p[Len(v)] = out[n] + 1
      BY <3>2, <3>3, <1>1 DEF Chain
    <3>5. Reaches(v, e, out[n] + 1, sub, V)
      BY <3>4 DEF Reaches
    <3>6. Reaches(wire \o v, k, s.cur, sub, V)
      BY <3>5, <2>1, <1>1, ReachesOn
    <3>7. s.cur \in Nat
      BY <1>1 DEF Subs
    <3>8. LeadsTo(s, s.cur, sub, V)
      BY <3>7, SkipsNothing DEF LeadsTo
    <3>9. QED BY <3>6, <3>7, <3>8 DEF Joined
  <2>5. QED BY <2>3, <2>4
<1>9. /\ Follows(srv', rd', V)
      /\ \A k, sub \in Nat : Joined(wire \o v, s, k, sub, V) => Joined(wire', srv', k, sub, V)
  BY <1>1, <1>7, CatchUpGoesOn
<1>10. QED BY <1>8, <1>9

-----------------------------------------------------------------------------
(* What a step adds to the messages on their way.                            *)

\* v is w with more messages of the subscription, none of them a response.
Grown(w, v, id) ==
    /\ Len(w) <= Len(v)
    /\ \A i \in 1 .. Len(w) : v[i] = w[i]
    /\ \A i \in Len(w) + 1 .. Len(v) : v[i].sub = id /\ v[i].type # "ok"

LEMMA GrownNot == ASSUME NEW w \in Seq(Messages), NEW id PROVE Grown(w, w, id)
<1>1. Len(w) \in Nat
  BY LenProperties
<1> DEFINE k == Len(w)
<1> HIDE DEF k
<1>2. k \in Nat /\ \A i \in k + 1 .. k : FALSE
  BY <1>1 DEF k
<1>3. QED BY <1>2 DEF Grown, k

LEMMA GrownOne ==
  ASSUME NEW w \in Seq(Messages), NEW m \in Messages, m.type # "ok"
  PROVE  Grown(w, Append(w, m), m.sub)
<1> DEFINE v == Append(w, m)
           k == Len(w)
<1>1. k \in Nat /\ Len(v) = k + 1 /\ v[k + 1] = m /\ \A i \in 1 .. k : v[i] = w[i]
  BY AppendProperties, LenProperties
<1> HIDE DEF v, k
<1>2. \A i \in k + 1 .. k + 1 : i = k + 1
  BY <1>1
<1>3. QED BY <1>1, <1>2 DEF Grown, v, k

LEMMA GrownOn ==
  ASSUME NEW w \in Seq(Messages), NEW v \in Seq(Messages), NEW u \in Seq(Messages), NEW id,
         Grown(w, v, id), Grown(v, u, id)
  PROVE  Grown(w, u, id)
<1> DEFINE a == Len(w)
           b == Len(v)
           c == Len(u)
<1>1. a \in Nat /\ b \in Nat /\ c \in Nat
  BY LenProperties
<1>2. /\ a <= b /\ \A i \in 1 .. a : v[i] = w[i]
      /\ \A i \in a + 1 .. b : v[i].sub = id /\ v[i].type # "ok"
      /\ b <= c /\ \A i \in 1 .. b : u[i] = v[i]
      /\ \A i \in b + 1 .. c : u[i].sub = id /\ u[i].type # "ok"
  BY DEF Grown
<1> HIDE DEF a, b, c
<1>3. a <= c /\ \A i \in 1 .. a : u[i] = w[i]
  BY <1>1, <1>2
<1>4. ASSUME NEW i \in a + 1 .. c PROVE u[i].sub = id /\ u[i].type # "ok"
  <2>1. CASE i <= b
    <3>1. i \in a + 1 .. b /\ i \in 1 .. b
      BY <2>1, <1>1
    <3>2. QED BY <3>1, <1>2
  <2>2. CASE i > b
    <3>1. i \in b + 1 .. c
      BY <2>2, <1>1
    <3>2. QED BY <3>1, <1>2
  <2>3. QED BY <2>1, <2>2, <1>1
<1>5. QED BY <1>3, <1>4 DEF Grown, a, b, c

LEMMA CatchUpGrows ==
  ASSUME NEW L, LogOK(L), NEW s \in Subs, NEW r, Ready(r, L), NEW w \in Seq(Messages),
         CatchUp(s, r, w, L)
  PROVE  Grown(w, wire', s.id)
<1>1. CASE wire' = w
  BY <1>1, GrownNot
<1>2. CASE OutOfLog(r, L) /\ wire' = Append(w, Gap(s, Resume(r, L), r.cur > EndOffset(L)))
  <2> DEFINE to == Resume(r, L)
             ahead == r.cur > EndOffset(L)
             m == Gap(s, to, ahead)
  <2>1. HoldsOK(r, L) /\ ahead \in BOOLEAN
    BY DEF Ready
  <2>2. to \in Nat
    BY <2>1, <1>2, Resumes
  <2> HIDE DEF to, ahead
  <2>3. m \in Messages /\ m.type # "ok" /\ m.sub = s.id
    BY <2>1, <2>2 DEF Gap, Messages, Subs
  <2> HIDE DEF m
  <2>4. Grown(w, Append(w, m), s.id)
    BY <2>3, GrownOne
  <2>5. QED BY <2>4, <1>2 DEF m, to, ahead
<1>3. QED BY <1>1, <1>2, CatchUpDoes

LEMMA ConcatIs ==
  ASSUME NEW w \in Seq(Messages), NEW v \in Seq(Messages)
  PROVE  /\ Len(w) \in Nat /\ Len(v) \in Nat /\ Len(w \o v) = Len(w) + Len(v)
         /\ \A i \in 1 .. Len(w) : (w \o v)[i] = w[i]
         /\ \A i \in Len(w) + 1 .. Len(w) + Len(v) : (w \o v)[i] = v[i - Len(w)]
BY ConcatProperties, LenProperties

LEMMA StepGrows ==
  ASSUME LogOK(log), srv \in Subs, wire \in Seq(Messages),
         NEW r \in Readers, Returnable(r), StepReturns(r)
  PROVE  Grown(wire, wire', srv.id) /\ srv'.id = srv.id /\ srv'.mode = srv.mode
<1> DEFINE n == Cardinality(r.acc)
           q == [r EXCEPT !.acc = {}]
           s == SubAfter(r)
           v == Events(r)
<1>1. /\ n \in Nat \ {0} /\ Sorted(r.acc, InOrder(r.acc))
      /\ v \in Seq(Messages) /\ Len(v) = n /\ wire \o v \in Seq(Messages)
      /\ s \in Subs /\ s.id = srv.id /\ s.mode = srv.mode
      /\ Ready(q, log)
      /\ CatchUp(s, q, wire \o v, log)
  BY StepReturnsDoes DEF Returnable
<1>2. \A i \in 1 .. n : v[i].sub = srv.id /\ v[i].type # "ok"
  BY DEF Events, Event
<1> HIDE DEF n, q, s, v
<1>3. Grown(wire, wire \o v, srv.id)
  <2> DEFINE k == Len(wire)
             u == wire \o v
  <2>1. /\ k \in Nat /\ Len(u) = k + n /\ \A i \in 1 .. k : u[i] = wire[i]
        /\ \A i \in k + 1 .. k + n : u[i] = v[i - k]
    <3>0. wire \in Seq(Messages) /\ v \in Seq(Messages) /\ Len(v) = n /\ n \in Nat
      BY <1>1
    <3>1. /\ k \in Nat /\ Len(u) = k + Len(v) /\ \A i \in 1 .. k : u[i] = wire[i]
          /\ \A i \in k + 1 .. k + Len(v) : u[i] = v[i - k]
      BY <3>0, ConcatIs
    <3> HIDE DEF k, u
    <3>2. QED BY <3>0, <3>1
  <2> HIDE DEF k, u
  <2>2. ASSUME NEW i \in k + 1 .. k + n PROVE u[i].sub = srv.id /\ u[i].type # "ok"
    <3>1. i - k \in 1 .. n
      BY <2>1, <1>1
    <3>2. QED BY <3>1, <2>1, <1>2
  <2>3. k <= k + n
    BY <2>1, <1>1
  <2>4. QED BY <2>1, <2>2, <2>3 DEF Grown, k, u
<1>4. /\ Grown(wire \o v, wire', s.id) /\ wire' \in Seq(Messages)
      /\ srv'.id = s.id /\ srv'.mode = s.mode
  BY <1>1, CatchUpGrows, CatchUpDoes
<1>5. QED BY <1>1, <1>3, <1>4, GrownOn

-----------------------------------------------------------------------------
(* The log only grows.                                                       *)

LEMMA LaterIf ==
  ASSUME NEW L, LogOK(L), NEW M, LogOK(M), EndOffset(L) <= EndOffset(M),
         L.first <= M.first, M.inc = L.inc,
         \A o \in Offsets(L) : M.recs[o + 1] = L.recs[o + 1],
         NEW R, NEW Q, R \subseteq Q, NEW x, NEW y, y => x
  PROVE  Later([log |-> L, raced |-> R, sure |-> x], [log |-> M, raced |-> Q, sure |-> y])
<1> DEFINE V == [log |-> L, raced |-> R, sure |-> x]
           W == [log |-> M, raced |-> Q, sure |-> y]
<1>1. EndOffset(L) \in Nat /\ EndOffset(M) \in Nat /\ L.first \in Nat /\ M.first \in Nat
  BY LogEnds
<1>2. V.log = L /\ V.raced = R /\ V.sure = x /\ W.log = M /\ W.raced = Q /\ W.sure = y
  OBVIOUS
<1> HIDE DEF V, W
<1>3. ASSUME NEW o \in Free(V) PROVE o \in Free(W)
  <2>1. /\ o \in Offsets(L) /\ o \in Nat
        /\ o < L.first \/ L.recs[o + 1].kind = "part" \/ L.recs[o + 1].id \in R
    BY <1>2 DEF Free, Offsets
  <2>2. o \in Offsets(M)
    BY <2>1, <1>1 DEF Offsets
  <2>3. o < M.first \/ M.recs[o + 1].kind = "part" \/ M.recs[o + 1].id \in Q
    BY <2>1, <1>1
  <2>4. QED BY <2>2, <2>3, <1>2 DEF Free
<1>4. Later(V, W)
  BY <1>2, <1>3 DEF Later
<1>5. QED BY <1>4 DEF V, W

LEMMA Forsaken == ASSUME NEW V, NEW W, ~W.sure PROVE Later(V, W)
BY DEF Later

LEMMA ViewSame ==
  ASSUME LogOK(log), LogOK(log'), log'.recs = log.recs, log'.inc = log.inc,
         log.first <= log'.first, raced' = raced, Sure' => Sure
  PROVE  Later(View, View')
<1> DEFINE M == log'
           Q == raced'
           y == Sure'
<1>1. /\ LogOK(M) /\ M.recs = log.recs /\ M.inc = log.inc /\ log.first <= M.first
      /\ raced \subseteq Q /\ (y => Sure)
  OBVIOUS
<1>2. EndOffset(log) \in Nat /\ EndOffset(log) = EndOffset(M)
  BY <1>1, LogEnds DEF EndOffset
<1>3. EndOffset(log) <= EndOffset(M)
  BY <1>2
<1> HIDE DEF M, Q, y
<1>4. Later([log |-> log, raced |-> raced, sure |-> Sure], [log |-> M, raced |-> Q, sure |-> y])
  BY <1>1, <1>3, LaterIf
<1>5. QED BY <1>4 DEF View, M, Q, y

\* The record an append writes.
New(kind) ==
    [id |-> spent.records + 1, life |-> host.life, kind |-> IF log.torn THEN "glued" ELSE kind]

\* Both ways a record gets on disk.
Writes(kind) ==
    /\ LogOK(log') /\ log'.recs = Append(log.recs, New(kind)) /\ New(kind) \in Records
    /\ EndOffset(log') = EndOffset(log) + 1
    /\ log'.first = log.first /\ log'.inc = log.inc /\ ~log'.torn
    /\ log'.cuts = log.cuts \/ log'.cuts = log.cuts \cup {EndOffset(log')}
    /\ OnLive(log', EndOffset(log)) /\ Races
    /\ UNCHANGED <<host, toHost, cl, got>>
    /\ host.up /\ host.known /\ ~log.failed
    /\ spent'.records = spent.records + 1
    /\ spent'.losses = spent.losses /\ spent'.removals = spent.removals
    /\ spent'.subs = spent.subs

LEMMA AppendDoes ==
  ASSUME TypeInv, AppendRecord \/ AppendFailsToRotate
  PROVE  \E kind \in Kinds : Writes(kind)
<1>0. /\ spent \in Budgets /\ spent.records + 1 \in Nat /\ log \in Logs /\ EndOffset(log) \in Nat
  BY LogEnds DEF TypeInv, Budgets, LogOK
<1>1. CASE AppendRecord
  <2>1. PICK kind \in Kinds :
          /\ Writable
          /\ log' = Rotated(Written(kind)) \/ log' = Written(kind)
          /\ OnLive(log', EndOffset(log)) /\ Races
          /\ Spend("records") /\ UNCHANGED <<host, toHost, cl, got>>
    BY <1>1 DEF AppendRecord
  <2> DEFINE L == Written(kind)
  <2>2. /\ LogOK(L) /\ New(kind) \in Records /\ L.recs = Append(log.recs, New(kind))
        /\ L = [log EXCEPT !.recs = Append(log.recs, New(kind)), !.torn = FALSE]
        /\ L.cuts = log.cuts /\ L.first = log.first /\ L.inc = log.inc
        /\ EndOffset(L) = EndOffset(log) + 1
    BY WritingOK DEF New
  <2>3. ~L.torn
    BY <2>2, <1>0 DEF Logs
  <2> HIDE DEF L
  <2>4. /\ LogOK(Rotated(L)) /\ EndOffset(Rotated(L)) = EndOffset(L)
        /\ Rotated(L).recs = L.recs /\ Rotated(L).cuts = L.cuts \cup {EndOffset(L)}
        /\ Rotated(L).first = L.first /\ Rotated(L).inc = L.inc
    BY <2>2, RotatingOK
  <2>5. ~Rotated(L).torn
    BY <2>2, <2>3 DEF Rotated, LogOK, Logs
  <2>6. log' = Rotated(L) \/ log' = L
    BY <2>1 DEF L
  <2>7. /\ LogOK(log') /\ log'.recs = Append(log.recs, New(kind))
        /\ EndOffset(log') = EndOffset(log) + 1
        /\ log'.first = log.first /\ log'.inc = log.inc /\ ~log'.torn
        /\ log'.cuts = log.cuts \/ log'.cuts = log.cuts \cup {EndOffset(log')}
    BY <2>2, <2>3, <2>4, <2>5, <2>6
  <2>8. /\ spent'.records = spent.records + 1
        /\ spent'.losses = spent.losses /\ spent'.removals = spent.removals
        /\ spent'.subs = spent.subs
    BY <2>1, <1>0 DEF Spend, Budgets
  <2>9. Writes(kind)
    BY <2>1, <2>2, <2>7, <2>8 DEF Writes, Writable
  <2>10. QED BY <2>9
<1>2. CASE AppendFailsToRotate
  <2>1. PICK kind \in Kinds :
          /\ Writable
          /\ log' = [Written(kind) EXCEPT !.failed = TRUE]
          /\ OnLive(log', EndOffset(log)) /\ Races
          /\ spent' = [spent EXCEPT !.records = @ + 1, !.fails = @ + 1]
          /\ UNCHANGED <<host, toHost, cl, got>>
    BY <1>2 DEF AppendFailsToRotate
  <2> DEFINE L == Written(kind)
             M == [L EXCEPT !.failed = TRUE]
  <2>2. /\ LogOK(L) /\ New(kind) \in Records /\ L.recs = Append(log.recs, New(kind))
        /\ L = [log EXCEPT !.recs = Append(log.recs, New(kind)), !.torn = FALSE]
        /\ L.cuts = log.cuts /\ L.first = log.first /\ L.inc = log.inc
        /\ EndOffset(L) = EndOffset(log) + 1
    BY WritingOK DEF New
  <2>3. ~L.torn
    BY <2>2, <1>0 DEF Logs
  <2> HIDE DEF L
  <2>4. /\ M.recs = L.recs /\ M.cuts = L.cuts /\ M.first = L.first /\ M.inc = L.inc
        /\ ~M.torn
    BY <2>2, <2>3 DEF LogOK, Logs
  <2>5. LogOK(M) /\ EndOffset(M) = EndOffset(L)
    BY <2>2, <2>4, LogFieldsOK DEF EndOffset
  <2>6. log' = M
    BY <2>1 DEF L
  <2> HIDE DEF M
  <2>7. /\ LogOK(log') /\ log'.recs = Append(log.recs, New(kind))
        /\ EndOffset(log') = EndOffset(log) + 1
        /\ log'.first = log.first /\ log'.inc = log.inc /\ ~log'.torn
        /\ log'.cuts = log.cuts
    BY <2>2, <2>4, <2>5, <2>6
  <2>8. /\ spent'.records = spent.records + 1
        /\ spent'.losses = spent.losses /\ spent'.removals = spent.removals
        /\ spent'.subs = spent.subs
    BY <2>1, <1>0 DEF Budgets
  <2>9. Writes(kind)
    BY <2>1, <2>2, <2>7, <2>8 DEF Writes, Writable
  <2>10. QED BY <2>9
<1>3. QED BY <1>1, <1>2

\* The records there were, and one more.
LEMMA RecordsAfter ==
  ASSUME LogOK(log), NEW kind, Writes(kind)
  PROVE  /\ \A o \in Offsets(log) : log'.recs[o + 1] = log.recs[o + 1]
         /\ log'.recs[EndOffset(log) + 1] = New(kind)
         /\ DOMAIN log'.recs = 1 .. EndOffset(log) + 1 /\ DOMAIN log.recs = 1 .. EndOffset(log)
         /\ EndOffset(log) \in Nat
<1> DEFINE x == New(kind)
           M == log'
<1>1. log.recs \in Seq(Records) /\ x \in Records /\ M.recs = Append(log.recs, x)
  BY LogEnds DEF Writes
<1>2. Len(log.recs) = EndOffset(log) /\ Len(M.recs) = EndOffset(M)
  BY DEF EndOffset
<1> HIDE DEF x, M
<1>3. /\ M.recs \in Seq(Records) /\ Len(M.recs) = EndOffset(log) + 1 /\ EndOffset(log) \in Nat
      /\ \A i \in 1 .. EndOffset(log) : M.recs[i] = log.recs[i]
      /\ M.recs[EndOffset(log) + 1] = x
  BY <1>1, <1>2, AppendProperties, LenProperties
<1>4. DOMAIN M.recs = 1 .. EndOffset(log) + 1 /\ DOMAIN log.recs = 1 .. EndOffset(log)
  BY <1>1, <1>2, <1>3, LenProperties
<1>5. ASSUME NEW o \in Offsets(log) PROVE M.recs[o + 1] = log.recs[o + 1]
  <2>1. o + 1 \in 1 .. EndOffset(log)
    BY <1>3 DEF Offsets
  <2>2. QED BY <2>1, <1>3
<1>6. QED BY <1>3, <1>4, <1>5 DEF x, M

LEMMA ViewAfterWrite ==
  ASSUME LogOK(log), NEW kind, Writes(kind)
  PROVE  Later(View, View')
<1> DEFINE M == log'
           Q == raced'
           y == Sure'
<1>1. /\ LogOK(M) /\ M.inc = log.inc /\ log.first = M.first
      /\ EndOffset(M) = EndOffset(log) + 1
      /\ raced \subseteq Q /\ (y => Sure)
  BY DEF Writes, Races, Sure
<1>2. /\ \A o \in Offsets(log) : M.recs[o + 1] = log.recs[o + 1]
      /\ EndOffset(log) \in Nat /\ log.first \in Nat
  BY RecordsAfter, LogEnds
<1> HIDE DEF M, Q, y
<1>3. EndOffset(log) <= EndOffset(M) /\ log.first <= M.first
  BY <1>1, <1>2
<1>4. Later([log |-> log, raced |-> raced, sure |-> Sure], [log |-> M, raced |-> Q, sure |-> y])
  BY <1>1, <1>2, <1>3, LaterIf
<1>5. QED BY <1>4 DEF View, M, Q, y

LEMMA SpendingOn ==
  ASSUME spent \in Budgets,
         NEW what \in {"records", "drops", "crashes", "losses", "removals", "subs", "fails"},
         Spend(what)
  PROVE  /\ Sure' => Sure
         /\ what \in {"losses", "removals"} => ~Sure'
         /\ what \notin {"losses", "removals"} /\ Sure => Sure'
         /\ what # "records" => spent'.records = spent.records
         /\ what # "subs" => spent'.subs = spent.subs
         /\ what = "subs" => spent'.subs = spent.subs + 1
<1>1. /\ spent.losses \in Nat /\ spent.removals \in Nat /\ spent[what] \in Nat
      /\ what \in DOMAIN spent
  BY DEF Budgets
<1>2. spent' = [spent EXCEPT ![what] = spent[what] + 1]
  BY DEF Spend
<1>3. /\ spent'.losses = IF what = "losses" THEN spent.losses + 1 ELSE spent.losses
      /\ spent'.removals = IF what = "removals" THEN spent.removals + 1 ELSE spent.removals
      /\ what # "records" => spent'.records = spent.records
      /\ spent'.subs = IF what = "subs" THEN spent.subs + 1 ELSE spent.subs
  BY <1>2 DEF Budgets
<1>4. QED BY <1>1, <1>3 DEF Sure

\* Nothing of the log is lost by any step but the machine's death and the
\* agent's removal.
LEMMA ViewAhead ==
  ASSUME TypeInv, TypeInv', SureInv, [Next]_vars
  PROVE  Later(View, View')
<1>0. /\ LogOK(log) /\ LogOK(log') /\ spent \in Budgets /\ log.first \in Nat
      /\ log.inc = log.inc /\ log.first <= log.first
  BY LogEnds DEF TypeInv
<1> SUFFICES ASSUME Sure' PROVE Later(View, View')
  BY Forsaken DEF View
<1>1. CASE /\ log'.recs = log.recs /\ log'.inc = log.inc /\ log.first <= log'.first
           /\ raced' = raced /\ (Sure' => Sure)
  BY <1>0, <1>1, ViewSame
<1>2. CASE UNCHANGED vars
  BY <1>0, <1>1, <1>2 DEF vars, Sure
<1>3. CASE Appends
  <2>1. CASE AppendTears
    <3>1. /\ log' = [log EXCEPT !.failed = TRUE, !.torn = TRUE] /\ UNCHANGED raced
          /\ Spend("fails")
      BY <2>1 DEF AppendTears
    <3>2. log'.recs = log.recs /\ log'.inc = log.inc /\ log'.first = log.first
      BY <3>1, <1>0 DEF LogOK, Logs
    <3>3. Sure' => Sure
      BY <3>1, <1>0, SpendingOn
    <3>4. QED BY <3>1, <3>2, <3>3, <1>0, <1>1
  <2>2. CASE AppendRecord \/ AppendFailsToRotate
    <3>1. PICK kind \in Kinds : Writes(kind)
      BY <2>2, AppendDoes
    <3>2. QED BY <3>1, <1>0, ViewAfterWrite
  <2>3. QED BY <1>3, <2>1, <2>2 DEF Appends
<1>4. CASE Maintains
  <2>1. UNCHANGED <<raced, spent>>
    BY <1>4 DEF Maintains, Compact, EnforceRetention
  <2>2. log'.recs = log.recs /\ log'.inc = log.inc /\ log.first <= log'.first
    <3>1. CASE Compact
      <4> DEFINE P == log.packed \cup {Head(maint).seg}
      <4>1. log' = log \/ log' = [log EXCEPT !.packed = P]
        BY <3>1 DEF Compact
      <4> HIDE DEF P
      <4>2. QED BY <4>1, <1>0 DEF LogOK, Logs
    <3>2. CASE EnforceRetention
      <4>1. log' = [log EXCEPT !.first = Retained(log)]
        BY <3>2 DEF EnforceRetention
      <4>2. log.first <= Retained(log)
        BY <1>0, RetainedOK
      <4>3. QED BY <4>1, <4>2, <1>0 DEF LogOK, Logs
    <3>3. QED BY <1>4, <3>1, <3>2 DEF Maintains
  <2>3. QED BY <2>1, <2>2, <1>1 DEF Sure
<1>5. CASE Replays \/ Serves \/ Receives
  <2>1. UNCHANGED <<log, raced, spent>>
    BY <1>5
    DEF Replays, FileOpened, UseFile, FileGone, FileRead, UseRecords, LeaveSegment,
        NextSegment, EndOfLog, Drained, Unwritten, Serves, HandleSubscribe,
        HandleUnsubscribe, UnlessRead, Receives, OnResponse, OnRefused, OnEvent, OnGap,
        OnCaughtUp, OnStreamClosed, UnlessClient
  <2>2. QED BY <2>1, <1>0, <1>1 DEF Sure
<1>6. CASE Lives
  <2>1. CASE RemoveAgent
    BY <2>1, <1>0, SpendingOn DEF RemoveAgent
  <2>2. CASE Destroyed \/ SpawnAgent
    <3>1. UNCHANGED spent /\ (host.removing \/ ~host.known)
      BY <2>2 DEF Destroyed, SpawnAgent
    <3>2. Sure
      BY <3>1 DEF Sure
    <3>3. QED BY <3>1, <3>2 DEF SureInv
  <2>3. QED BY <1>6, <2>1, <2>2 DEF Lives
<1>7. CASE Consumes \/ Drop \/ RelayRestart
  <2>1. UNCHANGED <<log, raced>> /\ (UNCHANGED spent \/ Spend("subs") \/ Spend("drops"))
    BY <1>7 DEF Consumes, Connect, Subscribe, Unsubscribe, SubscribeTimesOut, Drop, RelayRestart
  <2>2. Sure' => Sure
    BY <2>1, <1>0, SpendingOn DEF Sure
  <2>3. QED BY <2>1, <2>2, <1>0, <1>1
<1>8. CASE HostCrash
  <2>1. /\ log' \in IF host.removing THEN HalfDeleted ELSE {log, [log EXCEPT !.torn = TRUE]}
        /\ Spend("crashes") /\ UNCHANGED raced
    BY <1>8 DEF HostCrash
  <2>2. Sure' => Sure
    BY <2>1, <1>0, SpendingOn
  <2>3. ~host.removing
    BY <2>2 DEF SureInv
  <2>4. log' = log \/ log' = [log EXCEPT !.torn = TRUE]
    BY <2>1, <2>3
  <2>5. log'.recs = log.recs /\ log'.inc = log.inc /\ log.first = log'.first
    BY <2>4, <1>0 DEF LogOK, Logs
  <2>6. QED BY <2>1, <2>2, <2>5, <1>0, <1>1
<1>9. CASE MachineCrash
  BY <1>9, <1>0, SpendingOn DEF MachineCrash
<1>10. CASE HostRestart
  <2>1. (log' = Reopened(log) \/ log' = log) /\ UNCHANGED <<raced, spent>>
    BY <1>10 DEF HostRestart
  <2>2. log'.recs = log.recs /\ log'.inc = log.inc /\ log.first = log'.first
    BY <2>1, <1>0 DEF LogOK, Logs, Reopened
  <2>3. QED BY <2>1, <2>2, <1>0, <1>1 DEF Sure
<1>11. QED
  BY <1>2, <1>3, <1>4, <1>5, <1>6, <1>7, <1>8, <1>9, <1>10 DEF Next, Fails

-----------------------------------------------------------------------------
(* The reader leaves nothing out.                                            *)

\* The client goes on from where the server does.
Continues ==
    \A n, sub \in Nat : Joined(wire, srv, n, sub, View) => Joined(wire', srv', n, sub, View)

Reading(s, r) ==
    /\ Follows(s, r, View)
    /\ View.sure /\ r.io = "read" => FoundAll(r, View)
    /\ View.sure /\ r.io = "closing" => ReadThrough(r, View)

\* What a step of the loop or the reader does to the subscription.
GoesOn ==
    /\ Continues
    /\ rd'.io # "none" => Reading(srv', rd')
    /\ Grown(wire, wire', srv.id) /\ srv'.id = srv.id /\ srv'.mode # "closed"
    /\ rd'.io # "none" \/ srv'.mode = "live" \/ srv'.cur = srv.cur

LEMMA CatchUpRuns ==
  ASSUME Connected, srv.mode # "closed", NEW r, Ready(r, log), Follows(srv, r, View),
         CatchUp(srv, r, wire, log)
  PROVE  GoesOn
<1>1. View.log = log
  BY DEF View
<1>2. LogOK(log) /\ srv \in Subs /\ wire \in Seq(Messages)
  BY DEF Connected
<1>3. Follows(srv', rd', View) /\ Continues
  BY <1>1, <1>2, CatchUpGoesOn DEF Continues
<1>4. /\ rd'.io \in {"drain", "opening", "reading"} /\ srv'.id = srv.id
      /\ srv'.mode = srv.mode
  BY <1>2, CatchUpDoes
<1>5. Grown(wire, wire', srv.id)
  BY <1>2, CatchUpGrows
<1>6. QED BY <1>3, <1>4, <1>5 DEF GoesOn, Reading

LEMMA StepRuns ==
  ASSUME Connected, srv.mode # "closed", NEW r \in Readers, Returnable(r),
         Follows(srv, r, View), StepReturns(r)
  PROVE  GoesOn
<1>1. View.log = log
  BY DEF View
<1>2. LogOK(log) /\ srv \in Subs /\ wire \in Seq(Messages)
  BY DEF Connected
<1>3. Follows(srv', rd', View) /\ Continues
  BY <1>1, <1>2, StepGoesOn DEF Continues
<1>4. Grown(wire, wire', srv.id) /\ srv'.id = srv.id /\ srv'.mode = srv.mode
  BY <1>2, StepGrows
<1>5. rd'.io \in {"drain", "opening", "reading"}
  <2>1. /\ SubAfter(r) \in Subs /\ Ready([r EXCEPT !.acc = {}], log)
        /\ wire \o Events(r) \in Seq(Messages)
        /\ CatchUp(SubAfter(r), [r EXCEPT !.acc = {}], wire \o Events(r), log)
    BY <1>2, StepReturnsDoes DEF Returnable
  <2>2. QED BY <2>1, <1>2, CatchUpDoes
<1>6. QED BY <1>3, <1>4, <1>5 DEF GoesOn, Reading

LEMMA ReaderRuns ==
  ASSUME Connected, srv.mode # "closed", UNCHANGED <<srv, wire>>, Reading(srv, rd')
  PROVE  GoesOn
<1>1. Grown(wire, wire', srv.id)
  BY GrownNot DEF Connected
<1>2. QED BY <1>1 DEF GoesOn, Continues

LEMMA OpensOrGapRuns ==
  ASSUME Connected, srv.mode # "closed", NEW r, HoldsOK(r, log), r.found = {},
         Follows(srv, r, View), OpensOrGap(r)
  PROVE  GoesOn
<1>0. /\ LogOK(log) /\ r \in Readers /\ View.log = log
      /\ EndOffset(log) \in Nat /\ log.first \in Nat /\ log.first <= EndOffset(log)
      /\ r.cur \in Nat /\ srv.cur \in Nat
      /\ r.acc \subseteq Offsets(log)
  BY LogEnds DEF Connected, HoldsOK, View, Readers, Subs
<1>1. CASE ~OutOfLog(r, log)
  <2>1. rd' = Opening(r, log) /\ UNCHANGED <<srv, wire>>
    BY <1>1 DEF OpensOrGap
  <2>2. /\ Opening(r, log).io = "opening" /\ Opening(r, log).cur = r.cur
        /\ Opening(r, log).acc = r.acc
    BY <1>0, <1>1, OpeningOK
  <2>3. Reading(srv, rd')
    BY <2>1, <2>2 DEF Reading, Follows
  <2>4. QED BY <2>1, <2>3, ReaderRuns
<1>2. CASE OutOfLog(r, log) /\ r.acc = {}
  <2> DEFINE q == [r EXCEPT !.seg = None]
  <2>1. CatchUp(srv, q, wire, log)
    BY <1>2 DEF OpensOrGap
  <2>2. Ready(q, log) /\ q.cur = r.cur
    BY <1>2, SegmentClosed
  <2>3. q.acc = {}
    BY <2>2 DEF Ready
  <2> HIDE DEF q
  <2>4. Follows(srv, q, View)
    BY <2>2, <2>3, <1>2 DEF Follows
  <2>5. QED BY <2>1, <2>2, <2>4, CatchUpRuns
<1>3. CASE OutOfLog(r, log) /\ r.acc # {}
  <2> DEFINE q == Resumed(r)
             to == Resume(r, log)
  <2>1. StepReturns(q)
    BY <1>3 DEF OpensOrGap, Resumed
  <2>2. q \in Readers /\ q.acc = r.acc /\ q.found = {} /\ q.seg = None /\ q.cur = to /\ to \in Nat
    BY <1>0, <1>3, ResumedOK
  <2>3. Returnable(r)
    BY <1>0, <1>3, HeldIsReturnable
  <2>4. Returnable(q)
    BY <2>2, <2>3 DEF Returnable
  <2>5. /\ \/ to = log.first /\ r.cur < to
           \/ to = EndOffset(log) /\ r.cur > to
    BY <1>0, <1>3 DEF OutOfLog, Resume
  <2>6. \A o \in r.acc : o \in Nat /\ o < EndOffset(log) /\ srv.cur <= o /\ o < r.cur
    BY <1>0 DEF Follows, Offsets
  <2> HIDE DEF q, to
  <2>7. \A o \in q.acc : srv.cur <= o /\ o < q.cur
    BY <2>2, <2>5, <2>6, <1>0
  <2>8. srv.cur <= q.cur
    BY <2>2, <2>6, <2>7, <1>0, <1>3
  <2>9. ASSUME View.sure
        PROVE  /\ q.cur <= EndOffset(log)
               /\ \A o \in Nat : srv.cur <= o /\ o < q.cur => o \in q.acc \/ o \in Free(View)
    <3>1. /\ r.cur <= EndOffset(log)
          /\ \A o \in Nat : srv.cur <= o /\ o < r.cur => o \in r.acc \/ o \in Free(View)
      BY <2>9, <1>0 DEF Follows
    <3>2. to = log.first
      BY <3>1, <2>2, <2>5, <1>0
    <3>3. ASSUME NEW o \in Nat, o < log.first PROVE o \in Free(View)
      BY <3>3, <1>0 DEF Free, Offsets
    <3>4. QED BY <3>1, <3>2, <3>3, <2>2, <1>0
  <2>10. Follows(srv, q, View)
    BY <2>7, <2>8, <2>9, <1>0 DEF Follows
  <2>11. QED BY <2>1, <2>2, <2>4, <2>10, StepRuns
<1>4. QED BY <1>1, <1>2, <1>3

\* A record that is not in the file was never owed.
LEMMA NotInFile ==
  ASSUME TypeInv, SureInv, Sure, NEW b \in log.cuts, NEW p \in BOOLEAN,
         NEW o \in Nat, b <= o, o < SegmentEnd(log, b), o \notin File(log, b, p)
  PROVE  o \in Free(View)
<1>1. /\ LogOK(log) /\ SegmentEnd(log, b) \in Nat /\ SegmentEnd(log, b) <= EndOffset(log)
      /\ EndOffset(log) \in Nat /\ b \in Nat
  BY FileWithin, LogEnds DEF TypeInv, LogOK, Logs
<1>2. o \in Offsets(log) /\ o \in b .. SegmentEnd(log, b) - 1
  BY <1>1 DEF Offsets
<1>3. log.recs[o + 1].kind # "glued"
  <2>1. o + 1 \in DOMAIN log.recs
    <3>1. log.recs \in Seq(Records)
      BY <1>1, LogEnds
    <3>2. DOMAIN log.recs = 1 .. EndOffset(log)
      BY <3>1, LenProperties DEF EndOffset
    <3>3. QED BY <3>2, <1>1, <1>2 DEF Offsets
  <2>2. QED BY <2>1 DEF SureInv
<1>4. log.recs[o + 1].kind = "part"
  BY <1>2, <1>3 DEF File
<1>5. QED BY <1>2, <1>4 DEF Free, View

LEMMA FileReadRuns ==
  ASSUME TypeInv, SureInv, Reading(srv, rd), FileRead, srv.mode # "closed"
  PROVE  GoesOn
<1> DEFINE F == {o \in File(log, rd.seg, rd.packed) : o >= rd.cur}
           G == FirstOf(F)
<1>0. /\ Connected /\ LogOK(log) /\ ReaderOK(rd, log) /\ HoldsOK(rd, log) /\ rd \in Readers
      /\ View.log = log
  BY DEF TypeInv, Connected, ReaderOK, HoldsOK, View
<1>1. /\ rd.io = "reading" /\ UNCHANGED <<srv, wire>>
      /\ rd' = [rd EXCEPT !.io = "read", !.found = G]
  BY DEF FileRead
<1>2. /\ rd.seg \in log.cuts /\ rd.seg # None /\ rd.seg <= rd.cur /\ rd.cur \in Nat
      /\ rd.packed \in BOOLEAN
  BY <1>0, <1>1 DEF ReaderOK, HoldsOK, Readers
<1>3. rd.seg \in Nat
  BY <1>0, <1>2 DEF LogOK, Logs
<1>4. /\ File(log, rd.seg, rd.packed) \subseteq Offsets(log)
      /\ SegmentEnd(log, rd.seg) \in Nat /\ SegmentEnd(log, rd.seg) <= EndOffset(log)
  BY <1>0, <1>2, FileWithin
<1>5. F \subseteq Offsets(log) /\ F \subseteq Nat
  BY <1>4 DEF Offsets
<1>6. \A o \in F : o < SegmentEnd(log, rd.seg) /\ o \in File(log, rd.seg, rd.packed)
  <2>1. ASSUME NEW o \in F PROVE o < SegmentEnd(log, rd.seg)
    <3>1. o \in rd.seg .. SegmentEnd(log, rd.seg) - 1 /\ o \in Nat
      BY <1>5 DEF File
    <3>2. QED BY <3>1, <1>3, <1>4
  <2>2. QED BY <2>1
<1>7. \A o \in Nat : o >= rd.cur /\ o \in File(log, rd.seg, rd.packed) => o \in F
  OBVIOUS
<1> HIDE DEF F
<1>8. /\ G \subseteq F /\ (F # {} => G # {}) /\ \A o \in F \ G : \A p \in G : p < o
  <2>1. IsFiniteSet(F)
    BY <1>0, <1>5, OffsetsFinite
  <2>2. QED BY <2>1, <1>5, FirstOfIs
<1> HIDE DEF G
<1>9. rd'.cur = rd.cur /\ rd'.acc = rd.acc /\ rd'.found = G /\ rd'.seg = rd.seg /\ rd'.io = "read"
  BY <1>0, <1>1 DEF Readers
<1>10. Follows(srv, rd', View)
  BY <1>9 DEF Reading, Follows
<1>11. ASSUME Sure PROVE FoundAll(rd', View)
  <2>1. CASE G # {}
    <3>1. ASSUME NEW f \in G, NEW o \in Nat, rd.cur <= o, o < f
          PROVE  o \in G \/ o \in Free(View)
      <4>1. f \in F /\ f \in Nat /\ f < SegmentEnd(log, rd.seg)
        BY <1>5, <1>6, <1>8
      <4>2. rd.seg <= o /\ o < SegmentEnd(log, rd.seg)
        BY <3>1, <4>1, <1>2, <1>3, <1>4
      <4>3. CASE o \in F
        <5>1. o \notin F \ G
          BY <3>1, <4>1, <1>8
        <5>2. QED BY <4>3, <5>1
      <4>4. CASE o \notin F
        <5>1. o \notin File(log, rd.seg, rd.packed)
          BY <4>4, <3>1, <1>7
        <5>2. QED BY <5>1, <4>2, <1>2, <1>11, NotInFile
      <4>5. QED BY <4>3, <4>4
    <3>2. QED BY <3>1, <2>1, <1>9 DEF FoundAll
  <2>2. CASE G = {}
    <3>1. ASSUME NEW o \in Nat, rd.cur <= o, o < SegmentEnd(log, rd.seg)
          PROVE  o \in Free(View)
      <4>1. o \notin File(log, rd.seg, rd.packed)
        BY <3>1, <2>2, <1>7, <1>8
      <4>2. rd.seg <= o
        BY <3>1, <1>2, <1>3
      <4>3. QED BY <3>1, <4>1, <4>2, <1>2, <1>11, NotInFile
    <3>2. QED BY <3>1, <2>2, <1>0, <1>9 DEF FoundAll
  <2>3. QED BY <2>1, <2>2
<1>12. Reading(srv, rd')
  BY <1>9, <1>10, <1>11 DEF Reading, View
<1>13. QED BY <1>0, <1>1, <1>12, ReaderRuns

LEMMA UseRecordsRuns ==
  ASSUME TypeInv, ReaderInv, UseRecords, srv.mode # "closed"
  PROVE  GoesOn
<1> DEFINE A == rd.acc \cup rd.found
           c == Max(rd.found) + 1
           r == [rd EXCEPT !.acc = A, !.cur = c, !.found = {}]
<1>0. /\ Connected /\ LogOK(log) /\ ReaderOK(rd, log) /\ HoldsOK(rd, log) /\ rd \in Readers
      /\ View.log = log /\ ReplayChunk \in Nat
  BY ParametersAssumption DEF TypeInv, Connected, ReaderOK, HoldsOK, View
<1>1. /\ rd.io = "read" /\ rd.found # {}
      /\ IF Cardinality(r.acc) < ReplayChunk
         THEN rd' = [r EXCEPT !.io = "reading"] /\ UNCHANGED <<srv, wire>> ELSE StepReturns(r)
  BY DEF UseRecords
<1>2. /\ IsFiniteSet(rd.found) /\ rd.found \subseteq Int /\ rd.found \subseteq Nat
      /\ IsFiniteSet(rd.acc) /\ rd.acc \subseteq Nat /\ rd.cur \in Nat
      /\ srv.cur \in Nat /\ EndOffset(log) \in Nat
  BY <1>0, OffsetsFinite, LogEnds DEF HoldsOK, Readers, Connected, Subs
<1>3. Max(rd.found) \in rd.found /\ Max(rd.found) \in Nat /\ \A o \in rd.found : o <= Max(rd.found)
  BY <1>1, <1>2, MaxIs
<1>4. A \in SUBSET Nat /\ c \in Nat /\ \A o \in rd.found : o < c
  BY <1>2, <1>3
<1>5. /\ A \subseteq Offsets(log) /\ A # {} /\ \A o \in A : o \in rd.acc \/ o \in rd.found
      /\ c <= EndOffset(log)
  <2>1. A \subseteq Offsets(log) /\ A # {}
    BY <1>1, <1>0 DEF HoldsOK
  <2>2. Max(rd.found) \in Offsets(log)
    BY <1>3, <1>0 DEF HoldsOK
  <2>3. c <= EndOffset(log)
    BY <2>2, <1>2, <1>3 DEF Offsets
  <2>4. QED BY <2>1, <2>3
<1>6. Cardinality(A) <= 2 * ReplayChunk - 1
  <2>1. /\ Cardinality(rd.acc) \in Nat /\ Cardinality(rd.found) \in Nat
        /\ IsFiniteSet(rd.acc \cap rd.found) /\ Cardinality(rd.acc \cap rd.found) \in Nat
    BY <1>2, FS_CardinalityType, FS_Intersection
  <2>2. Cardinality(A) = Cardinality(rd.acc) + Cardinality(rd.found)
                           - Cardinality(rd.acc \cap rd.found)
    BY <1>2, FS_Union
  <2>3. Cardinality(rd.acc) < ReplayChunk /\ Cardinality(rd.found) <= ReplayChunk
    BY <1>0 DEF HoldsOK
  <2> HIDE DEF A
  <2>4. QED BY <2>1, <2>2, <2>3, <1>0
<1>7. /\ rd.seg # None /\ rd.seg \in log.cuts /\ rd.seg <= c
      /\ rd.cur < c
  <2>1. /\ rd.seg # None /\ rd.seg \in log.cuts /\ rd.seg <= rd.cur /\ rd.seg \in Nat
        /\ rd.cur <= Max(rd.found)
    BY <1>1, <1>3, <1>0 DEF ReaderOK, HoldsOK, Readers
  <2>2. QED BY <2>1, <1>2, <1>3
<1>8. /\ Follows(srv, rd, View)
      /\ View.sure => FoundAll(rd, View)
  BY <1>1 DEF ReaderInv
<1>9. \A o \in rd.acc : srv.cur <= o /\ o < c
  BY <1>2, <1>4, <1>7, <1>8 DEF Follows
<1>10. \A o \in rd.found : srv.cur <= o /\ o < c
  <2>1. \A o \in rd.found : rd.cur <= o
    BY <1>0 DEF HoldsOK
  <2>2. QED BY <2>1, <1>2, <1>4, <1>8 DEF Follows
<1>11. ASSUME View.sure, NEW o \in Nat, srv.cur <= o, o < c
       PROVE  o \in A \/ o \in Free(View)
  <2>1. CASE o < rd.cur
    BY <2>1, <1>8, <1>11 DEF Follows
  <2>2. CASE rd.cur <= o /\ o < Max(rd.found)
    BY <2>2, <1>1, <1>3, <1>8, <1>11 DEF FoundAll
  <2>3. CASE o = Max(rd.found)
    BY <2>3, <1>3
  <2>4. QED BY <2>1, <2>2, <2>3, <1>2, <1>3, <1>11
<1>12. srv.cur <= c
  BY <1>2, <1>4, <1>7, <1>8 DEF Follows
<1> HIDE DEF A, c
<1>13. r \in Readers /\ r.acc = A /\ r.found = {} /\ r.seg = rd.seg /\ r.cur = c
  BY <1>4, <1>0 DEF Readers
<1>14. [r EXCEPT !.io = "reading"].acc = A /\ [r EXCEPT !.io = "reading"].cur = c
       /\ [r EXCEPT !.io = "reading"].io = "reading"
  BY <1>13 DEF Readers
<1> HIDE DEF r
<1>15. \A o \in A : srv.cur <= o /\ o < c
  BY <1>5, <1>9, <1>10
<1>16. ASSUME NEW q, q.acc = A, q.cur = c PROVE Follows(srv, q, View)
  BY <1>16, <1>0, <1>5, <1>11, <1>12, <1>15 DEF Follows
<1>17. CASE Cardinality(r.acc) < ReplayChunk
  <2>1. rd' = [r EXCEPT !.io = "reading"] /\ UNCHANGED <<srv, wire>>
    BY <1>1, <1>17
  <2>2. Reading(srv, rd')
    BY <2>1, <1>14, <1>16 DEF Reading
  <2>3. QED BY <2>1, <2>2, <1>0, ReaderRuns
<1>18. CASE ~(Cardinality(r.acc) < ReplayChunk)
  <2>1. StepReturns(r)
    BY <1>1, <1>18
  <2>2. Returnable(r)
    BY <1>5, <1>6, <1>7, <1>13 DEF Returnable
  <2>3. Follows(srv, r, View)
    BY <1>13, <1>16
  <2>4. QED BY <2>1, <2>2, <2>3, <1>0, <1>13, StepRuns
<1>19. QED BY <1>17, <1>18

\* Where a segment that another follows ends, the next one begins.
LEMMA EndIsACut ==
  ASSUME NEW L, LogOK(L), NEW b \in L.cuts, NEW c \in L.cuts, b < c
  PROVE  SegmentEnd(L, b) \in L.cuts /\ b < SegmentEnd(L, b)
<1> DEFINE later == {x \in L.cuts : x > b}
<1>1. L.cuts \subseteq Nat
  BY DEF LogOK, Logs
<1>2. c \in later /\ later \subseteq Nat
  BY <1>1
<1>3. SegmentEnd(L, b) = Min(later)
  BY <1>2 DEF SegmentEnd
<1>4. later # {}
  BY <1>2
<1> HIDE DEF later
<1>5. Min(later) \in later
  BY <1>2, <1>4, MinIs
<1>6. QED BY <1>1, <1>3, <1>5 DEF later

LEMMA LeaveSegmentRuns ==
  ASSUME TypeInv, ReaderInv, LeaveSegment, srv.mode # "closed"
  PROVE  GoesOn
<1> DEFINE t == Min(Following)
<1>0. /\ Connected /\ LogOK(log) /\ ReaderOK(rd, log) /\ HoldsOK(rd, log) /\ rd \in Readers
      /\ View.log = log /\ rd.cur \in Nat
      /\ log.cuts \subseteq Nat /\ log.first \in log.cuts
      /\ log.first <= EndOffset(log) /\ EndOffset(log) \in Nat
  BY LogEnds DEF TypeInv, Connected, ReaderOK, HoldsOK, View, Readers, LogOK, Logs
<1>1. /\ rd.io = "read" /\ rd.found = {} /\ Following # {} /\ UNCHANGED <<srv, wire>>
      /\ rd' = [rd EXCEPT !.io = "closing", !.seg = None, !.tgt = t]
  BY DEF LeaveSegment
<1>2. /\ Following \subseteq Nat
      /\ \A b \in log.cuts : b >= log.first /\ b > rd.seg => b \in Following
      /\ \A b \in Following : b \in log.cuts /\ b > rd.seg
  BY <1>0 DEF Following, Segments
<1>3. t \in Following /\ \A b \in Following : t <= b
  BY <1>1, <1>2, MinIs
<1>4. rd.seg \in log.cuts /\ rd.seg \in Nat /\ t \in log.cuts /\ rd.seg < t /\ t \in Nat
  BY <1>0, <1>1, <1>2, <1>3 DEF ReaderOK, HoldsOK
<1> HIDE DEF t
<1>5. rd'.io = "closing" /\ rd'.acc = rd.acc /\ rd'.cur = rd.cur /\ rd'.tgt = t
  BY <1>0, <1>1 DEF Readers
<1>6. Follows(srv, rd, View) /\ (View.sure => FoundAll(rd, View))
  BY <1>1 DEF ReaderInv
<1>7. ASSUME View.sure, NEW o \in Nat, rd.cur <= o, o < t PROVE o \in Free(View)
  <2> DEFINE e == SegmentEnd(log, rd.seg)
  <2>1. e \in log.cuts /\ rd.seg < e /\ e \in Nat
    BY <1>0, <1>4, EndIsACut
  <2> HIDE DEF e
  <2>2. CASE o < e
    BY <2>2, <1>0, <1>1, <1>6, <1>7 DEF FoundAll, e
  <2>3. CASE e <= o
    <3>1. e < log.first
      BY <2>1, <2>3, <1>0, <1>2, <1>3, <1>4, <1>7
    <3>2. log.first \in Following
      BY <3>1, <2>1, <1>0, <1>2, <1>4
    <3>3. o < log.first
      BY <3>2, <1>0, <1>3, <1>4, <1>7
    <3>4. QED BY <3>3, <1>0 DEF Free, Offsets
  <2>4. QED BY <2>1, <2>2, <2>3
<1>8. Follows(srv, rd', View)
  BY <1>5, <1>6 DEF Follows
<1>9. View.sure => ReadThrough(rd', View)
  BY <1>5, <1>7 DEF ReadThrough
<1>10. Reading(srv, rd')
  BY <1>5, <1>8, <1>9 DEF Reading
<1>11. QED BY <1>0, <1>1, <1>10, ReaderRuns

LEMMA NextSegmentRuns ==
  ASSUME TypeInv, ReaderInv, NextSegment, srv.mode # "closed"
  PROVE  GoesOn
<1> DEFINE c == Max({rd.cur, rd.tgt})
           r == [rd EXCEPT !.cur = c]
<1>0. /\ Connected /\ LogOK(log) /\ ReaderOK(rd, log) /\ HoldsOK(rd, log) /\ rd \in Readers
      /\ View.log = log /\ rd.cur \in Nat /\ srv.cur \in Nat /\ EndOffset(log) \in Nat
  BY LogEnds DEF TypeInv, Connected, ReaderOK, HoldsOK, View, Readers, Subs
<1>1. rd.io = "closing" /\ OpensOrGap(r)
  BY DEF NextSegment
<1>2. rd.tgt \in log.cuts /\ rd.seg = None /\ rd.found = {}
  BY <1>1, <1>0 DEF ReaderOK
<1>3. rd.tgt \in Nat /\ rd.tgt <= EndOffset(log)
  BY <1>2, <1>0 DEF LogOK, Logs
<1>4. c \in Nat /\ c = IF rd.tgt <= rd.cur THEN rd.cur ELSE rd.tgt
  BY <1>3, <1>0, GreaterOf
<1> HIDE DEF c
<1>5. r \in Readers /\ r.acc = rd.acc /\ r.found = {} /\ r.seg = None /\ r.cur = c
  BY <1>2, <1>4, <1>0 DEF Readers
<1> HIDE DEF r
<1>6. HoldsOK(r, log)
  BY <1>2, <1>5, <1>0 DEF HoldsOK
<1>7. /\ srv.cur <= rd.cur /\ \A o \in rd.acc : o \in Nat /\ srv.cur <= o /\ o < rd.cur
      /\ View.sure => /\ rd.cur <= EndOffset(log) /\ ReadThrough(rd, View)
                      /\ \A o \in Nat : srv.cur <= o /\ o < rd.cur =>
                            o \in rd.acc \/ o \in Free(View)
  BY <1>0, <1>1 DEF ReaderInv, Follows, HoldsOK, Readers
<1>8. ASSUME View.sure, NEW o \in Nat, srv.cur <= o, o < c PROVE o \in rd.acc \/ o \in Free(View)
  <2>1. CASE o < rd.cur
    BY <2>1, <1>7, <1>8
  <2>2. CASE rd.cur <= o
    BY <2>2, <1>3, <1>4, <1>7, <1>8, <1>0 DEF ReadThrough
  <2>3. QED BY <2>1, <2>2, <1>0
<1>9. Follows(srv, r, View)
  BY <1>0, <1>3, <1>4, <1>5, <1>7, <1>8 DEF Follows
<1>10. QED BY <1>0, <1>1, <1>5, <1>6, <1>9, OpensOrGapRuns

LEMMA EndOfLogRuns ==
  ASSUME TypeInv, ReaderInv, EndOfLog, srv.mode # "closed"
  PROVE  GoesOn
<1>0. /\ Connected /\ LogOK(log) /\ ReaderOK(rd, log) /\ HoldsOK(rd, log) /\ rd \in Readers
      /\ rd.cur \in Nat /\ srv \in Subs /\ srv.cur \in Nat /\ srv.id \in Nat
      /\ wire \in Seq(Messages)
  BY DEF TypeInv, Connected, ReaderOK, HoldsOK, Readers, Subs
<1>1. rd.io = "read" /\ rd.found = {}
  BY DEF EndOfLog
<1>2. Follows(srv, rd, View)
  BY <1>1 DEF ReaderInv
<1>3. CASE rd.acc # {} /\ StepReturns(rd)
  BY <1>0, <1>1, <1>2, <1>3, HeldIsReturnable, StepRuns
<1>4. CASE rd.acc = {} /\ CatchUp(srv, rd, wire, log)
  <2>1. Ready(rd, log)
    BY <1>0, <1>1, <1>4 DEF Ready
  <2>2. QED BY <2>1, <1>0, <1>2, <1>4, CatchUpRuns
<1>5. CASE /\ rd.acc = {} /\ rd' = NoReader
           /\ srv' = [srv EXCEPT !.mode = "live", !.cur = rd.cur, !.told = TRUE]
           /\ wire' = IF srv.told THEN wire ELSE Append(wire, Notice("caught_up", srv.id))
  <2> DEFINE m == Notice("caught_up", srv.id)
  <2>1. m \in Messages /\ m.type = "caught_up" /\ m.sub = srv.id
    BY <1>0 DEF Notice, Messages
  <2>2. srv'.mode = "live" /\ srv'.cur = rd.cur /\ srv'.id = srv.id /\ rd'.io = "none"
    BY <1>5, <1>0 DEF Subs, NoReader
  <2>3. wire' = wire \/ wire' = Append(wire, m)
    BY <1>5
  <2> HIDE DEF m
  <2>4. Grown(wire, wire', srv.id)
    BY <2>1, <2>3, <1>0, GrownNot, GrownOne
  <2>5. Skips(srv.cur, rd.cur, View)
    BY <1>2, <1>5 DEF Skips, Follows
  <2>6. ASSUME NEW n \in Nat, NEW sub \in Nat, Joined(wire, srv, n, sub, View)
        PROVE  Joined(wire', srv', n, sub, View)
    <3>1. PICK e \in Nat : Reaches(wire, n, e, sub, View) /\ LeadsTo(srv, e, sub, View)
      BY <2>6 DEF Joined
    <3>2. Link(m, e, e, sub, View)
      BY <2>1 DEF Link, NoticeLink
    <3>3. Reaches(wire', n, e, sub, View)
      BY <3>1, <3>2, <2>1, <2>3, <1>0, ReachesPush
    <3>4. LeadsTo(srv', e, sub, View)
      <4>1. ASSUME srv.id = sub PROVE Skips(e, rd.cur, View)
        <5>1. Skips(e, srv.cur, View)
          BY <3>1, <4>1 DEF LeadsTo
        <5>2. QED BY <5>1, <2>5, <1>0, SkipsOn
      <4>2. QED BY <4>1, <2>2 DEF LeadsTo
    <3>5. QED BY <3>3, <3>4 DEF Joined
  <2>7. QED BY <2>2, <2>4, <2>6 DEF GoesOn, Continues
<1>6. QED BY <1>3, <1>4, <1>5 DEF EndOfLog

\* A reader at work serves a subscription that is catching up, and each of its
\* steps goes on from where the one before stopped.
LEMMA ReplaysRun ==
  ASSUME TypeInv, LiveInv, SureInv, ReaderInv, Replays
  PROVE  GoesOn
<1>0. /\ Connected /\ LogOK(log) /\ ReaderOK(rd, log) /\ HoldsOK(rd, log) /\ rd \in Readers
  BY DEF TypeInv, Connected, ReaderOK, HoldsOK
<1>1. rd.io # "none" /\ srv.mode # "closed"
  <2>1. rd.io # "none"
    BY DEF Replays, FileOpened, UseFile, FileGone, FileRead, UseRecords, LeaveSegment,
           NextSegment, EndOfLog, Drained
  <2>2. QED BY <2>1 DEF LiveInv, ReadsToCatchUp
<1>2. Reading(srv, rd) /\ Follows(srv, rd, View)
  BY <1>1 DEF ReaderInv, Reading
<1>3. CASE FileOpened \/ UseFile
  <2>1. /\ UNCHANGED <<srv, wire>> /\ rd'.acc = rd.acc /\ rd'.cur = rd.cur
        /\ rd'.io \in {"opened", "gone", "reading"}
    <3>1. CASE FileOpened
      <4> DEFINE io == IF rd.tgt \in Segments(log) THEN "opened" ELSE "gone"
                 p  == rd.tgt \in log.packed
      <4>1. /\ UNCHANGED <<srv, wire>> /\ rd' = [rd EXCEPT !.io = io, !.packed = p]
            /\ io \in {"opened", "gone"}
        BY <3>1 DEF FileOpened
      <4> HIDE DEF io, p
      <4>2. QED BY <4>1, <1>0 DEF Readers
    <3>2. CASE UseFile
      BY <3>2, <1>0 DEF UseFile, Readers
    <3>3. QED BY <1>3, <3>1, <3>2
  <2>2. Reading(srv, rd')
    BY <2>1, <1>2 DEF Reading, Follows
  <2>3. QED BY <2>1, <2>2, <1>0, <1>1, ReaderRuns
<1>4. CASE FileGone
  <2>1. OpensOrGap(rd) /\ rd.io = "gone"
    BY <1>4 DEF FileGone
  <2>2. rd.found = {}
    BY <2>1, <1>0 DEF ReaderOK
  <2>3. QED BY <2>1, <2>2, <1>0, <1>1, <1>2, OpensOrGapRuns
<1>5. CASE Drained
  <2>1. rd.io = "drain" /\ CatchUp(srv, rd, wire, log)
    BY <1>5 DEF Drained
  <2>2. Ready(rd, log)
    BY <2>1, <1>0 DEF Ready, ReaderOK
  <2>3. QED BY <2>1, <2>2, <1>0, <1>1, <1>2, CatchUpRuns
<1>6. QED
  BY <1>1, <1>2, <1>3, <1>4, <1>5, FileReadRuns, UseRecordsRuns, LeaveSegmentRuns,
     NextSegmentRuns, EndOfLogRuns DEF Replays

-----------------------------------------------------------------------------
(* Steps that write to the client without reading from it.                   *)

LEMMA JoinedLater ==
  ASSUME NEW w \in Seq(Messages), NEW s, NEW n, NEW sub, NEW V, NEW W, Later(V, W),
         LogOK(V.log), LogOK(W.log), Joined(w, s, n, sub, V)
  PROVE  Joined(w, s, n, sub, W)
<1>1. PICK e \in Nat : Reaches(w, n, e, sub, V) /\ LeadsTo(s, e, sub, V)
  BY DEF Joined
<1>2. Reaches(w, n, e, sub, W)
  BY <1>1, ReachesLater
<1>3. LeadsTo(s, e, sub, W)
  BY <1>1, SkipsLater DEF LeadsTo
<1>4. QED BY <1>2, <1>3 DEF Joined

LEMMA FollowsLater ==
  ASSUME NEW s, NEW r, r.cur \in Nat, NEW V, NEW W, Later(V, W), LogOK(V.log), LogOK(W.log),
         Follows(s, r, V)
  PROVE  Follows(s, r, W)
<1>1. EndOffset(V.log) \in Nat /\ EndOffset(W.log) \in Nat
  BY LogEnds
<1>2. QED BY <1>1 DEF Follows, Later

\* An append behind a read that found the end of the file is seen by no later
\* read of that file: its record is the one that is raced past.
LEMMA NothingMissed ==
  ASSUME TypeInv, ReaderInv, Sure, NEW kind, Writes(kind), Later(View, View'), Sure',
         rd.io = "read", rd.found = {},
         NEW o \in Nat, rd.cur <= o, o < SegmentEnd(log', rd.seg)
  PROVE  o \in Free(View')
<1> DEFINE M == log'
           V == View
           W == View'
<1>0. /\ LogOK(log) /\ LogOK(M) /\ EndOffset(M) = EndOffset(log) + 1
      /\ EndOffset(log) \in Nat /\ V.log = log /\ W.log = M /\ W.raced = raced'
      /\ V.sure /\ W.sure
      /\ log.cuts \subseteq M.cuts /\ log.cuts \subseteq Nat /\ M.cuts \subseteq Nat
  <2>1. LogOK(log) /\ LogOK(M) /\ EndOffset(M) = EndOffset(log) + 1
    BY DEF TypeInv, Writes
  <2>2. log.cuts \subseteq M.cuts
    BY DEF Writes
  <2>3. V.log = log /\ W.log = M /\ W.raced = raced' /\ V.sure /\ W.sure
    BY DEF View
  <2> HIDE DEF M, V, W
  <2>4. EndOffset(log) \in Nat /\ log.cuts \subseteq Nat /\ M.cuts \subseteq Nat
    BY <2>1, LogEnds DEF LogOK, Logs
  <2>5. QED BY <2>1, <2>2, <2>3, <2>4
<1>1. /\ rd.seg \in log.cuts /\ rd.seg \in Nat
      /\ \A p \in Nat : rd.cur <= p /\ p < SegmentEnd(log, rd.seg) => p \in Free(V)
  <2>1. rd.seg \in log.cuts
    BY DEF TypeInv, ReaderOK, HoldsOK
  <2>2. FoundAll(rd, V)
    BY <1>0 DEF ReaderInv
  <2>3. QED BY <2>1, <2>2, <1>0 DEF FoundAll
<1>2. Free(V) \subseteq Free(W) /\ o < SegmentEnd(M, rd.seg)
  BY <1>0 DEF Later
<1>3. rd.seg = Active(log) => raced' = raced \cup {spent.records + 1}
  BY DEF Writes, Races
<1>4. M.recs[EndOffset(log) + 1].id = spent.records + 1
  <2>1. M.recs[EndOffset(log) + 1] = New(kind)
    BY <1>0, RecordsAfter
  <2>2. QED BY <2>1 DEF New
<1> SUFFICES o \in Free(W)
  OBVIOUS
<1> HIDE DEF M, V, W
<1>5. SegmentEnd(M, rd.seg) \in Nat /\ SegmentEnd(M, rd.seg) <= EndOffset(M)
      /\ \A c \in M.cuts : c > rd.seg => SegmentEnd(M, rd.seg) <= c
  BY <1>0, <1>1, FileWithin
<1>6. SegmentEnd(log, rd.seg) \in Nat
      /\ ((\A c \in log.cuts : c <= rd.seg) => SegmentEnd(log, rd.seg) = EndOffset(log))
  BY <1>0, <1>1, FileWithin
<1>7. Active(log) \in log.cuts /\ \A c \in log.cuts : c \in Nat /\ c <= Active(log)
  BY <1>0, LogEnds
<1>8. CASE rd.seg = Active(log)
  <2>1. SegmentEnd(log, rd.seg) = EndOffset(log)
    BY <1>6, <1>7, <1>8
  <2>2. CASE o < EndOffset(log)
    BY <2>1, <2>2, <1>1, <1>2
  <2>3. CASE o >= EndOffset(log)
    <3>1. o = EndOffset(log) /\ o < EndOffset(M)
      BY <2>3, <1>0, <1>2, <1>5
    <3>2. M.recs[o + 1].id \in W.raced
      BY <3>1, <1>0, <1>3, <1>4, <1>8
    <3>3. QED BY <3>1, <3>2, <1>0 DEF Free, Offsets
  <2>4. QED BY <2>2, <2>3, <1>0
<1>9. CASE rd.seg # Active(log)
  <2>1. rd.seg < Active(log)
    BY <1>9, <1>1, <1>7
  <2>2. SegmentEnd(log, rd.seg) \in log.cuts /\ rd.seg < SegmentEnd(log, rd.seg)
    BY <2>1, <1>0, <1>1, <1>7, EndIsACut
  <2>3. SegmentEnd(M, rd.seg) <= SegmentEnd(log, rd.seg)
    BY <2>2, <1>0, <1>1, <1>5, <1>6
  <2>4. o < SegmentEnd(log, rd.seg)
    BY <2>3, <1>2, <1>5, <1>6
  <2>5. QED BY <2>4, <1>1, <1>2
<1>10. QED BY <1>8, <1>9

\* What a step that writes to the client does, for the client that will read it.
Goes ==
    /\ \A n, sub \in Nat : Joined(wire, srv, n, sub, View) => Joined(wire', srv', n, sub, View')
    /\ ReaderInv'
    /\ Grown(wire, wire', srv.id) /\ srv'.id = srv.id
    /\ srv.mode = "closed" => wire' = wire
    /\ srv'.mode # "closed" => srv.mode # "closed"
    /\ rd'.io # "none" \/ srv'.mode = "live" \/ srv'.cur = srv.cur
    /\ UNCHANGED <<cl, toHost>>

LEMMA ReplaysGo ==
  ASSUME TypeInv, LiveInv, SureInv, ReaderInv, Replays
  PROVE  Goes
<1>1. GoesOn
  BY ReplaysRun
<1>2. UNCHANGED <<log, raced, spent, cl, toHost>>
  BY DEF Replays, FileOpened, UseFile, FileGone, FileRead, UseRecords, LeaveSegment,
         NextSegment, EndOfLog, Drained, Unwritten
<1>3. View' = View
  BY <1>2 DEF View, Sure
<1>4. rd.io # "none"
  BY DEF Replays, FileOpened, UseFile, FileGone, FileRead, UseRecords, LeaveSegment,
         NextSegment, EndOfLog, Drained
<1>5. srv.mode # "closed"
  BY <1>4 DEF LiveInv, ReadsToCatchUp
<1>6. ReaderInv'
  BY <1>1, <1>3 DEF GoesOn, Reading, ReaderInv
<1>7. \A n, sub \in Nat : Joined(wire, srv, n, sub, View) => Joined(wire', srv', n, sub, View')
  BY <1>1, <1>3 DEF GoesOn, Continues
<1>8. QED BY <1>1, <1>2, <1>5, <1>6, <1>7 DEF GoesOn, Goes

\* The subscription is not live: it will read the record from the disk.
LEMMA WriteUnseen ==
  ASSUME TypeInv, ReaderInv, NEW kind, Writes(kind), Later(View, View'),
         UNCHANGED <<srv, rd, wire>>
  PROVE  ReaderInv'
<1> DEFINE V == View
           W == View'
<1>0. /\ LogOK(V.log) /\ LogOK(W.log) /\ V.log = log /\ W.log = log' /\ Later(V, W)
      /\ rd.cur \in Nat /\ (V.sure <=> Sure) /\ (W.sure <=> Sure')
  BY DEF TypeInv, Writes, View, ReaderOK, HoldsOK, Readers
<1> SUFFICES ASSUME rd.io # "none"
             PROVE  /\ Follows(srv, rd, W)
                    /\ W.sure /\ rd.io = "read" => FoundAll(rd, W)
                    /\ W.sure /\ rd.io = "closing" => ReadThrough(rd, W)
  BY DEF ReaderInv
<1>1. /\ Follows(srv, rd, V)
      /\ V.sure /\ rd.io = "read" => FoundAll(rd, V)
      /\ V.sure /\ rd.io = "closing" => ReadThrough(rd, V)
  BY DEF ReaderInv
<1>2. ASSUME W.sure, rd.io = "read", rd.found = {}
      PROVE  \A o \in Nat : rd.cur <= o /\ o < SegmentEnd(W.log, rd.seg) => o \in Free(W)
  BY <1>0, <1>2, NothingMissed DEF Later
<1> HIDE DEF V, W
<1>3. Follows(srv, rd, W)
  BY <1>0, <1>1, FollowsLater
<1>4. W.sure /\ rd.io = "read" => FoundAll(rd, W)
  BY <1>0, <1>1, <1>2 DEF FoundAll, Later
<1>5. W.sure /\ rd.io = "closing" => ReadThrough(rd, W)
  BY <1>0, <1>1 DEF ReadThrough, Later
<1>6. QED BY <1>3, <1>4, <1>5

\* It is live and must catch up: it reads on from the record just written.
LEMMA WriteCaughtUp ==
  ASSUME Connected, srv.mode = "live", NEW L, LogOK(L), NEW V, V.log = L,
         srv.cur <= EndOffset(L),
         CatchUp([srv EXCEPT !.mode = "catchup"], ReaderAt(srv.cur), wire, L)
  PROVE  /\ Follows(srv', rd', V) /\ rd'.io \notin {"none", "read", "closing"}
         /\ Grown(wire, wire', srv.id) /\ srv'.id = srv.id /\ srv'.mode # "closed"
         /\ \A n, sub \in Nat : Joined(wire, srv, n, sub, V) => Joined(wire', srv', n, sub, V)
<1> DEFINE s == [srv EXCEPT !.mode = "catchup"]
           r == ReaderAt(srv.cur)
<1>1. /\ s \in Subs /\ s.mode = "catchup" /\ s.id = srv.id /\ s.cur = srv.cur
      /\ srv.cur \in Nat /\ wire \in Seq(Messages)
  BY DEF Connected, Subs
<1>2. Ready(r, L) /\ r.cur = srv.cur /\ r.acc = {}
  BY <1>1, ReaderAtReady
<1>3. CatchUp(s, r, wire, L)
  OBVIOUS
<1> HIDE DEF s, r
<1>4. Follows(s, r, V)
  BY <1>1, <1>2 DEF Follows
<1>5. /\ Follows(srv', rd', V)
      /\ \A n, sub \in Nat : Joined(wire, s, n, sub, V) => Joined(wire', srv', n, sub, V)
  BY <1>1, <1>2, <1>3, <1>4, CatchUpGoesOn
<1>6. rd'.io \in {"drain", "opening", "reading"} /\ srv'.mode = s.mode /\ srv'.id = s.id
  BY <1>1, <1>2, <1>3, CatchUpDoes
<1>7. Grown(wire, wire', s.id)
  BY <1>1, <1>2, <1>3, CatchUpGrows
<1>8. ASSUME NEW n \in Nat, NEW sub \in Nat, Joined(wire, srv, n, sub, V)
      PROVE  Joined(wire, s, n, sub, V)
  BY <1>1, <1>8 DEF Joined, LeadsTo
<1>9. QED BY <1>1, <1>5, <1>6, <1>7, <1>8

\* It is live and handed the record.
LEMMA WritePushed ==
  ASSUME Connected, srv.mode = "live", NEW L, LogOK(L), NEW V, V.log = L,
         srv.cur \in Offsets(L), wire' = Append(wire, Event(srv, L, srv.cur)),
         srv' = [srv EXCEPT !.cur = srv.cur + 1]
  PROVE  /\ Grown(wire, wire', srv.id) /\ srv'.id = srv.id /\ srv'.mode = "live"
         /\ \A n, sub \in Nat : Joined(wire, srv, n, sub, V) => Joined(wire', srv', n, sub, V)
<1> DEFINE m == Event(srv, L, srv.cur)
<1>1. m \in Messages
  BY EventIsMessage DEF Connected
<1>2. /\ m.type = "event" /\ m.sub = srv.id /\ m.off = srv.cur /\ m.inc = L.inc
      /\ m.rec = L.recs[srv.cur + 1]
  BY DEF Event
<1>3. /\ srv'.id = srv.id /\ srv'.mode = "live" /\ srv'.cur = srv.cur + 1
      /\ srv.cur \in Nat /\ wire \in Seq(Messages) /\ srv.cur < EndOffset(L)
  BY DEF Connected, Subs, Offsets
<1>4. wire' = Append(wire, m)
  OBVIOUS
<1> HIDE DEF m
<1>5. Grown(wire, wire', srv.id)
  BY <1>1, <1>2, <1>3, <1>4, GrownOne
<1>6. ASSUME NEW n \in Nat, NEW sub \in Nat, Joined(wire, srv, n, sub, V)
      PROVE  Joined(wire', srv', n, sub, V)
  <2>1. PICK e \in Nat : Reaches(wire, n, e, sub, V) /\ LeadsTo(srv, e, sub, V)
    BY <1>6 DEF Joined
  <2>2. CASE srv.id # sub
    <3>1. Link(m, e, e, sub, V)
      BY <2>2, <1>2 DEF Link
    <3>2. Reaches(wire', n, e, sub, V)
      BY <3>1, <2>1, <1>1, <1>3, <1>4, ReachesPush
    <3>3. LeadsTo(srv', e, sub, V)
      BY <2>2, <1>3 DEF LeadsTo
    <3>4. QED BY <3>2, <3>3 DEF Joined
  <2>3. CASE srv.id = sub
    <3> DEFINE b == srv.cur + 1
    <3>1. Skips(e, srv.cur, V)
      BY <2>1, <2>3 DEF LeadsTo
    <3>2. EventLink(m, e, b, V)
      BY <3>1, <1>2, <1>3 DEF EventLink
    <3>3. Link(m, e, b, sub, V) /\ b \in Nat /\ srv'.cur = b
      BY <3>2, <2>3, <1>2, <1>3 DEF Link
    <3> HIDE DEF b
    <3>4. Reaches(wire', n, b, sub, V)
      BY <3>3, <2>1, <1>1, <1>3, <1>4, ReachesPush
    <3>5. LeadsTo(srv', b, sub, V)
      BY <3>3, SkipsNothing DEF LeadsTo
    <3>6. QED BY <3>3, <3>4, <3>5 DEF Joined
  <2>4. QED BY <2>2, <2>3
<1>7. QED BY <1>3, <1>5, <1>6

LEMMA WritesGo ==
  ASSUME TypeInv, LiveInv, ReaderInv, NEW kind, Writes(kind), Later(View, View')
  PROVE  Goes
<1> DEFINE L == log'
           V == View
           W == View'
           o == EndOffset(log)
<1>0. /\ Connected /\ LogOK(log) /\ LogOK(L) /\ W.log = L /\ V.log = log /\ Later(V, W)
      /\ wire \in Seq(Messages) /\ o \in Nat /\ EndOffset(L) = o + 1
      /\ OnLive(L, o) /\ UNCHANGED <<cl, toHost>>
  <2>1. /\ LogOK(log) /\ wire \in Seq(Messages) /\ srv \in Subs /\ W.log = L /\ V.log = log
        /\ LogOK(L) /\ EndOffset(L) = o + 1 /\ OnLive(L, o) /\ UNCHANGED <<cl, toHost>>
    BY DEF TypeInv, Writes, View
  <2>2. o \in Nat
    BY <2>1, LogEnds
  <2>3. QED BY <2>1, <2>2 DEF Connected
<1>1. ASSUME NEW n \in Nat, NEW sub \in Nat, Joined(wire, srv, n, sub, V)
      PROVE  Joined(wire, srv, n, sub, W)
  <2> HIDE DEF V, W, L
  <2>1. QED BY <1>0, <1>1, JoinedLater
<1>2. CASE srv.mode # "live"
  <2>1. UNCHANGED <<srv, rd, wire>>
    BY <1>0, <1>2 DEF OnLive
  <2>2. ReaderInv'
    BY <2>1, WriteUnseen
  <2>3. Grown(wire, wire, srv.id)
    BY <1>0, GrownNot
  <2>4. QED BY <2>1, <2>2, <2>3, <1>0, <1>1 DEF Goes
<1>3. CASE srv.mode = "live" /\ (o # srv.cur \/ AboveHighWater(wire))
  <2>1. CatchUp([srv EXCEPT !.mode = "catchup"], ReaderAt(srv.cur), wire, L)
    BY <1>0, <1>3 DEF OnLive
  <2>2. srv.cur <= EndOffset(L)
    BY <1>0, <1>3 DEF LiveInv, LiveAtEnd
  <2> HIDE DEF L, W, V
  <2>3. /\ Follows(srv', rd', W) /\ rd'.io \notin {"none", "read", "closing"}
        /\ Grown(wire, wire', srv.id) /\ srv'.id = srv.id /\ srv'.mode # "closed"
        /\ \A n, sub \in Nat : Joined(wire, srv, n, sub, W) => Joined(wire', srv', n, sub, W)
    BY <2>1, <2>2, <1>0, <1>3, WriteCaughtUp
  <2>4. ReaderInv'
    BY <2>3 DEF ReaderInv, W
  <2>5. \A n, sub \in Nat : Joined(wire, srv, n, sub, V) => Joined(wire', srv', n, sub, W)
    BY <2>3, <1>1
  <2>6. QED BY <2>3, <2>4, <2>5, <1>0, <1>3 DEF Goes, V, W
<1>4. CASE srv.mode = "live" /\ ~(o # srv.cur \/ AboveHighWater(wire))
  <2>1. /\ wire' = Append(wire, Event(srv, L, srv.cur)) /\ srv' = [srv EXCEPT !.cur = srv.cur + 1]
        /\ rd' = rd
    BY <1>0, <1>4 DEF OnLive
  <2>2. srv.cur \in Offsets(L)
    BY <1>0, <1>4 DEF Offsets
  <2>3. ReaderInv'
    BY <2>1, <1>4 DEF LiveInv, ReadsToCatchUp, ReaderInv
  <2> HIDE DEF L, W, V
  <2>4. /\ Grown(wire, wire', srv.id) /\ srv'.id = srv.id /\ srv'.mode = "live"
        /\ \A n, sub \in Nat : Joined(wire, srv, n, sub, W) => Joined(wire', srv', n, sub, W)
    BY <2>1, <2>2, <1>0, <1>4, WritePushed
  <2>5. \A n, sub \in Nat : Joined(wire, srv, n, sub, V) => Joined(wire', srv', n, sub, W)
    BY <2>4, <1>1
  <2>6. QED BY <2>3, <2>4, <2>5, <1>0, <1>4 DEF Goes, V, W
<1>5. QED BY <1>2, <1>3, <1>4

-----------------------------------------------------------------------------
(* The whole invariant.                                                      *)
StreamInv == ChainInv /\ ReaderInv /\ IdsInv /\ PendingInv /\ SureInv /\ FilterBehindCursor

LEMMA Places == ASSUME NEW S, NEW w \in Seq(S) PROVE Len(w) \in Nat /\ DOMAIN w = 1 .. Len(w)
BY LenProperties

\* Messages of a subscription older than every request still to be answered do
\* not disturb the order of ids.
LEMMA IdsGrow ==
  ASSUME TypeInv, TypeInv', IdsInv, PendingInv, Grown(wire, wire', srv.id),
         srv.mode = "closed" => wire' = wire,
         srv'.mode # "closed" => srv.mode # "closed" /\ srv'.id = srv.id,
         UNCHANGED <<cl, toHost>>
  PROVE  IdsInv' /\ PendingInv'
<1> DEFINE k == Len(wire)
           v == wire'
           j == Len(wire')
           u == srv'
<1>1. /\ k \in Nat /\ DOMAIN wire = 1 .. k /\ j \in Nat /\ DOMAIN v = 1 .. j
      /\ srv.id \in Nat /\ cl.ids \in Nat
      /\ u.mode # "closed" => srv.mode # "closed" /\ u.id = srv.id
  BY Places DEF TypeInv, Subs, Clients
<1>2. /\ k <= j /\ \A i \in 1 .. k : v[i] = wire[i]
      /\ \A i \in k + 1 .. j : v[i].sub = srv.id /\ v[i].type # "ok"
      /\ k # j => srv.mode # "closed"
  BY DEF Grown
<1>3. \A i \in 1 .. j : i \in 1 .. k \/ i \in k + 1 .. j
  BY <1>1
<1>4. \A i \in 1 .. k : wire[i].sub \in Nat
  <2>1. \A i \in 1 .. k : wire[i] \in Messages
    BY ElementOfSeq DEF TypeInv
  <2>2. QED BY <2>1 DEF Messages
<1>5. \A i \in DOMAIN toHost : toHost[i].op = "subscribe" => toHost[i].id \in Nat
  BY DEF IdsInv, TypeInv, Requests
<1> HIDE DEF k, v, j, u
<1>6. \A i \in 1 .. j : v[i].type = "ok" => i \in 1 .. k /\ v[i] = wire[i]
  BY <1>2, <1>3
<1>7. \A i \in 1 .. j : \/ i \in 1 .. k /\ v[i].sub = wire[i].sub
                        \/ srv.mode # "closed" /\ v[i].sub = srv.id
  <2> SUFFICES ASSUME NEW i \in 1 .. j
               PROVE  \/ i \in 1 .. k /\ v[i].sub = wire[i].sub
                      \/ srv.mode # "closed" /\ v[i].sub = srv.id
    OBVIOUS
  <2>1. CASE i \in 1 .. k
    BY <2>1, <1>2
  <2>2. CASE i \in k + 1 .. j
    <3>1. k # j
      BY <2>2, <1>1
    <3>2. QED BY <3>1, <2>2, <1>2
  <2>3. QED BY <2>1, <2>2, <1>3
<1>8. /\ cl.sub <= cl.ids
      /\ \A i \in 1 .. k : 1 <= wire[i].sub /\ wire[i].sub <= cl.ids
      /\ srv.mode # "closed" => 1 <= srv.id /\ srv.id <= cl.ids
      /\ \A x \in 1 .. k, y \in 1 .. k : x < y /\ wire[y].type = "ok" => wire[x].sub < wire[y].sub
      /\ \A y \in DOMAIN toHost : toHost[y].op = "subscribe" =>
            /\ 1 <= toHost[y].id /\ toHost[y].id <= cl.ids
            /\ srv.mode # "closed" => srv.id < toHost[y].id
            /\ \A x \in 1 .. k : wire[x].sub < toHost[y].id
            /\ \A x \in DOMAIN toHost :
                  x < y /\ toHost[x].op = "subscribe" => toHost[x].id < toHost[y].id
  BY <1>1 DEF IdsInv
<1>9. \A i \in 1 .. j : 1 <= v[i].sub /\ v[i].sub <= cl.ids
  BY <1>7, <1>8
<1>10. \A x \in 1 .. j, y \in 1 .. j : x < y /\ v[y].type = "ok" => v[x].sub < v[y].sub
  <2> SUFFICES ASSUME NEW x \in 1 .. j, NEW y \in 1 .. j, x < y, v[y].type = "ok"
               PROVE  v[x].sub < v[y].sub
    OBVIOUS
  <2>1. y \in 1 .. k /\ v[y] = wire[y]
    BY <1>6
  <2>2. x \in 1 .. k
    BY <2>1, <1>1
  <2>3. QED BY <2>1, <2>2, <1>2, <1>8
<1>11. \A y \in DOMAIN toHost : toHost[y].op = "subscribe" => \A x \in 1 .. j : v[x].sub < toHost[y].id
  BY <1>7, <1>8
<1>12. IdsInv'
  <2>1. /\ cl'.sub = cl.sub /\ cl'.ids = cl.ids /\ toHost' = toHost
        /\ DOMAIN wire' = 1 .. j /\ wire' = v /\ srv' = u
    BY <1>1 DEF v, u
  <2>2. QED BY <2>1, <1>1, <1>8, <1>9, <1>10, <1>11 DEF IdsInv
<1>13. PendingInv'
  <2>1. cl' = cl /\ toHost' = toHost /\ DOMAIN wire' = 1 .. j /\ wire' = v
    BY <1>1 DEF v
  <2>2. QED BY <2>1, <1>1, <1>6 DEF PendingInv
<1>14. QED BY <1>12, <1>13

LEMMA GoesKeeps ==
  ASSUME TypeInv, TypeInv', StreamInv, Goes
  PROVE  ChainInv' /\ ReaderInv' /\ IdsInv' /\ PendingInv' /\ FilterBehindCursor'
<1>1. IdsInv' /\ PendingInv'
  BY IdsGrow DEF Goes, StreamInv
<1>2. cl.next \in Nat /\ cl.sub \in Nat /\ cl' = cl
  BY DEF TypeInv, Clients, Goes
<1>3. ChainInv'
  BY <1>2 DEF Goes, StreamInv, ChainInv
<1>4. FilterBehindCursor'
  BY <1>2 DEF StreamInv, FilterBehindCursor
<1>5. QED BY <1>1, <1>3, <1>4 DEF Goes

\* No subscription is past the end of a log that only grows.
LEMMA GoesWithin ==
  ASSUME TypeInv, TypeInv', LiveInv', SureInv, Goes, Later(View, View'), Sure'
  PROVE  Sure /\ srv'.cur <= EndOffset(log') /\ EndOffset(log) <= EndOffset(log')
<1> DEFINE L == log'
           u == srv'
           r == rd'
<1>1. EndOffset(log) \in Nat /\ srv.cur \in Nat /\ LogOK(L) /\ u.cur \in Nat /\ r.cur \in Nat
  BY LogEnds DEF TypeInv, Subs, ReaderOK, HoldsOK, Readers
<1>2. Sure /\ EndOffset(log) <= EndOffset(L)
  BY DEF Later, View
<1>3. /\ r.io # "none" => u.cur <= r.cur /\ r.cur <= EndOffset(L)
      /\ u.mode = "live" => u.cur = EndOffset(L)
      /\ srv.cur <= EndOffset(log)
      /\ r.io # "none" \/ u.mode = "live" \/ u.cur = srv.cur
  BY <1>2 DEF Goes, ReaderInv, Follows, View, LiveInv, LiveAtEnd, SureInv
<1> HIDE DEF L, u, r
<1>4. EndOffset(L) \in Nat
  BY <1>1, LogEnds
<1>5. u.cur <= EndOffset(L)
  BY <1>1, <1>2, <1>3, <1>4
<1>6. QED BY <1>2, <1>5 DEF L, u

LEMMA StreamReplays ==
  ASSUME TypeInv, TypeInv', LiveInv, LiveInv', StreamInv, Replays, Later(View, View')
  PROVE  StreamInv'
<1>1. Goes
  BY ReplaysGo DEF StreamInv
<1>2. UNCHANGED <<log, host, spent, cl, toHost>>
  BY DEF Replays, FileOpened, UseFile, FileGone, FileRead, UseRecords, LeaveSegment,
         NextSegment, EndOfLog, Drained, Unwritten
<1>3. Sure' => srv'.cur <= EndOffset(log')
  BY <1>1, GoesWithin DEF StreamInv
<1>4. SureInv'
  BY <1>2, <1>3 DEF StreamInv, SureInv, Sure, EndOffset
<1>5. QED BY <1>1, <1>4, GoesKeeps DEF StreamInv

LEMMA StreamWrites ==
  ASSUME TypeInv, TypeInv', LiveInv, LiveInv', StreamInv, Later(View, View'),
         NEW kind \in Kinds, Writes(kind)
  PROVE  StreamInv'
<1>1. Goes
  BY WritesGo DEF StreamInv
<1>2. ASSUME Sure'
      PROVE  /\ log'.inc = 1 /\ host'.known /\ ~host'.removing /\ ~log'.torn
             /\ cl'.inc \in {None, 1} /\ cl'.next <= EndOffset(log')
             /\ srv'.cur <= EndOffset(log')
             /\ \A i \in DOMAIN toHost' : toHost'[i].op = "subscribe" =>
                   toHost'[i].inc \in {None, 1} /\ toHost'[i].from <= EndOffset(log')
  <2>1. Sure /\ srv'.cur <= EndOffset(log')
    BY <1>1, <1>2, GoesWithin DEF StreamInv
  <2>2. /\ log'.inc = log.inc /\ host' = host /\ ~log'.torn /\ cl' = cl /\ toHost' = toHost
        /\ EndOffset(log') = EndOffset(log) + 1
    BY DEF Writes
  <2>3. EndOffset(log) \in Nat /\ cl.next \in Nat
        /\ \A i \in DOMAIN toHost : toHost[i].op = "subscribe" => toHost[i].from \in Nat
    BY LogEnds, ElementOfSeq, LenProperties DEF TypeInv, Clients, Requests
  <2>4. /\ log.inc = 1 /\ host.known /\ ~host.removing
        /\ cl.inc \in {None, 1} /\ cl.next <= EndOffset(log)
        /\ \A i \in DOMAIN toHost : toHost[i].op = "subscribe" =>
              toHost[i].inc \in {None, 1} /\ toHost[i].from <= EndOffset(log)
    BY <2>1 DEF StreamInv, SureInv
  <2>5. cl.next <= EndOffset(log')
    BY <2>2, <2>3, <2>4
  <2>6. \A i \in DOMAIN toHost : toHost[i].op = "subscribe" => toHost[i].from <= EndOffset(log')
    BY <2>2, <2>3, <2>4
  <2>7. QED BY <2>1, <2>2, <2>4, <2>5, <2>6
<1>3. ASSUME Sure', NEW i \in DOMAIN log'.recs
      PROVE  log'.recs[i].id <= spent'.records /\ log'.recs[i].kind # "glued"
  <2> DEFINE M == log'
             n == EndOffset(log)
  <2>1. /\ \A o \in Offsets(log) : M.recs[o + 1] = log.recs[o + 1]
        /\ M.recs[n + 1] = New(kind)
        /\ DOMAIN M.recs = 1 .. n + 1 /\ DOMAIN log.recs = 1 .. n /\ n \in Nat
    BY RecordsAfter DEF TypeInv
  <2>2. Sure /\ host.up /\ ~log.failed /\ spent'.records = spent.records + 1
    BY <1>3, <1>1, GoesWithin DEF StreamInv, Writes
  <2>3. ~log.torn
    BY <2>2 DEF StreamInv, SureInv
  <2>4. kind # "glued"
    BY ParametersAssumption
  <2>5. spent.records \in Nat /\ log.recs \in Seq(Records)
    BY LogEnds DEF TypeInv, Budgets
  <2> HIDE DEF M, n
  <2>6. i \in 1 .. n + 1
    BY <2>1 DEF M
  <2>7. CASE i = n + 1
    <3>1. M.recs[i].id = spent.records + 1 /\ M.recs[i].kind = kind
      BY <2>1, <2>3, <2>7 DEF New
    <3>2. QED BY <3>1, <2>2, <2>4, <2>5 DEF M
  <2>8. CASE i # n + 1
    <3>1. i - 1 \in Offsets(log) /\ i \in DOMAIN log.recs /\ (i - 1) + 1 = i
      BY <2>1, <2>6, <2>8 DEF Offsets, n
    <3>2. M.recs[i] = log.recs[i]
      BY <3>1, <2>1
    <3>3. log.recs[i].id <= spent.records /\ log.recs[i].kind # "glued"
      BY <3>1, <2>2 DEF StreamInv, SureInv
    <3>4. log.recs[i].id \in Nat
      <4>1. log.recs[i] \in Records
        BY <2>5, <3>1, ElementOfSeq, LenProperties
      <4>2. QED BY <4>1 DEF Records
    <3>5. QED BY <3>2, <3>3, <3>4, <2>2, <2>5 DEF M
  <2>9. QED BY <2>7, <2>8
<1>4. SureInv'
  BY <1>2, <1>3 DEF SureInv
<1>5. QED BY <1>1, <1>4, GoesKeeps DEF StreamInv

-----------------------------------------------------------------------------
(* Requests are answered in the order they were sent.                        *)

\* The head of the client's requests is taken, and only messages that carry its
\* id are written, the response first.
LEMMA IdsAnswer ==
  ASSUME TypeInv, TypeInv', IdsInv, PendingInv, toHost # <<>>, toHost' = Tail(toHost), cl' = cl,
         Head(toHost).op = "subscribe",
         Len(wire) <= Len(wire'),
         \A i \in 1 .. Len(wire) : wire'[i] = wire[i],
         \A i \in Len(wire) + 1 .. Len(wire') :
            wire'[i].sub = Head(toHost).id /\ (wire'[i].type = "ok" => i = Len(wire) + 1),
         srv'.mode # "closed" => srv'.id = Head(toHost).id
  PROVE  IdsInv' /\ PendingInv'
<1> DEFINE k == Len(wire)
           v == wire'
           j == Len(wire')
           u == srv'
           t == toHost'
           n == Len(toHost)
           m == Head(toHost)
<1>1. /\ k \in Nat /\ DOMAIN wire = 1 .. k /\ j \in Nat /\ DOMAIN v = 1 .. j
      /\ n \in Nat /\ DOMAIN toHost = 1 .. n /\ cl.ids \in Nat
  BY Places DEF TypeInv, Clients
<1>2. /\ n \in Nat \ {0} /\ Len(t) = n - 1 /\ m = toHost[1]
      /\ \A i \in 1 .. n - 1 : t[i] = toHost[i + 1]
      /\ t \in Seq(Requests)
  BY TailOK DEF TypeInv
<1>3. DOMAIN t = 1 .. n - 1
  BY <1>2, Places
<1>4. /\ k <= j /\ \A i \in 1 .. k : v[i] = wire[i]
      /\ \A i \in k + 1 .. j : v[i].sub = m.id /\ (v[i].type = "ok" => i = k + 1)
      /\ u.mode # "closed" => u.id = m.id
      /\ m.op = "subscribe"
  OBVIOUS
<1>5. \A i \in 1 .. k : wire[i].sub \in Nat
  <2>1. \A i \in 1 .. k : wire[i] \in Messages
    BY ElementOfSeq DEF TypeInv
  <2>2. QED BY <2>1 DEF Messages
<1>6. /\ cl.sub <= cl.ids
      /\ \A i \in 1 .. k : 1 <= wire[i].sub /\ wire[i].sub <= cl.ids
      /\ \A x \in 1 .. k, y \in 1 .. k : x < y /\ wire[y].type = "ok" => wire[x].sub < wire[y].sub
      /\ \A y \in 1 .. n : toHost[y].op = "subscribe" =>
            /\ 1 <= toHost[y].id /\ toHost[y].id <= cl.ids
            /\ \A x \in 1 .. k : wire[x].sub < toHost[y].id
            /\ \A x \in 1 .. n :
                  x < y /\ toHost[x].op = "subscribe" => toHost[x].id < toHost[y].id
  BY <1>1 DEF IdsInv
<1>7. cl.on =>
        /\ \A i \in 1 .. n : toHost[i].op = "subscribe" /\ toHost[i].id = cl.sub =>
              toHost[i].from = cl.next /\ toHost[i].inc = cl.inc /\ cl.wait
        /\ \A i \in 1 .. k : wire[i].type = "ok" /\ wire[i].sub = cl.sub => cl.wait
  BY <1>1 DEF PendingInv
<1> HIDE DEF k, v, j, u, t, n, m
<1>8. /\ 1 \in 1 .. n /\ 1 <= m.id /\ m.id <= cl.ids /\ \A x \in 1 .. k : wire[x].sub < m.id
      /\ m.id \in Nat
  <2>1. m.id \in Nat
    <3>1. m \in Requests
      BY TailOK DEF TypeInv, m
    <3>2. QED BY <3>1, <1>4 DEF Requests
  <2>2. QED BY <2>1, <1>2, <1>4, <1>6
<1>9. \A i \in 1 .. j : i \in 1 .. k \/ i \in k + 1 .. j
  BY <1>1
<1>10. \A i \in 1 .. j : 1 <= v[i].sub /\ v[i].sub <= cl.ids /\ v[i].sub <= m.id
  <2> SUFFICES ASSUME NEW i \in 1 .. j
               PROVE  1 <= v[i].sub /\ v[i].sub <= cl.ids /\ v[i].sub <= m.id
    OBVIOUS
  <2>1. CASE i \in 1 .. k
    <3>1. v[i].sub = wire[i].sub /\ wire[i].sub < m.id /\ wire[i].sub \in Nat
      BY <2>1, <1>4, <1>5, <1>8
    <3>2. 1 <= wire[i].sub /\ wire[i].sub <= cl.ids
      BY <2>1, <1>6
    <3>3. QED BY <3>1, <3>2, <1>8
  <2>2. CASE i \in k + 1 .. j
    <3>1. v[i].sub = m.id
      BY <2>2, <1>4
    <3>2. QED BY <3>1, <1>8
  <2>3. QED BY <2>1, <2>2, <1>9
<1>11. \A x \in 1 .. j, y \in 1 .. j : x < y /\ v[y].type = "ok" => v[x].sub < v[y].sub
  <2> SUFFICES ASSUME NEW x \in 1 .. j, NEW y \in 1 .. j, x < y, v[y].type = "ok"
               PROVE  v[x].sub < v[y].sub
    OBVIOUS
  <2>1. CASE y \in 1 .. k
    <3>1. x \in 1 .. k
      BY <2>1, <1>1
    <3>2. QED BY <3>1, <2>1, <1>4, <1>6
  <2>2. CASE y \in k + 1 .. j
    <3>1. y = k + 1 /\ x \in 1 .. k
      BY <2>2, <1>1, <1>4
    <3>2. QED BY <3>1, <2>2, <1>4, <1>8
  <2>3. QED BY <2>1, <2>2, <1>9
<1>12. \A y \in 1 .. n - 1 : y + 1 \in 1 .. n /\ 1 < y + 1 /\ t[y] = toHost[y + 1]
  BY <1>2
<1>13. \A y \in 1 .. n - 1 : t[y].op = "subscribe" =>
          /\ 1 <= t[y].id /\ t[y].id <= cl.ids /\ m.id < t[y].id
  BY <1>2, <1>4, <1>6, <1>8, <1>12
<1>14. \A x \in 1 .. n - 1, y \in 1 .. n - 1 :
          x < y /\ t[x].op = "subscribe" /\ t[y].op = "subscribe" => t[x].id < t[y].id
  <2> SUFFICES ASSUME NEW x \in 1 .. n - 1, NEW y \in 1 .. n - 1, x < y,
                      t[x].op = "subscribe", t[y].op = "subscribe"
               PROVE  t[x].id < t[y].id
    OBVIOUS
  <2>1. x + 1 < y + 1
    BY <1>2
  <2>2. QED BY <2>1, <1>6, <1>12
<1>15. \A y \in 1 .. n - 1 : t[y].op = "subscribe" => \A x \in 1 .. j : v[x].sub < t[y].id
  <2> SUFFICES ASSUME NEW y \in 1 .. n - 1, t[y].op = "subscribe", NEW x \in 1 .. j
               PROVE  v[x].sub < t[y].id
    OBVIOUS
  <2>1. m.id < t[y].id /\ v[x].sub <= m.id
    BY <1>10, <1>13
  <2>2. m.id \in Nat /\ t[y].id \in Nat /\ v[x].sub \in Nat
    <3>1. t[y] \in Requests
      BY <1>2, <1>3, ElementOfSeq, LenProperties
    <3>2. v[x].sub \in Nat
      BY <1>4, <1>5, <1>8, <1>9
    <3>3. QED BY <3>1, <3>2, <1>8 DEF Requests
  <2>3. QED BY <2>1, <2>2
<1>16. IdsInv'
  <2>1. /\ cl'.sub = cl.sub /\ cl'.ids = cl.ids /\ toHost' = t /\ DOMAIN toHost' = 1 .. n - 1
        /\ DOMAIN wire' = 1 .. j /\ wire' = v /\ srv' = u
    BY <1>1, <1>3 DEF v, u, t
  <2>2. QED BY <2>1, <1>4, <1>6, <1>8, <1>10, <1>11, <1>13, <1>14, <1>15 DEF IdsInv
<1>17. ASSUME cl.on, NEW i \in 1 .. j, v[i].type = "ok", v[i].sub = cl.sub PROVE cl.wait
  <2>1. CASE i \in 1 .. k
    BY <2>1, <1>4, <1>7, <1>17
  <2>2. CASE i \in k + 1 .. j
    BY <2>2, <1>2, <1>4, <1>7, <1>8, <1>17
  <2>3. QED BY <2>1, <2>2, <1>9
<1>18. PendingInv'
  <2>1. /\ cl' = cl /\ toHost' = t /\ DOMAIN toHost' = 1 .. n - 1
        /\ DOMAIN wire' = 1 .. j /\ wire' = v
    BY <1>1, <1>3 DEF v, t
  <2>2. QED BY <2>1, <1>7, <1>12, <1>17 DEF PendingInv
<1>19. QED BY <1>16, <1>18

-----------------------------------------------------------------------------
(* The host answers.                                                         *)

LEMMA SubscribeAnswered ==
  ASSUME TypeInv, TypeInv', LiveInv, StreamInv, HandleSubscribe, host.known
  PROVE  StreamInv'
<1> DEFINE m == Head(toHost)
           reset == IsReset(m)
           from == IF reset THEN log.first ELSE m.from
           s == [mode |-> "catchup", cur |-> from, id |-> m.id, told |-> FALSE]
           a == Response(m.id, log.first, log.inc, reset)
           w == Append(wire, a)
           V == View
<1>0. /\ Connected /\ LogOK(log) /\ wire \in Seq(Messages) /\ toHost \in Seq(Requests)
      /\ log.first \in Nat /\ log.inc \in Nat /\ cl \in Clients
      /\ EndOffset(log) \in Nat /\ log.first <= EndOffset(log) /\ V.log = log
  BY LogEnds DEF TypeInv, Connected, LogOK, Logs, View
<1>1. /\ UNCHANGED <<log, maint, host, cl, got, raced, spent>>
      /\ toHost # <<>> /\ m.op = "subscribe" /\ toHost' = Tail(toHost)
      /\ CatchUp(s, ReaderAt(from), w, log)
  BY DEF HandleSubscribe, UnlessRead
<1>2. /\ m \in Requests /\ m = toHost[1] /\ 1 \in DOMAIN toHost
      /\ m.id \in Nat /\ m.from \in Nat
  <2>1. m \in Requests /\ m = toHost[1] /\ Len(toHost) \in Nat \ {0}
    BY <1>0, <1>1, TailOK
  <2>2. 1 \in DOMAIN toHost
    BY <2>1, <1>0, Places
  <2>3. m.id \in Nat /\ m.from \in Nat
    BY <2>1, <1>1 DEF Requests
  <2>4. QED BY <2>1, <2>2, <2>3
<1>3. /\ reset \in BOOLEAN
      /\ Sure => /\ m.inc \in {None, 1} /\ log.inc = 1 /\ m.from <= EndOffset(log)
  BY <1>1, <1>2 DEF IsReset, StreamInv, SureInv
<1>4. Sure => ~reset
  BY <1>3 DEF IsReset
<1> HIDE DEF reset
<1>5. from \in Nat /\ (Sure => from <= EndOffset(log))
  BY <1>0, <1>2, <1>3, <1>4
<1>6. /\ \A i \in DOMAIN wire : wire[i].sub < m.id /\ wire[i].sub \in Nat
      /\ cl.on /\ m.id = cl.sub => m.from = cl.next /\ m.inc = cl.inc
  <2>1. \A i \in DOMAIN wire : wire[i] \in Messages
    BY <1>0, ElementOfSeq, LenProperties
  <2>2. \A i \in DOMAIN wire : wire[i].sub \in Nat
    BY <2>1, MessageFields
  <2>3. QED BY <2>2, <1>1, <1>2 DEF StreamInv, IdsInv, PendingInv
<1> HIDE DEF m
<1>7. /\ a \in Messages /\ a.type = "ok" /\ a.sub = m.id /\ a.first = log.first
      /\ a.inc = log.inc /\ a.reset = reset
  BY <1>0, <1>2, <1>3 DEF Response, Messages
<1>8. /\ s \in Subs /\ s.mode = "catchup" /\ s.id = m.id /\ s.cur = from
  <2> HIDE DEF from
  <2>1. QED BY <1>2, <1>5 DEF Subs
<1>9. /\ Ready(ReaderAt(from), log) /\ ReaderAt(from).cur = from /\ ReaderAt(from).acc = {}
  BY <1>5, ReaderAtReady
<1> HIDE DEF s, a
<1>10. w \in Seq(Messages)
  BY <1>0, <1>7, AppendProperties
<1>11. Follows(s, ReaderAt(from), V)
  <2>1. V.sure => Sure
    BY DEF View
  <2> HIDE DEF from, V
  <2>2. QED BY <2>1, <1>0, <1>5, <1>8, <1>9 DEF Follows
<1>12. ASSUME cl.on PROVE Joined(w, s, cl.next, cl.sub, V)
  <2>0. cl.next \in Nat /\ cl.sub \in Nat
    BY <1>0 DEF Clients
  <2>1. CASE m.id = cl.sub
    <3>1. \A i \in 1 .. Len(wire) : wire[i].sub # cl.sub
      <4>1. \A i \in 1 .. Len(wire) : i \in DOMAIN wire
        BY <1>0, Places
      <4>2. QED BY <4>1, <1>2, <1>6, <2>1
    <3>2. Reaches(wire, cl.next, cl.next, cl.sub, V)
      BY <3>1, <2>0, <1>0, ReachesNothing
    <3>3. Link(a, cl.next, from, cl.sub, V)
      <4>1. ResponseLink(a, cl.next, from, V)
        BY <1>0, <1>4, <1>6, <1>7, <1>12, <2>1 DEF ResponseLink, View
      <4>2. QED BY <4>1, <2>1, <1>7 DEF Link
    <3>4. Reaches(w, cl.next, from, cl.sub, V)
      BY <3>2, <3>3, <1>0, <1>5, <1>7, ReachesPush
    <3>5. LeadsTo(s, from, cl.sub, V)
      BY <1>5, <1>8, SkipsNothing DEF LeadsTo
    <3>6. QED BY <3>4, <3>5, <1>5 DEF Joined
  <2>2. CASE m.id # cl.sub
    <3>1. Joined(wire, srv, cl.next, cl.sub, V)
      BY <1>12 DEF StreamInv, ChainInv
    <3>2. PICK e \in Nat : Reaches(wire, cl.next, e, cl.sub, V)
      BY <3>1 DEF Joined
    <3>3. Link(a, e, e, cl.sub, V)
      BY <2>2, <1>7 DEF Link
    <3>4. Reaches(w, cl.next, e, cl.sub, V)
      BY <3>2, <3>3, <1>0, <1>7, ReachesPush
    <3>5. LeadsTo(s, e, cl.sub, V)
      BY <2>2, <1>8 DEF LeadsTo
    <3>6. QED BY <3>4, <3>5 DEF Joined
  <2>3. QED BY <2>1, <2>2
<1>13. /\ Follows(srv', rd', V)
       /\ \A n, sub \in Nat : Joined(w, s, n, sub, V) => Joined(wire', srv', n, sub, V)
  BY <1>0, <1>1, <1>8, <1>9, <1>10, <1>11, CatchUpGoesOn
<1>14. /\ rd'.io \in {"drain", "opening", "reading"} /\ srv'.id = m.id /\ srv'.mode = "catchup"
       /\ wire' \in Seq(Messages)
  BY <1>0, <1>1, <1>8, <1>9, <1>10, CatchUpDoes
<1>15. Grown(w, wire', m.id)
  BY <1>0, <1>1, <1>8, <1>9, <1>10, CatchUpGrows
<1>16. View' = V /\ Sure' = Sure
  BY <1>1 DEF View, Sure
<1>17. ChainInv'
  <2>1. cl' = cl /\ cl.next \in Nat /\ cl.sub \in Nat
    BY <1>0, <1>1 DEF Clients
  <2>2. cl.on => Joined(wire', srv', cl.next, cl.sub, V)
    BY <2>1, <1>12, <1>13
  <2>3. QED BY <2>1, <2>2, <1>16 DEF ChainInv
<1>18. ReaderInv'
  BY <1>13, <1>14, <1>16 DEF ReaderInv
<1>19. IdsInv' /\ PendingInv'
  <2> DEFINE k == Len(wire)
             j == Len(wire')
  <2>1. /\ k \in Nat /\ Len(w) = k + 1 /\ w[k + 1] = a /\ \A i \in 1 .. k : w[i] = wire[i]
        /\ j \in Nat
    BY <1>0, <1>7, <1>14, AppendProperties, LenProperties
  <2>2. /\ k + 1 <= j /\ \A i \in 1 .. k + 1 : wire'[i] = w[i]
        /\ \A i \in k + 1 + 1 .. j : wire'[i].sub = m.id /\ wire'[i].type # "ok"
    BY <2>1, <1>15 DEF Grown
  <2> HIDE DEF k, j, w
  <2>3. \A i \in 1 .. k : wire'[i] = wire[i]
    BY <2>1, <2>2
  <2>4. \A i \in k + 1 .. j : wire'[i].sub = m.id /\ (wire'[i].type = "ok" => i = k + 1)
    <3> SUFFICES ASSUME NEW i \in k + 1 .. j
                 PROVE  wire'[i].sub = m.id /\ (wire'[i].type = "ok" => i = k + 1)
      OBVIOUS
    <3>1. CASE i = k + 1
      BY <3>1, <2>1, <2>2, <1>7
    <3>2. CASE i # k + 1
      <4>1. i \in k + 1 + 1 .. j
        BY <3>2, <2>1
      <4>2. QED BY <4>1, <2>2
    <3>3. QED BY <3>1, <3>2
  <2>5. k <= j
    BY <2>1, <2>2
  <2>6. QED BY <2>3, <2>4, <2>5, <1>1, <1>14, IdsAnswer DEF StreamInv, k, j, m
<1>20. SureInv'
  <2>1. ASSUME Sure' PROVE srv'.cur <= EndOffset(log')
    <3>1. Follows(srv', rd', V) /\ V.sure /\ log' = log
      BY <2>1, <1>1, <1>13, <1>16 DEF View
    <3>2. srv'.cur <= rd'.cur /\ rd'.cur <= EndOffset(log)
      BY <3>1, <1>0 DEF Follows
    <3>3. srv'.cur \in Nat /\ rd'.cur \in Nat
      BY DEF TypeInv, Subs, ReaderOK, HoldsOK, Readers
    <3>4. QED BY <3>1, <3>2, <3>3, <1>0
  <2>2. ASSUME Sure', NEW i \in DOMAIN toHost', toHost'[i].op = "subscribe"
        PROVE  toHost'[i].inc \in {None, 1} /\ toHost'[i].from <= EndOffset(log')
    <3> DEFINE t == toHost'
    <3>1. /\ DOMAIN t = 1 .. Len(toHost) - 1 /\ Len(toHost) \in Nat \ {0}
          /\ \A x \in 1 .. Len(toHost) - 1 : t[x] = toHost[x + 1]
          /\ DOMAIN toHost = 1 .. Len(toHost)
      <4>1. /\ Len(toHost) \in Nat \ {0} /\ t = Tail(toHost) /\ t \in Seq(Requests)
            /\ Len(t) = Len(toHost) - 1
            /\ \A x \in 1 .. Len(toHost) - 1 : t[x] = toHost[x + 1]
        BY <1>0, <1>1, TailOK
      <4> HIDE DEF t
      <4>2. QED BY <4>1, <1>0, Places
    <3>2. i + 1 \in DOMAIN toHost /\ t[i] = toHost[i + 1]
      BY <3>1
    <3>3. QED BY <3>2, <2>2, <1>1, <1>16 DEF StreamInv, SureInv
  <2>3. QED BY <2>1, <2>2, <1>1, <1>16 DEF StreamInv, SureInv
<1>21. FilterBehindCursor'
  BY <1>1 DEF StreamInv, FilterBehindCursor
<1>22. QED BY <1>17, <1>18, <1>19, <1>20, <1>21 DEF StreamInv

\* Nothing is served: what is on its way is all there is.
LEMMA JoinedClosed ==
  ASSUME NEW w, NEW s, NEW n, NEW sub, NEW V, Joined(w, s, n, sub, V),
         NEW u, u.mode = "closed"
  PROVE  Joined(w, u, n, sub, V)
BY DEF Joined, LeadsTo

\* A notice moves nobody.
LEMMA JoinedNotice ==
  ASSUME NEW w \in Seq(Messages), NEW s, NEW n, NEW sub, NEW V, Joined(w, s, n, sub, V),
         NEW m \in Messages, m.type \in {"unknown_agent", "caught_up", "stream_closed"}
  PROVE  Joined(Append(w, m), s, n, sub, V)
<1>1. PICK e \in Nat : Reaches(w, n, e, sub, V) /\ LeadsTo(s, e, sub, V)
  BY DEF Joined
<1>2. Link(m, e, e, sub, V)
  BY DEF Link, NoticeLink
<1>3. Reaches(Append(w, m), n, e, sub, V)
  BY <1>1, <1>2, ReachesPush
<1>4. QED BY <1>1, <1>3 DEF Joined

LEMMA SubscribeRefused ==
  ASSUME TypeInv, TypeInv', LiveInv, StreamInv, HandleSubscribe, ~host.known
  PROVE  StreamInv'
<1> DEFINE m == Head(toHost)
           a == Notice("unknown_agent", m.id)
<1>1. /\ UNCHANGED <<log, maint, host, cl, got, raced, spent>> /\ UNCHANGED <<srv, rd>>
      /\ toHost # <<>> /\ m.op = "subscribe" /\ toHost' = Tail(toHost)
      /\ wire' = Append(wire, a)
  BY DEF HandleSubscribe, UnlessRead
<1>2. srv.mode = "closed" /\ wire \in Seq(Messages)
  BY DEF LiveInv, OnlyKnownServed, TypeInv
<1>3. a \in Messages /\ a.type = "unknown_agent" /\ a.sub = m.id
  <2>1. m \in Requests
    BY <1>1, TailOK DEF TypeInv
  <2>2. m.id \in Nat
    BY <2>1, <1>1 DEF Requests
  <2>3. QED BY <2>2 DEF Notice, Messages
<1> HIDE DEF a
<1>4. ~Sure /\ ~Sure' /\ View' = View
  BY <1>1 DEF StreamInv, SureInv, Sure, View
<1>5. ChainInv'
  <2>1. cl.on => Joined(wire', srv, cl.next, cl.sub, View)
    BY <1>1, <1>2, <1>3, JoinedNotice DEF StreamInv, ChainInv
  <2>2. QED BY <2>1, <1>1, <1>4 DEF ChainInv
<1>6. ReaderInv'
  BY <1>1, <1>4 DEF StreamInv, ReaderInv
<1>7. IdsInv' /\ PendingInv'
  <2> DEFINE k == Len(wire)
             j == Len(wire')
  <2>1. /\ k \in Nat /\ j = k + 1 /\ wire'[k + 1] = a /\ \A i \in 1 .. k : wire'[i] = wire[i]
    BY <1>1, <1>2, <1>3, AppendProperties, LenProperties
  <2> HIDE DEF k, j, m
  <2>2. \A i \in k + 1 .. j : wire'[i].sub = m.id /\ (wire'[i].type = "ok" => i = k + 1)
    BY <2>1, <1>3
  <2>3. k <= j /\ srv'.mode = "closed"
    BY <2>1, <1>1, <1>2
  <2>4. QED BY <2>1, <2>2, <2>3, <1>1, IdsAnswer DEF StreamInv, k, j, m
<1>8. FilterBehindCursor' /\ SureInv'
  BY <1>1, <1>4 DEF StreamInv, FilterBehindCursor, SureInv
<1>9. QED BY <1>5, <1>6, <1>7, <1>8 DEF StreamInv

LEMMA UnsubscribeHandled ==
  ASSUME TypeInv, TypeInv', LiveInv, StreamInv, HandleUnsubscribe
  PROVE  StreamInv'
<1> DEFINE t == toHost'
           n == Len(toHost)
<1>1. /\ UNCHANGED <<log, maint, host, cl, got, raced, spent>> /\ UNCHANGED wire
      /\ toHost # <<>> /\ t = Tail(toHost)
      /\ srv' = NoSubscription /\ rd' = NoReader
  BY DEF HandleUnsubscribe, UnlessRead
<1>2. Sure' = Sure /\ View' = View
  BY <1>1 DEF Sure, View
<1>3. srv'.mode = "closed" /\ srv'.cur = 0 /\ rd'.io = "none"
  BY <1>1 DEF NoSubscription, NoReader
<1>4. /\ DOMAIN t = 1 .. n - 1 /\ n \in Nat \ {0} /\ DOMAIN toHost = 1 .. n
      /\ \A x \in 1 .. n - 1 : t[x] = toHost[x + 1]
  <2>1. /\ n \in Nat \ {0} /\ t \in Seq(Requests) /\ Len(t) = n - 1
        /\ \A x \in 1 .. n - 1 : t[x] = toHost[x + 1]
    BY <1>1, TailOK DEF TypeInv
  <2> HIDE DEF t
  <2>2. DOMAIN toHost = 1 .. n
    BY Places DEF TypeInv
  <2>3. QED BY <2>1, <2>2, Places
<1> HIDE DEF t, n
<1>5. \A x \in DOMAIN t : x + 1 \in DOMAIN toHost /\ t[x] = toHost[x + 1]
  BY <1>4
<1>6. \A x, y \in DOMAIN t : x < y => x + 1 < y + 1
  BY <1>4
<1>7. ChainInv'
  <2>1. cl.on => Joined(wire, srv', cl.next, cl.sub, View)
    BY <1>3, JoinedClosed DEF StreamInv, ChainInv
  <2>2. QED BY <2>1, <1>1, <1>2 DEF ChainInv
<1>8. ReaderInv' /\ FilterBehindCursor'
  BY <1>1, <1>3 DEF StreamInv, ReaderInv, FilterBehindCursor
<1>9. IdsInv'
  <2>1. \A j \in DOMAIN t : t[j].op = "subscribe" =>
          /\ 1 <= t[j].id /\ t[j].id <= cl.ids
          /\ \A i \in DOMAIN wire : wire[i].sub < t[j].id
          /\ \A i \in DOMAIN t : i < j /\ t[i].op = "subscribe" => t[i].id < t[j].id
    BY <1>5, <1>6 DEF StreamInv, IdsInv
  <2>2. QED BY <2>1, <1>1, <1>3 DEF StreamInv, IdsInv, t
<1>10. PendingInv'
  <2>1. cl.on => \A i \in DOMAIN t : t[i].op = "subscribe" /\ t[i].id = cl.sub =>
          t[i].from = cl.next /\ t[i].inc = cl.inc /\ cl.wait
    BY <1>5 DEF StreamInv, PendingInv
  <2>2. QED BY <2>1, <1>1 DEF StreamInv, PendingInv, t
<1>11. SureInv'
  <2>1. Sure => \A i \in DOMAIN t : t[i].op = "subscribe" =>
          t[i].inc \in {None, 1} /\ t[i].from <= EndOffset(log)
    BY <1>5 DEF StreamInv, SureInv
  <2>2. 0 <= EndOffset(log)
    BY LogEnds DEF TypeInv
  <2>3. QED BY <2>1, <2>2, <1>1, <1>2, <1>3 DEF StreamInv, SureInv, t
<1>12. QED BY <1>7, <1>8, <1>9, <1>10, <1>11 DEF StreamInv

LEMMA StreamServes ==
  ASSUME TypeInv, TypeInv', LiveInv, StreamInv, Serves
  PROVE  StreamInv'
BY SubscribeAnswered, SubscribeRefused, UnsubscribeHandled DEF Serves

-----------------------------------------------------------------------------
(* Steps that neither write to the client nor read from it.                  *)

LEMMA Quiet ==
  ASSUME TypeInv, TypeInv', StreamInv, Later(View, View'),
         UNCHANGED <<srv, rd, wire, toHost, cl>>,
         rd.io = "none" \/ (log'.recs = log.recs /\ log'.cuts = log.cuts),
         Sure' => SureInv'
  PROVE  StreamInv'
<1> DEFINE V == View
           W == View'
<1>0. /\ LogOK(V.log) /\ LogOK(W.log) /\ V.log = log /\ W.log = log' /\ Later(V, W)
      /\ wire \in Seq(Messages)
  BY DEF TypeInv, View
<1> HIDE DEF V, W
<1>1. ChainInv'
  <2>1. cl.on => Joined(wire, srv, cl.next, cl.sub, V)
    BY DEF StreamInv, ChainInv, V
  <2>2. cl.on => Joined(wire, srv, cl.next, cl.sub, W)
    BY <2>1, <1>0, JoinedLater
  <2>3. QED BY <2>2 DEF ChainInv, W
<1>2. ReaderInv'
  <2> SUFFICES ASSUME rd.io # "none"
               PROVE  /\ Follows(srv, rd, W)
                      /\ W.sure /\ rd.io = "read" => FoundAll(rd, W)
                      /\ W.sure /\ rd.io = "closing" => ReadThrough(rd, W)
    BY DEF ReaderInv, W
  <2>1. /\ Follows(srv, rd, V)
        /\ V.sure /\ rd.io = "read" => FoundAll(rd, V)
        /\ V.sure /\ rd.io = "closing" => ReadThrough(rd, V)
    BY DEF StreamInv, ReaderInv, V
  <2>2. rd.cur \in Nat
    BY DEF TypeInv, ReaderOK, HoldsOK, Readers
  <2>3. SegmentEnd(W.log, rd.seg) = SegmentEnd(V.log, rd.seg)
    BY <1>0 DEF SegmentEnd, EndOffset
  <2>4. Follows(srv, rd, W)
    BY <2>1, <2>2, <1>0, FollowsLater
  <2>5. W.sure => V.sure /\ Free(V) \subseteq Free(W)
    BY <1>0 DEF Later
  <2>6. QED BY <2>1, <2>3, <2>4, <2>5 DEF FoundAll, ReadThrough
<1>3. IdsInv' /\ PendingInv' /\ FilterBehindCursor'
  BY DEF StreamInv, IdsInv, PendingInv, FilterBehindCursor
<1>4. SureInv'
  BY DEF SureInv
<1>5. QED BY <1>1, <1>2, <1>3, <1>4 DEF StreamInv

LEMMA StreamTears ==
  ASSUME TypeInv, TypeInv', StreamInv, Later(View, View'), AppendTears
  PROVE  StreamInv'
<1>1. /\ log' = [log EXCEPT !.failed = TRUE, !.torn = TRUE] /\ Spend("fails")
      /\ UNCHANGED <<maint, host, srv, rd, wire, toHost, cl, got, raced>>
  BY DEF AppendTears
<1>2. log \in Logs /\ spent \in Budgets
  BY DEF TypeInv, LogOK
<1>3. log'.recs = log.recs /\ log'.cuts = log.cuts /\ log'.inc = log.inc /\ log'.failed
  BY <1>1, <1>2 DEF Logs
<1>4. (Sure' => Sure) /\ spent'.records = spent.records
  BY <1>1, <1>2, SpendingOn
<1>5. Sure' => SureInv'
  BY <1>1, <1>3, <1>4 DEF StreamInv, SureInv, EndOffset
<1>6. QED BY <1>1, <1>3, <1>5, Quiet

LEMMA StreamMaintains ==
  ASSUME TypeInv, TypeInv', StreamInv, Later(View, View'), Maintains
  PROVE  StreamInv'
<1>1. UNCHANGED <<host, srv, rd, wire, toHost, cl, got, raced, spent>>
  BY DEF Maintains, Compact, EnforceRetention
<1>2. /\ log'.recs = log.recs /\ log'.cuts = log.cuts /\ log'.inc = log.inc
      /\ log'.torn = log.torn /\ log'.failed = log.failed
  <2> DEFINE P == log.packed \cup {Head(maint).seg}
             f == Retained(log)
  <2>1. log' = log \/ log' = [log EXCEPT !.packed = P] \/ log' = [log EXCEPT !.first = f]
    BY DEF Maintains, Compact, EnforceRetention
  <2> HIDE DEF P, f
  <2>2. log \in Logs
    BY DEF TypeInv, LogOK
  <2>3. QED BY <2>1, <2>2 DEF Logs
<1>3. Sure' => SureInv'
  BY <1>1, <1>2 DEF StreamInv, SureInv, Sure, EndOffset
<1>4. QED BY <1>1, <1>2, <1>3, Quiet

LEMMA StreamRestarts ==
  ASSUME TypeInv, TypeInv', StreamInv, Later(View, View'), HostRestart
  PROVE  StreamInv'
<1>1. /\ host' = [host EXCEPT !.up = TRUE]
      /\ UNCHANGED <<maint, srv, rd, wire, toHost, cl, got, raced, spent>>
      /\ log' = IF host.known THEN Reopened(log) ELSE log
  BY DEF HostRestart
<1>2. log'.recs = log.recs /\ log'.cuts = log.cuts /\ log'.inc = log.inc
      /\ (host.known => ~log'.torn)
  BY <1>1 DEF TypeInv, LogOK, Logs, Reopened
<1>3. host'.known = host.known /\ host'.removing = host.removing
  BY <1>1 DEF TypeInv, Hosts
<1>4. Sure' => SureInv'
  BY <1>1, <1>2, <1>3 DEF StreamInv, SureInv, Sure, EndOffset
<1>5. QED BY <1>1, <1>2, <1>4, Quiet

LEMMA StreamLives ==
  ASSUME TypeInv, TypeInv', LiveInv, StreamInv, Later(View, View'), Lives
  PROVE  StreamInv'
<1>1. CASE Destroyed \/ SpawnAgent
  <2>1. /\ UNCHANGED <<srv, rd, wire, toHost, cl, spent>> /\ (host.removing \/ ~host.known)
    BY <1>1 DEF Destroyed, SpawnAgent
  <2>2. rd.io = "none"
    BY <2>1 DEF LiveInv, OnlyKnownServed, ReadsToCatchUp
  <2>3. ~Sure'
    BY <2>1 DEF StreamInv, SureInv, Sure
  <2>4. QED BY <2>1, <2>2, <2>3, Quiet
<1>2. CASE RemoveAgent
  <2> DEFINE m == Notice("stream_closed", srv.id)
  <2>1. /\ srv' = NoSubscription /\ rd' = NoReader /\ Spend("removals")
        /\ wire' = IF srv.mode = "closed" THEN wire ELSE Append(wire, m)
        /\ UNCHANGED <<log, maint, toHost, cl, got, raced>>
    BY <1>2 DEF RemoveAgent
  <2>2. m \in Messages /\ m.type = "stream_closed" /\ m.sub = srv.id
    BY DEF Notice, Messages, TypeInv, Subs
  <2>3. srv'.mode = "closed" /\ rd'.io = "none"
    BY <2>1 DEF NoSubscription, NoReader
  <2>4. ~Sure'
    BY <2>1, SpendingOn DEF TypeInv
  <2> HIDE DEF m
  <2>5. wire \in Seq(Messages) /\ LogOK(log) /\ LogOK(log')
    BY DEF TypeInv
  <2>6. ChainInv'
    <3> DEFINE V == View
               W == View'
    <3>1. V.log = log /\ W.log = log' /\ Later(V, W)
      BY DEF View
    <3> HIDE DEF V, W
    <3>2. cl.on => Joined(wire, srv, cl.next, cl.sub, V)
      BY DEF StreamInv, ChainInv, V
    <3>3. cl.on => Joined(wire, srv, cl.next, cl.sub, W)
      BY <3>1, <3>2, <2>5, JoinedLater
    <3>4. cl.on => Joined(wire', srv, cl.next, cl.sub, W)
      BY <3>3, <2>1, <2>2, <2>5, JoinedNotice
    <3>5. cl.on => Joined(wire', srv', cl.next, cl.sub, W)
      BY <3>4, <2>3, JoinedClosed
    <3>6. QED BY <3>5, <2>1 DEF ChainInv, W
  <2>7. ReaderInv' /\ FilterBehindCursor' /\ SureInv'
    BY <2>1, <2>3, <2>4 DEF StreamInv, ReaderInv, FilterBehindCursor, SureInv
  <2>8. IdsInv' /\ PendingInv'
    <3>1. Grown(wire, wire', srv.id)
      BY <2>1, <2>2, <2>5, GrownNot, GrownOne
    <3>2. QED BY <3>1, <2>1, <2>3, IdsGrow DEF StreamInv
  <2>9. QED BY <2>6, <2>7, <2>8 DEF StreamInv
<1>3. QED BY <1>1, <1>2 DEF Lives

-----------------------------------------------------------------------------
(* The client reads a message.                                               *)

LEMMA ReceivesDo ==
  ASSUME TypeInv, Receives
  PROVE  LET m == Head(wire)
         IN  /\ wire # <<>> /\ wire' = Tail(wire) /\ m \in Messages /\ m = wire[1]
             /\ UNCHANGED <<log, maint, host, srv, rd, toHost, raced, spent>>
             /\ \/ cl' = cl /\ got' = got /\ (InForce(m) => m.type # "replay_gap")
                            /\ (m.type = "ok" => ~(InForce(m) /\ cl.wait))
                            /\ (m.type = "event" => ~Hands(m))
                \/ m.type = "ok" /\ InForce(m) /\ cl.wait /\ cl' = Answered(cl, m) /\ got' = got
                \/ /\ m.type \in {"unknown_agent", "stream_closed"} /\ cl' = Quit /\ got' = got
                   /\ InForce(m)
                \/ /\ m.type = "event" /\ Hands(m)
                   /\ cl' = [cl EXCEPT !.next = m.off + 1, !.seq = m.off, !.inc = m.inc]
                   /\ got' = [id |-> m.rec.id, inc |-> m.inc]
                \/ m.type = "replay_gap" /\ InForce(m) /\ cl' = Moved(cl, m) /\ got' = got
<1>0. wire \in Seq(Messages)
  BY DEF TypeInv
<1>1. /\ wire # <<>> /\ wire' = Tail(wire)
      /\ UNCHANGED <<log, maint, host, srv, rd, toHost, raced, spent>>
  BY DEF Receives, OnResponse, OnRefused, OnEvent, OnGap, OnCaughtUp, OnStreamClosed, Reads,
         UnlessClient
<1>2. Head(wire) \in Messages /\ Head(wire) = wire[1]
  BY <1>0, <1>1, TailOK
<1> DEFINE m == Head(wire)
<1>3. CASE OnResponse
  <2>1. /\ m.type = "ok" /\ got' = got
        /\ cl' = IF InForce(m) /\ cl.wait THEN Answered(cl, m) ELSE cl
    BY <1>3 DEF OnResponse, Reads
  <2> HIDE DEF m
  <2>2. QED BY <2>1, <1>1, <1>2 DEF m
<1>4. CASE OnRefused
  <2>1. /\ m.type = "unknown_agent" /\ got' = got
        /\ cl' = IF InForce(m) /\ cl.wait THEN Quit ELSE cl
    BY <1>4 DEF OnRefused, Reads, Quit
  <2> HIDE DEF m
  <2>2. QED BY <2>1, <1>1, <1>2 DEF m
<1>5. CASE OnEvent
  <2>1. /\ m.type = "event"
        /\ IF Hands(m)
           THEN /\ cl' = [cl EXCEPT !.next = m.off + 1, !.seq = m.off, !.inc = m.inc]
                /\ got' = [id |-> m.rec.id, inc |-> m.inc]
           ELSE cl' = cl /\ got' = got
    BY <1>5 DEF OnEvent, Reads
  <2> HIDE DEF m
  <2>2. QED BY <2>1, <1>1, <1>2 DEF m
<1>6. CASE OnGap
  <2>1. /\ m.type = "replay_gap" /\ got' = got
        /\ cl' = IF InForce(m) THEN Moved(cl, m) ELSE cl
    BY <1>6 DEF OnGap, Reads
  <2> HIDE DEF m
  <2>2. QED BY <2>1, <1>1, <1>2 DEF m
<1>7. CASE OnCaughtUp
  <2>1. m.type = "caught_up" /\ cl' = cl /\ got' = got
    BY <1>7 DEF OnCaughtUp, Reads
  <2> HIDE DEF m
  <2>2. QED BY <2>1, <1>1, <1>2 DEF m
<1>8. CASE OnStreamClosed
  <2>1. /\ m.type = "stream_closed" /\ got' = got
        /\ cl' = IF InForce(m) THEN Quit ELSE cl
    BY <1>8 DEF OnStreamClosed, Reads, Quit
  <2> HIDE DEF m
  <2>2. QED BY <2>1, <1>1, <1>2 DEF m
<1>9. QED BY <1>3, <1>4, <1>5, <1>6, <1>7, <1>8 DEF Receives

LEMMA AnsweredIs ==
  ASSUME NEW c \in Clients, NEW m \in Messages, m.type = "ok"
  PROVE  LET d == Answered(c, m)
         IN  /\ d.on = c.on /\ d.sub = c.sub /\ d.ids = c.ids /\ d.inc = m.inc /\ d.up = c.up
             /\ d.next = IF m.reset THEN m.first ELSE c.next
             /\ d.seq = -1 \/ (~m.reset /\ d.seq = c.seq)
<1> DEFINE d == Answered(c, m)
<1> HIDE DEF d
<1> SUFFICES /\ d.on = c.on /\ d.sub = c.sub /\ d.ids = c.ids /\ d.inc = m.inc /\ d.up = c.up
             /\ d.next = IF m.reset THEN m.first ELSE c.next
             /\ d.seq = -1 \/ (~m.reset /\ d.seq = c.seq)
  BY DEF d
<1>1. m.reset \in BOOLEAN
  BY MessageFields
<1>2. CASE m.reset
  <2>1. d = [c EXCEPT !.next = m.first, !.seq = -1, !.inc = m.inc, !.wait = FALSE]
    BY <1>2 DEF Answered, d
  <2>2. /\ d.on = c.on /\ d.sub = c.sub /\ d.ids = c.ids /\ d.inc = m.inc /\ d.up = c.up
        /\ d.next = m.first /\ d.seq = -1
    BY <2>1 DEF Clients
  <2>3. QED BY <2>2, <1>2
<1>3. CASE ~m.reset /\ c.inc = None
  <2>1. d = [c EXCEPT !.seq = -1, !.inc = m.inc, !.wait = FALSE]
    BY <1>3 DEF Answered, d
  <2>2. /\ d.on = c.on /\ d.sub = c.sub /\ d.ids = c.ids /\ d.inc = m.inc /\ d.up = c.up
        /\ d.next = c.next /\ d.seq = -1
    BY <2>1 DEF Clients
  <2>3. QED BY <2>2, <1>3
<1>4. CASE ~m.reset /\ c.inc # None
  <2>1. d = [c EXCEPT !.inc = m.inc, !.wait = FALSE]
    BY <1>4 DEF Answered, d
  <2>2. QED BY <2>1, <1>4 DEF Clients
<1>5. QED BY <1>1, <1>2, <1>3, <1>4

\* The message moves the client as the chain says.
LEMMA MessageTaken ==
  ASSUME TypeInv, StreamInv, Receives, cl.on, NEW b \in Nat,
         Link(Head(wire), cl.next, b, cl.sub, View)
  PROVE  /\ cl'.sub = cl.sub /\ cl'.ids = cl.ids /\ cl'.next = b /\ cl'.seq < cl'.next
         /\ Sure => cl'.inc \in {None, 1} /\ cl'.next <= EndOffset(log)
         /\ Head(wire).sub # cl.sub => cl' = cl
<1> DEFINE m == Head(wire)
<1>0. /\ cl \in Clients /\ cl.next \in Nat /\ cl.seq \in Nat \cup {-1} /\ cl.seq < cl.next
      /\ EndOffset(log) \in Nat /\ log.first \in Nat /\ log.first <= EndOffset(log)
      /\ Sure => cl.inc \in {None, 1} /\ cl.next <= EndOffset(log) /\ log.inc = 1
  BY LogEnds DEF TypeInv, StreamInv, FilterBehindCursor, SureInv, Clients
<1>1. m \in Messages /\ m = wire[1] /\ wire # <<>>
  BY ReceivesDo
<1>2. InForce(m) <=> m.sub = cl.sub
  BY DEF InForce
<1>3. m.type = "ok" /\ m.sub = cl.sub => cl.wait
  <2>1. 1 \in DOMAIN wire
    BY <1>1, TailOK, Places DEF TypeInv
  <2>2. QED BY <2>1, <1>1 DEF StreamInv, PendingInv
<1>4. \/ cl' = cl /\ (InForce(m) => m.type # "replay_gap")
                  /\ (m.type = "ok" => ~(InForce(m) /\ cl.wait))
                  /\ (m.type = "event" => ~Hands(m))
      \/ m.type = "ok" /\ InForce(m) /\ cl.wait /\ cl' = Answered(cl, m)
      \/ m.type \in {"unknown_agent", "stream_closed"} /\ cl' = Quit /\ InForce(m)
      \/ /\ m.type = "event" /\ Hands(m)
         /\ cl' = [cl EXCEPT !.next = m.off + 1, !.seq = m.off, !.inc = m.inc]
      \/ m.type = "replay_gap" /\ InForce(m) /\ cl' = Moved(cl, m)
  BY ReceivesDo
<1>5. /\ m.type = "event" => m.inc \in Nat /\ m.off \in Nat
      /\ m.type = "replay_gap" => m.to \in Nat /\ m.ahead \in BOOLEAN
      /\ m.type = "ok" => m.first \in Nat /\ m.inc \in Nat /\ m.reset \in BOOLEAN
  BY <1>1, MessageFields
<1>6. View.log = log /\ View.sure = Sure
  BY DEF View
<1>7. Link(m, cl.next, b, cl.sub, View)
  OBVIOUS
<1> HIDE DEF m
<1>8. CASE m.sub # cl.sub
  <2>1. b = cl.next
    BY <1>7, <1>8 DEF Link
  <2>2. cl' = cl
    BY <1>2, <1>4, <1>8 DEF Hands
  <2>3. QED BY <2>1, <2>2, <1>0, <1>8 DEF m
<1>9. CASE m.sub = cl.sub /\ EventLink(m, cl.next, b, View)
  <2>1. m.type = "event" /\ cl.next <= m.off /\ b = m.off + 1
    BY <1>9 DEF EventLink, Skips
  <2>2. Hands(m)
    BY <2>1, <1>0, <1>2, <1>5, <1>9 DEF Hands
  <2>3. cl' = [cl EXCEPT !.next = m.off + 1, !.seq = m.off, !.inc = m.inc]
    BY <2>1, <2>2, <1>4
  <2>4. /\ cl'.sub = cl.sub /\ cl'.ids = cl.ids /\ cl'.next = m.off + 1
        /\ cl'.seq = m.off /\ cl'.inc = m.inc
    BY <2>3, <1>0 DEF Clients
  <2>5. Sure => m.off < EndOffset(log) /\ m.inc = log.inc
    BY <1>9, <1>6 DEF EventLink
  <2>6. QED BY <2>1, <2>4, <2>5, <1>0, <1>5, <1>9 DEF m
<1>10. CASE m.sub = cl.sub /\ GapLink(m, cl.next, b, View)
  <2>1. m.type = "replay_gap" /\ b = m.to /\ (m.ahead \/ cl.next < m.to)
    BY <1>10 DEF GapLink
  <2>2. cl' = Moved(cl, m)
    BY <2>1, <1>2, <1>4, <1>10
  <2>3. /\ cl'.sub = cl.sub /\ cl'.ids = cl.ids /\ cl'.next = m.to
        /\ cl'.seq = (IF m.ahead THEN -1 ELSE cl.seq) /\ cl'.inc = cl.inc
    BY <2>2, <1>0 DEF Clients, Moved
  <2>4. Sure => m.to <= log.first
    BY <1>10, <1>6 DEF GapLink
  <2>5. QED BY <2>1, <2>3, <2>4, <1>0, <1>5, <1>10 DEF m
<1>11. CASE m.sub = cl.sub /\ ResponseLink(m, cl.next, b, View)
  <2>1. m.type = "ok" /\ b = IF m.reset THEN m.first ELSE cl.next
    BY <1>11 DEF ResponseLink
  <2>2. cl' = Answered(cl, m)
    BY <2>1, <1>2, <1>3, <1>4, <1>11
  <2>3. /\ cl'.sub = cl.sub /\ cl'.ids = cl.ids /\ cl'.inc = m.inc
        /\ cl'.next = b
        /\ cl'.seq = -1 \/ (~m.reset /\ cl'.seq = cl.seq)
    BY <2>1, <2>2, <1>0, <1>1, AnsweredIs DEF m
  <2>4. Sure => ~m.reset /\ m.inc = log.inc
    BY <1>11, <1>6 DEF ResponseLink
  <2>5. QED BY <2>1, <2>3, <2>4, <1>0, <1>5, <1>11 DEF m
<1>12. CASE m.sub = cl.sub /\ NoticeLink(m, cl.next, b)
  <2>1. m.type \in {"unknown_agent", "caught_up", "stream_closed"} /\ b = cl.next
    BY <1>12 DEF NoticeLink
  <2>2. cl' = cl \/ cl' = Quit
    BY <2>1, <1>4
  <2>3. QED BY <2>1, <2>2, <1>0, <1>12, Quitting DEF m
<1>13. QED BY <1>7, <1>8, <1>9, <1>10, <1>11, <1>12 DEF Link

LEMMA StreamReceives ==
  ASSUME TypeInv, TypeInv', StreamInv, Receives
  PROVE  StreamInv'
<1> DEFINE m == Head(wire)
           V == View
<1>0. /\ wire \in Seq(Messages) /\ wire # <<>> /\ wire' = Tail(wire) /\ m = wire[1]
      /\ UNCHANGED <<log, maint, host, srv, rd, toHost, raced, spent>>
      /\ cl \in Clients
  BY ReceivesDo DEF TypeInv
<1>1. View' = V /\ Sure' = Sure
  BY <1>0 DEF View, Sure
<1>2. ~cl.on => cl' = cl
  BY ReceivesDo DEF InForce, Hands
<1>3. \A i \in DOMAIN wire' : /\ i + 1 \in DOMAIN wire /\ wire'[i] = wire[i + 1]
                              /\ 1 \in DOMAIN wire /\ 1 < i + 1
                              /\ \A j \in DOMAIN wire' : i < j => i + 1 < j + 1
  <2> DEFINE n == Len(wire)
             t == wire'
  <2>1. /\ n \in Nat \ {0} /\ t \in Seq(Messages) /\ Len(t) = n - 1
        /\ \A x \in 1 .. n - 1 : t[x] = wire[x + 1]
    BY <1>0, TailOK
  <2> HIDE DEF t
  <2>2. DOMAIN wire = 1 .. n
    BY <1>0, Places
  <2>3. DOMAIN t = 1 .. n - 1
    BY <2>1, Places
  <2>4. QED BY <2>1, <2>2, <2>3 DEF t
<1>4. /\ cl'.sub = cl.sub /\ cl'.ids = cl.ids /\ (cl'.on => cl.on)
      /\ cl'.seq < cl'.next
      /\ Sure => cl'.inc \in {None, 1} /\ cl'.next <= EndOffset(log)
      /\ m.sub # cl.sub => cl' = cl
      /\ cl'.on => Joined(wire', srv, cl'.next, cl.sub, V)
  <2>1. CASE ~cl.on
    BY <2>1, <1>2 DEF StreamInv, FilterBehindCursor, SureInv
  <2>2. CASE cl.on
    <3>1. PICK e \in Nat : Reaches(wire, cl.next, e, cl.sub, V) /\ LeadsTo(srv, e, cl.sub, V)
      BY <2>2 DEF StreamInv, ChainInv, Joined
    <3>2. PICK b \in Nat : Link(m, cl.next, b, cl.sub, V) /\ Reaches(Tail(wire), b, e, cl.sub, V)
      BY <3>1, <1>0, ReachesPop
    <3>3. /\ cl'.sub = cl.sub /\ cl'.ids = cl.ids /\ cl'.next = b /\ cl'.seq < cl'.next
          /\ Sure => cl'.inc \in {None, 1} /\ cl'.next <= EndOffset(log)
          /\ m.sub # cl.sub => cl' = cl
      BY <2>2, <3>2, MessageTaken
    <3>4. Joined(wire', srv, cl'.next, cl.sub, V)
      BY <3>1, <3>2, <3>3, <1>0 DEF Joined
    <3>5. QED BY <2>2, <3>3, <3>4
  <2>3. QED BY <2>1, <2>2
<1>5. ChainInv'
  BY <1>0, <1>1, <1>4 DEF ChainInv
<1>6. ReaderInv' /\ FilterBehindCursor' /\ SureInv'
  BY <1>0, <1>1, <1>4 DEF StreamInv, ReaderInv, FilterBehindCursor, SureInv
<1> HIDE DEF m, V
<1>7. \A i \in DOMAIN wire : wire[i].sub \in Nat
  <2>1. \A i \in DOMAIN wire : wire[i] \in Messages
    BY <1>0, ElementOfSeq, LenProperties
  <2>2. QED BY <2>1, MessageFields
<1>8. IdsInv'
  <2>1. /\ cl.sub <= cl.ids
        /\ \A i \in DOMAIN wire : 1 <= wire[i].sub /\ wire[i].sub <= cl.ids
        /\ \A i \in DOMAIN wire, j \in DOMAIN wire :
              i < j /\ wire[j].type = "ok" => wire[i].sub < wire[j].sub
        /\ srv.mode # "closed" => 1 <= srv.id /\ srv.id <= cl.ids
        /\ \A j \in DOMAIN toHost : toHost[j].op = "subscribe" =>
              /\ 1 <= toHost[j].id /\ toHost[j].id <= cl.ids
              /\ srv.mode # "closed" => srv.id < toHost[j].id
              /\ \A i \in DOMAIN wire : wire[i].sub < toHost[j].id
              /\ \A i \in DOMAIN toHost :
                    i < j /\ toHost[i].op = "subscribe" => toHost[i].id < toHost[j].id
    BY DEF StreamInv, IdsInv
  <2> DEFINE t == wire'
  <2>2. \A i \in DOMAIN t : /\ i + 1 \in DOMAIN wire /\ t[i] = wire[i + 1]
                            /\ \A j \in DOMAIN t : i < j => i + 1 < j + 1
    BY <1>3
  <2> HIDE DEF t
  <2>3. /\ \A i \in DOMAIN t : 1 <= t[i].sub /\ t[i].sub <= cl.ids
        /\ \A i \in DOMAIN t, j \in DOMAIN t :
              i < j /\ t[j].type = "ok" => t[i].sub < t[j].sub
    BY <2>1, <2>2
  <2>4. \A j \in DOMAIN toHost : toHost[j].op = "subscribe" =>
              \A i \in DOMAIN t : t[i].sub < toHost[j].id
    BY <2>1, <2>2
  <2>5. QED BY <2>1, <2>3, <2>4, <1>0, <1>4 DEF IdsInv, t
<1>9. PendingInv'
  <2> SUFFICES ASSUME cl'.on
               PROVE  /\ \A i \in DOMAIN toHost :
                            toHost[i].op = "subscribe" /\ toHost[i].id = cl.sub =>
                              toHost[i].from = cl'.next /\ toHost[i].inc = cl'.inc /\ cl'.wait
                      /\ \A i \in DOMAIN wire' :
                            wire'[i].type = "ok" /\ wire'[i].sub = cl.sub => cl'.wait
    BY <1>0, <1>4 DEF PendingInv
  <2>0. cl.on
    BY <1>4
  <2>1. ASSUME NEW i \in DOMAIN toHost, toHost[i].op = "subscribe", toHost[i].id = cl.sub
        PROVE  toHost[i].from = cl'.next /\ toHost[i].inc = cl'.inc /\ cl'.wait
    <3>1. m.sub < toHost[i].id /\ m.sub \in Nat
      <4>1. 1 \in DOMAIN wire
        BY <1>0, TailOK, Places
      <4>2. QED BY <4>1, <2>1, <1>0, <1>7 DEF StreamInv, IdsInv
    <3>2. cl' = cl
      BY <3>1, <2>1, <1>4
    <3>3. QED BY <3>2, <2>0, <2>1 DEF StreamInv, PendingInv
  <2>2. ASSUME NEW i \in DOMAIN wire', wire'[i].type = "ok", wire'[i].sub = cl.sub
        PROVE  cl'.wait
    <3>1. /\ i + 1 \in DOMAIN wire /\ wire'[i] = wire[i + 1] /\ 1 \in DOMAIN wire /\ 1 < i + 1
      BY <1>3
    <3>2. m.sub < wire[i + 1].sub /\ m.sub \in Nat
      BY <3>1, <2>2, <1>0, <1>7 DEF StreamInv, IdsInv
    <3>3. cl' = cl
      BY <3>1, <3>2, <2>2, <1>4
    <3>4. QED BY <3>1, <3>3, <2>0, <2>2 DEF StreamInv, PendingInv
  <2>3. QED BY <2>1, <2>2
<1>10. QED BY <1>5, <1>6, <1>8, <1>9 DEF StreamInv

-----------------------------------------------------------------------------
(* The client asks, or stops asking.                                         *)

\* A request is sent: nothing on its way is for it.
LEMMA StreamSent ==
  ASSUME TypeInv, TypeInv', StreamInv, NEW c \in Clients, c.ids = cl.ids, c.seq < c.next,
         Sure => c.inc \in {None, 1} /\ c.next <= EndOffset(log),
         SendSubscribe(c), UNCHANGED <<log, host, srv, rd, wire, raced>>,
         Sure' = Sure, spent'.records = spent.records
  PROVE  StreamInv'
<1> DEFINE q == SubscribeOf(c)
           n == Len(toHost)
           t == toHost'
           V == View
<1>0. /\ wire \in Seq(Messages) /\ toHost \in Seq(Requests) /\ n \in Nat
      /\ cl \in Clients /\ cl.ids \in Nat /\ c.next \in Nat /\ EndOffset(log) \in Nat
  <2>1. wire \in Seq(Messages) /\ toHost \in Seq(Requests) /\ cl \in Clients /\ LogOK(log)
    BY DEF TypeInv
  <2>2. QED BY <2>1, LenProperties, LogEnds DEF Clients
<1>1. /\ t = Append(toHost, q) /\ q \in Requests /\ t \in Seq(Requests)
      /\ cl'.on = c.on /\ cl'.next = c.next /\ cl'.seq = c.seq /\ cl'.inc = c.inc
      /\ cl'.sub = cl.ids + 1 /\ cl'.ids = cl.ids + 1 /\ cl'.wait = TRUE
  BY <1>0, Sending
<1>2. q.op = "subscribe" /\ q.id = cl.ids + 1 /\ q.from = c.next /\ q.inc = c.inc
  BY DEF SubscribeOf
<1>3. View' = V
  BY DEF View
<1> HIDE DEF q
<1>4. /\ DOMAIN toHost = 1 .. n /\ DOMAIN t = 1 .. n + 1
      /\ \A i \in 1 .. n : t[i] = toHost[i]
      /\ t[n + 1] = q
  <2>1. /\ t = Append(toHost, q) /\ Len(t) = n + 1
        /\ \A i \in 1 .. n : t[i] = toHost[i] /\ t[n + 1] = q
        /\ t[n + 1] = q
    BY <1>0, <1>1, AppendProperties
  <2> HIDE DEF t
  <2>2. t \in Seq(Requests)
    BY <1>1 DEF t
  <2>3. QED BY <2>1, <2>2, <1>0, Places
<1> HIDE DEF t, n, V
<1>5. \A i \in DOMAIN wire : wire[i].sub \in Nat /\ wire[i].sub <= cl.ids
  <2>1. \A i \in DOMAIN wire : wire[i] \in Messages
    BY <1>0, ElementOfSeq, LenProperties
  <2>2. QED BY <2>1, MessageFields DEF StreamInv, IdsInv
<1>6. \A i \in DOMAIN toHost : toHost[i].op = "subscribe" =>
         toHost[i].id \in Nat /\ 1 <= toHost[i].id /\ toHost[i].id <= cl.ids
  <2>1. \A i \in DOMAIN toHost : toHost[i] \in Requests
    BY <1>0, ElementOfSeq, LenProperties
  <2>2. \A i \in DOMAIN toHost : toHost[i].op = "subscribe" => toHost[i].id \in Nat
    BY <2>1 DEF Requests
  <2>3. QED BY <2>2 DEF StreamInv, IdsInv
<1>7. srv.mode # "closed" => srv.id \in Nat /\ 1 <= srv.id /\ srv.id <= cl.ids
  BY DEF TypeInv, Subs, StreamInv, IdsInv
<1>8. ChainInv'
  <2> DEFINE new == cl.ids + 1
  <2>1. new \in Nat /\ \A i \in 1 .. Len(wire) : wire[i].sub # new
    <3>1. DOMAIN wire = 1 .. Len(wire)
      BY <1>0, Places
    <3>2. QED BY <3>1, <1>0, <1>5
  <2>2. LeadsTo(srv, c.next, new, V)
    BY <1>0, <1>7 DEF LeadsTo
  <2> HIDE DEF new
  <2>3. Reaches(wire, c.next, c.next, new, V)
    BY <2>1, <1>0, ReachesNothing
  <2>4. Joined(wire, srv, c.next, new, V)
    BY <2>2, <2>3, <1>0 DEF Joined
  <2>5. QED BY <2>4, <1>1, <1>3 DEF ChainInv, new
<1>9. ReaderInv' /\ FilterBehindCursor'
  BY <1>1, <1>3 DEF StreamInv, ReaderInv, FilterBehindCursor, V
<1>10. IdsInv'
  <2>1. \A j \in DOMAIN t : t[j].op = "subscribe" =>
          /\ 1 <= t[j].id /\ t[j].id <= cl.ids + 1
          /\ srv.mode # "closed" => srv.id < t[j].id
          /\ \A i \in DOMAIN wire : wire[i].sub < t[j].id
          /\ \A i \in DOMAIN t : i < j /\ t[i].op = "subscribe" => t[i].id < t[j].id
    <3> SUFFICES ASSUME NEW j \in DOMAIN t, t[j].op = "subscribe"
                 PROVE  /\ 1 <= t[j].id /\ t[j].id <= cl.ids + 1
                        /\ srv.mode # "closed" => srv.id < t[j].id
                        /\ \A i \in DOMAIN wire : wire[i].sub < t[j].id
                        /\ \A i \in DOMAIN t :
                              i < j /\ t[i].op = "subscribe" => t[i].id < t[j].id
      OBVIOUS
    <3>1. CASE j = n + 1
      <4>1. \A i \in DOMAIN t : i < j => i \in DOMAIN toHost /\ t[i] = toHost[i]
        BY <3>1, <1>0, <1>4
      <4>2. t[j].id = cl.ids + 1
        BY <3>1, <1>2, <1>4
      <4>3. QED BY <4>1, <4>2, <1>0, <1>5, <1>6, <1>7
    <3>2. CASE j # n + 1
      <4>1. j \in DOMAIN toHost /\ t[j] = toHost[j]
        BY <3>2, <1>0, <1>4
      <4>2. \A i \in DOMAIN t : i < j => i \in DOMAIN toHost /\ t[i] = toHost[i]
        BY <4>1, <1>0, <1>4
      <4>3. QED BY <4>1, <4>2, <1>0, <1>6 DEF StreamInv, IdsInv
    <3>3. QED BY <3>1, <3>2
  <2>2. \A i \in DOMAIN wire : 1 <= wire[i].sub /\ wire[i].sub <= cl.ids + 1
    BY <1>0, <1>5 DEF StreamInv, IdsInv
  <2>3. \A i \in DOMAIN wire, j \in DOMAIN wire :
           i < j /\ wire[j].type = "ok" => wire[i].sub < wire[j].sub
    BY DEF StreamInv, IdsInv
  <2>4. srv.mode # "closed" => 1 <= srv.id /\ srv.id <= cl.ids + 1
    BY <1>0, <1>7
  <2>5. cl.ids + 1 <= cl.ids + 1
    BY <1>0
  <2>6. QED BY <2>1, <2>2, <2>3, <2>4, <2>5, <1>1 DEF IdsInv, t
<1>11. PendingInv'
  <2>1. \A i \in DOMAIN t : t[i].op = "subscribe" /\ t[i].id = cl.ids + 1 =>
            t[i].from = c.next /\ t[i].inc = c.inc
    <3> SUFFICES ASSUME NEW i \in DOMAIN t, t[i].op = "subscribe", t[i].id = cl.ids + 1
                 PROVE  t[i].from = c.next /\ t[i].inc = c.inc
      OBVIOUS
    <3>1. i = n + 1
      <4>1. i # n + 1 => i \in DOMAIN toHost /\ t[i] = toHost[i]
        BY <1>0, <1>4
      <4>2. QED BY <4>1, <1>0, <1>6
    <3>2. QED BY <3>1, <1>2, <1>4
  <2>2. QED BY <2>1, <1>1 DEF PendingInv, t
<1>12. SureInv'
  <2>1. Sure => \A i \in DOMAIN t : t[i].op = "subscribe" =>
                   t[i].inc \in {None, 1} /\ t[i].from <= EndOffset(log)
    <3> SUFFICES ASSUME Sure, NEW i \in DOMAIN t, t[i].op = "subscribe"
                 PROVE  t[i].inc \in {None, 1} /\ t[i].from <= EndOffset(log)
      OBVIOUS
    <3>1. CASE i = n + 1
      BY <3>1, <1>2, <1>4
    <3>2. CASE i # n + 1
      <4>1. i \in DOMAIN toHost /\ t[i] = toHost[i]
        BY <3>2, <1>0, <1>4
      <4>2. QED BY <4>1 DEF StreamInv, SureInv
    <3>3. QED BY <3>1, <3>2
  <2>2. QED BY <2>1, <1>1 DEF StreamInv, SureInv, t
<1>13. QED BY <1>8, <1>9, <1>10, <1>11, <1>12 DEF StreamInv

\* Nothing is sent but an unsubscribe: no request is in force.
LEMMA StreamUnsent ==
  ASSUME TypeInv, TypeInv', StreamInv, UNCHANGED <<log, host, srv, rd, wire, raced>>,
         cl'.ids = cl.ids, cl'.sub <= cl.ids, cl'.seq < cl'.next, cl'.on => cl'.sub = 0,
         Sure => cl'.inc \in {None, 1} /\ cl'.next <= EndOffset(log),
         Sure' = Sure, spent'.records = spent.records,
         \/ toHost' = toHost
         \/ toHost' = Append(toHost, [op |-> "unsubscribe"])
  PROVE  StreamInv'
<1> DEFINE t == toHost'
           V == View
<1>0. /\ wire \in Seq(Messages) /\ toHost \in Seq(Requests)
      /\ cl'.next \in Nat /\ View' = V
  BY DEF TypeInv, Clients, View
<1>1. \A i \in DOMAIN t : t[i].op = "subscribe" => i \in DOMAIN toHost /\ t[i] = toHost[i]
  <2>1. CASE toHost' = toHost
    BY <2>1
  <2>2. CASE toHost' = Append(toHost, [op |-> "unsubscribe"])
    <3> DEFINE q == [op |-> "unsubscribe"]
               n == Len(toHost)
    <3>1. q \in Requests /\ q.op = "unsubscribe"
      BY DEF Requests
    <3> HIDE DEF q
    <3>2. /\ Len(t) = n + 1 /\ n \in Nat /\ t[n + 1] = q /\ \A i \in 1 .. n : t[i] = toHost[i]
      BY <3>1, <2>2, <1>0, AppendProperties, LenProperties DEF q
    <3>3. t \in Seq(Requests)
      BY DEF TypeInv
    <3> HIDE DEF t
    <3>4. DOMAIN t = 1 .. n + 1 /\ DOMAIN toHost = 1 .. n
      BY <3>2, <3>3, <1>0, Places
    <3>5. QED BY <3>1, <3>2, <3>4
  <2>3. QED BY <2>1, <2>2
<1> HIDE DEF t, V
<1>2. \A i \in DOMAIN wire : wire[i].sub \in Nat /\ 1 <= wire[i].sub
  <2>1. \A i \in DOMAIN wire : wire[i] \in Messages
    BY <1>0, ElementOfSeq, LenProperties
  <2>2. QED BY <2>1, MessageFields DEF StreamInv, IdsInv
<1>3. ChainInv'
  <2> SUFFICES ASSUME cl'.on PROVE Joined(wire, srv, cl'.next, 0, V)
    BY <1>0 DEF ChainInv
  <2>1. \A i \in 1 .. Len(wire) : wire[i].sub # 0
    <3>1. DOMAIN wire = 1 .. Len(wire)
      BY <1>0, Places
    <3>2. QED BY <3>1, <1>2
  <2>2. Reaches(wire, cl'.next, cl'.next, 0, V)
    <3> DEFINE n == cl'.next
    <3>1. n \in Nat
      BY <1>0
    <3> HIDE DEF n
    <3>2. Reaches(wire, n, n, 0, V)
      BY <3>1, <2>1, <1>0, ReachesNothing
    <3>3. QED BY <3>2 DEF n
  <2>3. LeadsTo(srv, cl'.next, 0, V)
    BY DEF LeadsTo, TypeInv, Subs, StreamInv, IdsInv
  <2>4. QED BY <2>2, <2>3, <1>0 DEF Joined
<1>4. ReaderInv' /\ FilterBehindCursor'
  BY <1>0 DEF StreamInv, ReaderInv, FilterBehindCursor, V
<1>5. IdsInv'
  <2>1. \A j \in DOMAIN t : t[j].op = "subscribe" =>
          /\ 1 <= t[j].id /\ t[j].id <= cl.ids
          /\ srv.mode # "closed" => srv.id < t[j].id
          /\ \A i \in DOMAIN wire : wire[i].sub < t[j].id
          /\ \A i \in DOMAIN t : i < j /\ t[i].op = "subscribe" => t[i].id < t[j].id
    BY <1>1 DEF StreamInv, IdsInv
  <2>2. QED BY <2>1 DEF StreamInv, IdsInv, t
<1>6. PendingInv'
  <2>1. \A i \in DOMAIN t : t[i].op = "subscribe" => t[i].id # 0
    <3>1. \A i \in DOMAIN toHost : toHost[i] \in Requests
      BY <1>0, ElementOfSeq, LenProperties
    <3>2. \A i \in DOMAIN toHost : toHost[i].op = "subscribe" => toHost[i].id \in Nat
      BY <3>1 DEF Requests
    <3>3. QED BY <3>2, <1>1 DEF StreamInv, IdsInv
  <2>2. QED BY <2>1, <1>2 DEF PendingInv, t
<1>7. SureInv'
  <2>1. Sure => \A i \in DOMAIN t : t[i].op = "subscribe" =>
                   t[i].inc \in {None, 1} /\ t[i].from <= EndOffset(log)
    BY <1>1 DEF StreamInv, SureInv
  <2>2. QED BY <2>1 DEF StreamInv, SureInv, t
<1>8. QED BY <1>3, <1>4, <1>5, <1>6, <1>7 DEF StreamInv

LEMMA StreamConsumes ==
  ASSUME TypeInv, TypeInv', StreamInv, Consumes
  PROVE  StreamInv'
<1>0. /\ cl \in Clients /\ cl.seq < cl.next /\ cl.sub <= cl.ids /\ cl.ids \in Nat
      /\ toHost \in Seq(Requests) /\ LogOK(log) /\ EndOffset(log) \in Nat
      /\ spent \in Budgets
      /\ Sure => cl.inc \in {None, 1} /\ cl.next <= EndOffset(log)
  BY LogEnds DEF TypeInv, StreamInv, FilterBehindCursor, IdsInv, SureInv, Clients
<1>1. CASE Connect
  <2>1. UNCHANGED <<log, host, srv, rd, wire, raced, spent>>
    BY <1>1 DEF Connect
  <2>2. Sure' = Sure /\ spent'.records = spent.records
    BY <2>1 DEF Sure
  <2> DEFINE c == [cl EXCEPT !.up = TRUE]
  <2>3. IF cl.on THEN SendSubscribe(c) ELSE cl' = c /\ UNCHANGED toHost
    BY <1>1 DEF Connect
  <2>4. /\ c \in Clients /\ c.on = cl.on /\ c.next = cl.next /\ c.seq = cl.seq
        /\ c.inc = cl.inc /\ c.sub = cl.sub /\ c.ids = cl.ids
    BY <1>0, Connecting
  <2> HIDE DEF c
  <2>5. CASE cl.on
    BY <2>1, <2>2, <2>3, <2>4, <2>5, <1>0, StreamSent
  <2>6. CASE ~cl.on
    BY <2>1, <2>2, <2>3, <2>4, <2>6, <1>0, StreamUnsent
  <2>7. QED BY <2>5, <2>6
<1>2. CASE Subscribe
  <2>1. Spend("subs") /\ UNCHANGED <<log, host, srv, rd, wire, raced>>
    BY <1>0, <1>2, SubscribeDoes
  <2>2. Sure' = Sure /\ spent'.records = spent.records
    <3>1. (Sure => Sure') /\ (Sure' => Sure) /\ spent'.records = spent.records
      BY <2>1, <1>0, SpendingOn
    <3>2. QED BY <3>1 DEF Sure
  <2>3. PICK n \in Starts : /\ n \in Nat
                            /\ \/ cl.up /\ SendSubscribe(Fresh(n))
                               \/ ~cl.up /\ cl' = Fresh(n) /\ UNCHANGED toHost
    BY <1>0, <1>2, SubscribeDoes
  <2>4. n <= EndOffset(log)
    BY <2>3, <1>0 DEF Starts
  <2>5. /\ Fresh(n) \in Clients /\ Fresh(n).on /\ Fresh(n).next = n
        /\ Fresh(n).seq = -1 /\ Fresh(n).inc = None /\ Fresh(n).sub = 0
        /\ Fresh(n).ids = cl.ids
    BY <2>3, <1>0, Subscribing
  <2>6. Fresh(n).seq < Fresh(n).next
    BY <2>3, <2>5
  <2>7. CASE cl.up
    BY <2>1, <2>2, <2>3, <2>4, <2>5, <2>6, <2>7, StreamSent
  <2>8. CASE ~cl.up
    BY <2>1, <2>2, <2>3, <2>4, <2>5, <2>6, <2>8, <1>0, StreamUnsent
  <2>9. QED BY <2>7, <2>8
<1>3. CASE Unsubscribe \/ SubscribeTimesOut
  <2>1. UNCHANGED <<log, host, srv, rd, wire, raced>> /\ cl' = Quit
    BY <1>3 DEF Unsubscribe, SubscribeTimesOut, Quit
  <2>2. Sure' = Sure /\ spent'.records = spent.records
    <3>1. UNCHANGED spent \/ Spend("drops")
      BY <1>3 DEF Unsubscribe, SubscribeTimesOut
    <3>2. CASE Spend("drops")
      <4>1. (Sure => Sure') /\ (Sure' => Sure) /\ spent'.records = spent.records
        BY <3>2, <1>0, SpendingOn
      <4>2. QED BY <4>1 DEF Sure
    <3>3. CASE UNCHANGED spent
      BY <3>3 DEF Sure
    <3>4. QED BY <3>1, <3>2, <3>3
  <2>3. toHost' = toHost \/ toHost' = Append(toHost, [op |-> "unsubscribe"])
    BY <1>3 DEF Unsubscribe, SubscribeTimesOut
  <2>4. /\ ~cl'.on /\ cl'.ids = cl.ids /\ cl'.sub = cl.sub /\ cl'.next = cl.next
        /\ cl'.seq = cl.seq /\ cl'.inc = cl.inc
    BY <2>1, <1>0, Quitting
  <2>5. QED BY <2>1, <2>2, <2>3, <2>4, <1>0, StreamUnsent
<1>4. QED BY <1>1, <1>2, <1>3 DEF Consumes

-----------------------------------------------------------------------------
(* Failures: nothing is on its way any more.                                 *)

LEMMA StreamCut ==
  ASSUME TypeInv', Disconnected, cl'.seq < cl'.next, cl'.sub <= cl'.ids,
         Sure' =>
            /\ log'.inc = 1 /\ host'.known /\ ~host'.removing
            /\ host'.up /\ log'.torn => log'.failed
            /\ \A i \in DOMAIN log'.recs :
                  log'.recs[i].id <= spent'.records /\ log'.recs[i].kind # "glued"
            /\ cl'.inc \in {None, 1} /\ cl'.next <= EndOffset(log')
  PROVE  StreamInv'
<1>1. /\ srv'.mode = "closed" /\ srv'.cur = 0 /\ rd'.io = "none"
      /\ wire' = <<>> /\ toHost' = <<>>
  BY DEF Disconnected, NoSubscription, NoReader
<1>2. DOMAIN <<>> = {}
  OBVIOUS
<1>3. ChainInv'
  <2> SUFFICES ASSUME cl'.on PROVE Joined(<<>>, srv', cl'.next, cl'.sub, View')
    BY <1>1 DEF ChainInv
  <2> DEFINE n == cl'.next
             V == View'
             w == <<>>
             sub == cl'.sub
  <2>1. n \in Nat /\ LeadsTo(srv', n, sub, V) /\ w \in Seq(Messages)
    BY <1>1 DEF TypeInv, Clients, LeadsTo
  <2>2. \A i \in 1 .. Len(w) : w[i].sub # sub
    OBVIOUS
  <2> HIDE DEF n, V, w, sub
  <2>3. Reaches(w, n, n, sub, V)
    BY <2>1, <2>2, ReachesNothing
  <2>4. Joined(w, srv', n, sub, V)
    BY <2>1, <2>3 DEF Joined
  <2>5. QED BY <2>4 DEF n, V, w, sub
<1>4. ReaderInv' /\ FilterBehindCursor' /\ IdsInv' /\ PendingInv'
  BY <1>1, <1>2 DEF ReaderInv, FilterBehindCursor, IdsInv, PendingInv
<1>5. 0 <= EndOffset(log')
  <2> DEFINE M == log'
  <2>1. LogOK(M)
    BY DEF TypeInv
  <2> HIDE DEF M
  <2>2. EndOffset(M) \in Nat
    BY <2>1, LogEnds
  <2>3. QED BY <2>2 DEF M
<1>6. SureInv'
  BY <1>1, <1>2, <1>5 DEF SureInv
<1>7. QED BY <1>3, <1>4, <1>6 DEF StreamInv

LEMMA StreamFails ==
  ASSUME TypeInv, TypeInv', StreamInv, Later(View, View'), Fails
  PROVE  StreamInv'
<1>0. /\ cl \in Clients /\ cl.seq < cl.next /\ cl.sub <= cl.ids /\ cl.ids \in Nat
      /\ cl.next \in Nat /\ LogOK(log) /\ EndOffset(log) \in Nat
      /\ spent \in Budgets /\ host \in Hosts
  BY LogEnds DEF TypeInv, StreamInv, FilterBehindCursor, IdsInv, Clients
<1>1. Sure =>
        /\ log.inc = 1 /\ host.known /\ ~host.removing
        /\ host.up /\ log.torn => log.failed
        /\ \A i \in DOMAIN log.recs : log.recs[i].id <= spent.records /\ log.recs[i].kind # "glued"
        /\ cl.inc \in {None, 1} /\ cl.next <= EndOffset(log)
  BY DEF StreamInv, SureInv
<1>2. /\ Lost(cl).next = cl.next /\ Lost(cl).seq = cl.seq /\ Lost(cl).inc = cl.inc
      /\ Lost(cl).sub = cl.sub /\ Lost(cl).ids = cl.ids
      /\ \A n \in Nat : /\ Kept(cl, n).next = n /\ Kept(cl, n).seq = n - 1
                        /\ Kept(cl, n).inc = cl.inc /\ Kept(cl, n).sub = 0
                        /\ Kept(cl, n).ids = cl.ids
  BY <1>0, Losing
<1>3. CASE Drop
  <2>1. Disconnected /\ cl' = Lost(cl) /\ Spend("drops") /\ UNCHANGED <<log, host>>
    BY <1>3 DEF Drop
  <2>2. (Sure' => Sure) /\ spent'.records = spent.records
    BY <2>1, <1>0, SpendingOn
  <2>3. QED BY <2>1, <2>2, <1>0, <1>1, <1>2, StreamCut
<1>4. CASE RelayRestart
  <2>1. Disconnected /\ Spend("subs") /\ UNCHANGED <<log, host>>
    BY <1>4 DEF RelayRestart
  <2>2. PICK n \in 0 .. cl.next : cl' = Kept(cl, n)
    BY <1>4 DEF RelayRestart
  <2>3. (Sure' => Sure) /\ spent'.records = spent.records
    BY <2>1, <1>0, SpendingOn
  <2>4. /\ n \in Nat /\ n <= cl.next /\ cl'.next = n /\ cl'.seq = n - 1 /\ cl'.inc = cl.inc
        /\ cl'.sub = 0 /\ cl'.ids = cl.ids
    BY <2>2, <1>0, <1>2
  <2>5. Sure' => cl'.next <= EndOffset(log)
    BY <2>3, <2>4, <1>0, <1>1
  <2>6. cl'.seq < cl'.next /\ cl'.sub <= cl'.ids
    BY <2>4, <1>0
  <2>7. QED BY <2>1, <2>3, <2>4, <2>5, <2>6, <1>1, StreamCut
<1>5. CASE HostCrash
  <2>1. /\ Disconnected /\ cl' = Lost(cl) /\ Spend("crashes")
        /\ host' = [host EXCEPT !.up = FALSE, !.removing = FALSE]
        /\ log' \in IF host.removing THEN HalfDeleted ELSE {log, [log EXCEPT !.torn = TRUE]}
    BY <1>5 DEF HostCrash
  <2>2. (Sure' => Sure) /\ spent'.records = spent.records
    BY <2>1, <1>0, SpendingOn
  <2>3. host'.known = host.known /\ ~host'.removing /\ ~host'.up
    BY <2>1, <1>0 DEF Hosts
  <2>4. Sure => log'.recs = log.recs /\ log'.inc = log.inc
    <3>1. Sure => log' = log \/ log' = [log EXCEPT !.torn = TRUE]
      BY <2>1, <1>1
    <3>2. QED BY <3>1, <1>0 DEF LogOK, Logs
  <2>5. Sure => EndOffset(log') = EndOffset(log)
    BY <2>4 DEF EndOffset
  <2>6. QED BY <2>1, <2>2, <2>3, <2>4, <2>5, <1>0, <1>1, <1>2, StreamCut
<1>6. CASE MachineCrash
  <2>1. Disconnected /\ Spend("losses")
    BY <1>6 DEF MachineCrash
  <2>2. PICK n \in 0 .. cl.next : cl' = Kept(cl, n)
    BY <1>6 DEF MachineCrash
  <2>3. ~Sure'
    BY <2>1, <1>0, SpendingOn
  <2>4. n \in Nat /\ cl'.next = n /\ cl'.seq = n - 1 /\ cl'.sub = 0 /\ cl'.ids = cl.ids
    BY <2>2, <1>0, <1>2
  <2>5. cl'.seq < cl'.next /\ cl'.sub <= cl'.ids
    BY <2>4, <1>0
  <2>6. QED BY <2>1, <2>3, <2>5, StreamCut
<1>7. CASE HostRestart
  BY <1>7, StreamRestarts
<1>8. QED BY <1>3, <1>4, <1>5, <1>6, <1>7 DEF Fails

-----------------------------------------------------------------------------
LEMMA StreamInitially == Init => StreamInv
<1> SUFFICES ASSUME Init PROVE StreamInv
  OBVIOUS
<1>0. TypeInv
  BY TypeInitially
<1>1. /\ srv.mode = "closed" /\ srv.cur = 0 /\ rd.io = "none"
      /\ wire = <<>> /\ toHost = <<>>
      /\ cl.on = FALSE /\ cl.next = 0 /\ cl.seq = -1 /\ cl.inc = None /\ cl.sub = 0 /\ cl.ids = 0
      /\ host.known /\ ~host.removing /\ log.inc = 1 /\ ~log.torn /\ log.recs = <<>>
  BY DEF Init, NoSubscription, NoReader, NewLog
<1>2. DOMAIN <<>> = {}
  OBVIOUS
<1>3. EndOffset(log) = 0
  BY <1>1 DEF EndOffset
<1>4. ChainInv /\ ReaderInv /\ FilterBehindCursor /\ IdsInv /\ PendingInv
  BY <1>1, <1>2 DEF ChainInv, ReaderInv, FilterBehindCursor, IdsInv, PendingInv
<1>5. SureInv
  BY <1>1, <1>2, <1>3 DEF SureInv
<1>6. QED BY <1>4, <1>5 DEF StreamInv

LEMMA StreamAppends ==
  ASSUME TypeInv, TypeInv', LiveInv, LiveInv', StreamInv, Later(View, View'), Appends
  PROVE  StreamInv'
<1>1. CASE AppendTears
  BY <1>1, StreamTears
<1>2. CASE AppendRecord \/ AppendFailsToRotate
  <2>1. PICK kind \in Kinds : Writes(kind)
    BY <1>2, AppendDoes
  <2>2. QED BY <2>1, StreamWrites
<1>3. QED BY <1>1, <1>2 DEF Appends

LEMMA StreamStep ==
  ASSUME TypeInv, TypeInv', LiveInv, LiveInv', StreamInv, [Next]_vars
  PROVE  StreamInv'
<1>1. Later(View, View')
  BY ViewAhead DEF StreamInv
<1>2. CASE Appends
  BY <1>1, <1>2, StreamAppends
<1>3. CASE Maintains
  BY <1>1, <1>3, StreamMaintains
<1>4. CASE Replays
  BY <1>1, <1>4, StreamReplays
<1>5. CASE Serves
  BY <1>5, StreamServes
<1>6. CASE Lives
  BY <1>1, <1>6, StreamLives
<1>7. CASE Receives
  BY <1>7, StreamReceives
<1>8. CASE Consumes
  BY <1>8, StreamConsumes
<1>9. CASE Fails
  BY <1>1, <1>9, StreamFails
<1>10. CASE UNCHANGED vars
  BY <1>10 DEF vars, StreamInv, ChainInv, ReaderInv, IdsInv, PendingInv, SureInv,
               FilterBehindCursor, View, Sure
<1>11. QED BY <1>2, <1>3, <1>4, <1>5, <1>6, <1>7, <1>8, <1>9, <1>10 DEF Next

LEMMA StreamInvHolds == Spec => [](TypeInv /\ LiveInv /\ StreamInv)
<1>1. Init => TypeInv /\ LiveInv /\ StreamInv
  BY TypeInitially, LiveInvInitially, StreamInitially
<1>2. TypeInv /\ LiveInv /\ StreamInv /\ [Next]_vars => (TypeInv /\ LiveInv /\ StreamInv)'
  BY TypeStep, LiveStep, StreamStep
<1>3. QED BY <1>1, <1>2, PTL DEF Spec

\* FilterBehindCursor: the client's duplicate filter is always behind its
\* cursor, so it never swallows a record the cursor has not passed; also after
\* a log came back shorter than the cursor, or is another (hostClient.ts,
\* onMessage and the cursor it keeps).
THEOREM FilterStaysBehind == Spec => []FilterBehindCursor
<1>1. StreamInv => FilterBehindCursor
  BY DEF StreamInv
<1>2. QED BY <1>1, StreamInvHolds, PTL

-----------------------------------------------------------------------------
(* The promise of ReliableStream, kept while the log is sure.                *)

LEMMA Stands ==
  /\ SureInv /\ Sure => At = cl.next /\ log.inc = 1
  /\ SureInv' /\ Sure' => At' = cl'.next /\ log'.inc = 1
BY DEF SureInv, At

LEMMA Unmoved ==
  ASSUME log'.recs = log.recs, log'.first = log.first, log'.inc = log.inc, raced' = raced,
         got' = got, spent'.subs = spent.subs, At' = At
  PROVE  UNCHANGED StreamUnraced!vars
<1>1. Ids' = Ids
  BY DEF Ids
<1>2. Unraced' = Unraced
  BY DEF Unraced, Owed
<1>3. Handed' = Handed
  BY DEF Handed
<1>4. QED BY <1>1, <1>2, <1>3 DEF StreamUnraced!vars

LEMMA IdsAre ==
  ASSUME NEW L, LogOK(L)
  PROVE  LET ids == [i \in DOMAIN L.recs |-> L.recs[i].id]
         IN  /\ ids \in Seq(Nat) /\ Len(ids) = EndOffset(L)
             /\ DOMAIN L.recs = 1 .. EndOffset(L) /\ EndOffset(L) \in Nat
             /\ \A i \in 1 .. EndOffset(L) : ids[i] = L.recs[i].id
<1> DEFINE ids == [i \in DOMAIN L.recs |-> L.recs[i].id]
           n == EndOffset(L)
<1>1. /\ L.recs \in Seq(Records) /\ n \in Nat /\ n = Len(L.recs)
  BY LogEnds DEF EndOffset
<1>2. DOMAIN L.recs = 1 .. n
  BY <1>1, LenProperties
<1>3. \A i \in 1 .. n : L.recs[i].id \in Nat
  <2>1. \A i \in 1 .. n : L.recs[i] \in Records
    BY <1>1, <1>2, ElementOfSeq
  <2>2. QED BY <2>1 DEF Records
<1>4. ids \in [1 .. n -> Nat]
  BY <1>2, <1>3
<1> HIDE DEF ids, n
<1>5. ids \in Seq(Nat) /\ Len(ids) = n
  BY <1>1, <1>4, SeqOfLength
<1>6. QED BY <1>1, <1>2, <1>5 DEF ids, n

\* A record appended extends the stream.
LEMMA WriteExtends ==
  ASSUME TypeInv, TypeInv', SureInv, SureInv', Sure, Sure', NEW kind \in Kinds, Writes(kind)
  PROVE  StreamUnraced!Extend
<1> DEFINE n == EndOffset(log)
           M == log'
           ids == Ids
           jds == Ids'
<1>1. /\ log.recs \in Seq(Records) /\ n \in Nat /\ EndOffset(M) = n + 1
      /\ \A i \in 1 .. n : M.recs[i] = log.recs[i]
      /\ DOMAIN log.recs = 1 .. n /\ DOMAIN M.recs = 1 .. n + 1
  <2>1. /\ \A o \in Offsets(log) : M.recs[o + 1] = log.recs[o + 1]
        /\ DOMAIN M.recs = 1 .. n + 1 /\ DOMAIN log.recs = 1 .. n /\ n \in Nat
    BY RecordsAfter DEF TypeInv
  <2>2. ASSUME NEW i \in 1 .. n PROVE M.recs[i] = log.recs[i]
    <3>1. i - 1 \in Offsets(log) /\ (i - 1) + 1 = i
      BY <2>1 DEF Offsets
    <3> HIDE DEF M
    <3>2. QED BY <2>1, <3>1
  <2>3. QED BY <2>1, <2>2, LogEnds DEF TypeInv, Writes
<1>2. /\ M.first = log.first /\ M.inc = log.inc /\ cl' = cl /\ got' = got
      /\ spent'.subs = spent.subs
      /\ raced' = raced \/ raced' = raced \cup {spent.records + 1}
  BY DEF Writes, Races
<1>3. /\ ids \in Seq(Nat) /\ Len(ids) = n /\ \A i \in 1 .. n : ids[i] = log.recs[i].id
  BY IdsAre DEF TypeInv, Ids
<1>4. /\ jds \in Seq(Nat) /\ Len(jds) = n + 1 /\ \A i \in 1 .. n + 1 : jds[i] = M.recs[i].id
  <2>1. LogOK(M) /\ jds = [i \in DOMAIN M.recs |-> M.recs[i].id]
    BY DEF Writes, Ids
  <2> HIDE DEF M, jds
  <2>2. QED BY <2>1, <1>1, IdsAre
<1>5. \A i \in 1 .. n : log.recs[i].id \in Nat /\ log.recs[i].id <= spent.records
  BY <1>1, <1>3, ElementOfSeq DEF SureInv
<1>6. Unraced' \in {Unraced, Unraced \cup {n + 1}}
  <2> DEFINE Q == raced'
  <2>1. spent.records \in Nat /\ (Q = raced \/ Q = raced \cup {spent.records + 1})
    BY <1>2 DEF TypeInv, Budgets
  <2>2. Unraced' = {i \in 1 .. n + 1 : i > log.first /\ M.recs[i].kind # "part"
                                      /\ M.recs[i].id \notin Q}
    BY <1>1, <1>2 DEF Unraced, Owed
  <2>3. Unraced = {i \in 1 .. n : i > log.first /\ log.recs[i].kind # "part"
                                      /\ log.recs[i].id \notin raced}
    BY <1>1 DEF Unraced, Owed
  <2>4. \A i \in 1 .. n : log.recs[i].id \in Q <=> log.recs[i].id \in raced
    BY <2>1, <1>5
  <2> HIDE DEF Q, M
  <2>5. \A i \in 1 .. n : i \in Unraced' <=> i \in Unraced
    BY <2>2, <2>3, <2>4, <1>1
  <2>6. Unraced \subseteq 1 .. n /\ Unraced' \subseteq 1 .. n + 1
    BY <2>2, <2>3
  <2>7. 1 .. n + 1 = (1 .. n) \cup {n + 1} /\ n + 1 \notin 1 .. n
    BY <1>1
  <2> DEFINE U == Unraced'
  <2> HIDE DEF U
  <2>8. U \in {Unraced, Unraced \cup {n + 1}}
    <3>1. CASE n + 1 \in U
      BY <3>1, <2>5, <2>6, <2>7 DEF U
    <3>2. CASE n + 1 \notin U
      BY <3>2, <2>5, <2>6, <2>7 DEF U
    <3>3. QED BY <3>1, <3>2
  <2>9. QED BY <2>8 DEF U
<1>7. At' = At /\ Handed' = Handed
  BY <1>2 DEF At, Handed
<1>8. SubSeq(jds, 1, Len(ids)) = ids
  <2> HIDE DEF ids, jds, n, M
  <2>1. ASSUME NEW i \in 1 .. n PROVE jds[i] = ids[i]
    <3>1. i \in 1 .. n + 1
      BY <1>1
    <3>2. jds[i] = M.recs[i].id
      BY <3>1, <1>4
    <3>3. M.recs[i] = log.recs[i]
      BY <1>1
    <3>4. ids[i] = log.recs[i].id
      BY <1>3
    <3>5. QED BY <3>2, <3>3, <3>4
  <2> DEFINE s == SubSeq(jds, 1, n)
  <2>2. /\ s \in Seq(Nat) /\ Len(s) = n /\ \A i \in 1 .. n : s[i] = jds[i]
    <3>1. 1 \in 1 .. Len(jds) + 1 /\ n \in 0 .. Len(jds)
      BY <1>1, <1>4
    <3>2. \A i \in 1 .. n : 1 <= i /\ i <= Len(jds)
      BY <1>1, <1>4
    <3>3. QED BY <3>1, <3>2, <1>1, <1>4, SubSeqProperties
  <2> HIDE DEF s
  <2>3. s = ids
    BY <2>1, <2>2, <1>1, <1>3, SeqEqual
  <2>4. QED BY <2>3, <1>3 DEF s
<1>9. QED
  BY <1>2, <1>3, <1>4, <1>6, <1>7, <1>8 DEF StreamUnraced!Extend

\* Retention expires the oldest.
LEMMA RetentionExpires ==
  ASSUME TypeInv, SureInv, SureInv', Sure, Sure', Maintains
  PROVE  StreamUnraced!Expire \/ UNCHANGED StreamUnraced!vars
<1>1. UNCHANGED <<cl, got, raced, spent>>
  BY DEF Maintains, Compact, EnforceRetention
<1>2. /\ log'.recs = log.recs /\ log'.inc = log.inc
      /\ log'.first = log.first \/ log'.first = Retained(log)
  <2> DEFINE P == log.packed \cup {Head(maint).seg}
             f == Retained(log)
  <2>1. log' = log \/ log' = [log EXCEPT !.packed = P] \/ log' = [log EXCEPT !.first = f]
    BY DEF Maintains, Compact, EnforceRetention
  <2> HIDE DEF P, f
  <2>2. log \in Logs
    BY DEF TypeInv, LogOK
  <2>3. QED BY <2>1, <2>2 DEF Logs, f
<1>3. log.first \in Nat /\ log'.first \in Nat /\ log.first <= log'.first
  <2>1. LogOK(log)
    BY DEF TypeInv
  <2>2. log.first \in Nat /\ Retained(log) \in Nat /\ log.first <= Retained(log)
    BY <2>1, LogEnds, RetainedOK
  <2>3. QED BY <2>2, <1>2
<1>4. At' = At /\ Handed' = Handed /\ Ids' = Ids
  BY <1>1, <1>2 DEF At, Handed, Ids
<1>5. CASE log'.first = log.first
  BY <1>1, <1>2, <1>4, <1>5, Unmoved
<1>6. CASE log'.first # log.first
  <2>1. log'.first > log.first
    BY <1>3, <1>6
  <2>2. DOMAIN log.recs \subseteq Int
    <3>1. LogOK(log)
      BY DEF TypeInv
    <3>2. DOMAIN log.recs = 1 .. EndOffset(log) /\ EndOffset(log) \in Nat
      BY <3>1, IdsAre
    <3>3. QED BY <3>2
  <2>3. Unraced' = {i \in Unraced : i > log'.first}
    BY <1>1, <1>2, <1>3, <2>2 DEF Unraced, Owed
  <2>4. QED BY <1>1, <1>4, <2>1, <2>3 DEF StreamUnraced!Expire
<1>7. QED BY <1>5, <1>6

\* The client reads: a record in force is delivered, a gap told, and any other
\* message moves nothing.
LEMMA ReceiptDelivers ==
  ASSUME TypeInv, StreamInv, StreamInv', Sure, Sure', Receives
  PROVE  StreamUnraced!Deliver \/ StreamUnraced!Tell \/ UNCHANGED StreamUnraced!vars
<1> DEFINE m == Head(wire)
           n == EndOffset(log)
<1>0. /\ wire \in Seq(Messages) /\ wire # <<>> /\ m \in Messages
      /\ UNCHANGED <<log, raced, spent>> /\ cl \in Clients /\ cl.next \in Nat
      /\ n \in Nat /\ log.first \in Nat /\ log.first <= n
  BY ReceivesDo, LogEnds DEF TypeInv, Clients
<1>1. At = cl.next /\ At' = cl'.next /\ log.inc = 1
  BY Stands DEF StreamInv
<1>2. \/ cl' = cl /\ got' = got /\ (InForce(m) => m.type # "replay_gap")
                  /\ (m.type = "ok" => ~(InForce(m) /\ cl.wait))
                  /\ (m.type = "event" => ~Hands(m))
      \/ m.type = "ok" /\ InForce(m) /\ cl.wait /\ cl' = Answered(cl, m) /\ got' = got
      \/ /\ m.type \in {"unknown_agent", "stream_closed"} /\ cl' = Quit /\ got' = got
         /\ InForce(m)
      \/ /\ m.type = "event" /\ Hands(m)
         /\ cl' = [cl EXCEPT !.next = m.off + 1, !.seq = m.off, !.inc = m.inc]
         /\ got' = [id |-> m.rec.id, inc |-> m.inc]
      \/ m.type = "replay_gap" /\ InForce(m) /\ cl' = Moved(cl, m) /\ got' = got
  BY ReceivesDo
<1>3. CASE ~InForce(m)
  <2>1. cl' = cl /\ got' = got
    BY <1>2, <1>3 DEF Hands
  <2>2. At' = At
    BY <2>1, <1>1
  <2>3. QED BY <2>1, <2>2, <1>0, Unmoved
<1>4. CASE InForce(m)
  <2>1. cl.on /\ m.sub = cl.sub
    BY <1>4 DEF InForce
  <2>2. PICK e \in Nat : Reaches(wire, cl.next, e, cl.sub, View) /\ LeadsTo(srv, e, cl.sub, View)
    BY <2>1 DEF StreamInv, ChainInv, Joined
  <2>3. PICK b \in Nat : Link(m, cl.next, b, cl.sub, View) /\ Reaches(Tail(wire), b, e, cl.sub, View)
    BY <2>2, <1>0, ReachesPop
  <2>4. cl'.next = b
    BY <2>1, <2>3, MessageTaken
  <2>5. View.log = log /\ View.sure = Sure /\ View.raced = raced
    BY DEF View
  <2>6. /\ m.type = "event" => m.inc \in Nat /\ m.off \in Nat
        /\ m.type = "replay_gap" => m.to \in Nat /\ m.ahead \in BOOLEAN
    BY <1>0, MessageFields
  <2>7. Link(m, cl.next, b, cl.sub, View)
    BY <2>3
  <2> HIDE DEF m
  <2>8. CASE EventLink(m, cl.next, b, View)
    <3>1. /\ m.type = "event" /\ Skips(cl.next, m.off, View) /\ b = m.off + 1
          /\ m.off < n /\ m.inc = log.inc /\ m.rec = log.recs[m.off + 1]
      BY <2>8, <2>5 DEF EventLink
    <3>2. cl.next <= m.off /\ \A o \in Nat : cl.next <= o /\ o < m.off => o \in Free(View)
      BY <3>1, <2>5 DEF Skips
    <3>3. got' = [id |-> m.rec.id, inc |-> m.inc]
      <4>1. cl.seq < cl.next /\ cl.seq \in Nat \cup {-1}
        BY <1>0 DEF StreamInv, FilterBehindCursor, Clients
      <4>2. Hands(m)
        BY <4>1, <3>2, <2>6, <3>1, <1>0, <1>4 DEF Hands
      <4>3. QED BY <4>2, <3>1, <1>2
    <3> DEFINE k == m.off + 1
    <3>4. k \in 1 .. n /\ At' = k /\ At' > At
      BY <3>1, <3>2, <2>4, <2>6, <1>0, <1>1
    <3>5. Len(Ids) = n /\ \A i \in 1 .. n : Ids[i] = log.recs[i].id
      BY IdsAre DEF Ids, TypeInv
    <3>6. Handed' = Ids[k]
      BY <3>1, <3>3, <3>4, <3>5, <1>0 DEF Handed
    <3>7. Unraced \cap ((At + 1) .. (At' - 1)) = {}
      <4> SUFFICES ASSUME NEW i \in (cl.next + 1) .. (k - 1) PROVE i \notin Unraced
        BY <3>4, <1>1
      <4>1. i - 1 \in Nat /\ cl.next <= i - 1 /\ i - 1 < m.off /\ (i - 1) + 1 = i
        BY <2>6, <3>1, <1>0
      <4>2. i - 1 \in Free(View)
        BY <4>1, <3>2
      <4>3. \/ i - 1 < log.first \/ log.recs[i].kind = "part" \/ log.recs[i].id \in raced
        BY <4>1, <4>2, <2>5 DEF Free
      <4>4. QED BY <4>1, <4>3, <1>0 DEF Unraced, Owed
    <3>8. Ids' = Ids /\ Unraced' = Unraced /\ log'.first = log.first /\ spent'.subs = spent.subs
      BY <1>0 DEF Ids, Unraced, Owed
    <3>9. StreamUnraced!Deliver
      BY <3>4, <3>5, <3>6, <3>7, <3>8 DEF StreamUnraced!Deliver
    <3>10. QED BY <3>9
  <2>9. CASE GapLink(m, cl.next, b, View)
    <3>1. m.type = "replay_gap" /\ b = m.to /\ cl.next < m.to /\ m.to <= log.first
      BY <2>9, <2>5 DEF GapLink
    <3>2. got' = got
      BY <3>1, <1>2
    <3>3. At' > At /\ At' <= log.first
      BY <3>1, <2>4, <2>6, <1>0, <1>1
    <3>4. /\ Ids' = Ids /\ Unraced' = Unraced /\ log'.first = log.first
          /\ spent'.subs = spent.subs /\ Handed' = Handed
      BY <3>2, <1>0 DEF Ids, Unraced, Owed, Handed
    <3>5. QED BY <3>3, <3>4 DEF StreamUnraced!Tell
  <2>10. CASE ResponseLink(m, cl.next, b, View) \/ NoticeLink(m, cl.next, b)
    <3>1. m.type # "event" /\ m.type # "replay_gap" /\ b = cl.next
      BY <2>10, <2>5 DEF ResponseLink, NoticeLink
    <3>2. got' = got /\ At' = At
      BY <3>1, <2>4, <1>1, <1>2
    <3>3. QED BY <3>2, <1>0, Unmoved
  <2>11. QED BY <2>1, <2>7, <2>8, <2>9, <2>10 DEF Link
<1>5. QED BY <1>3, <1>4

\* The consumer asks where it may, and connecting or closing moves nothing.
LEMMA AskingAsks ==
  ASSUME TypeInv, StreamInv, StreamInv', Sure, Sure',
         Consumes \/ Drop \/ RelayRestart
  PROVE  StreamUnraced!Ask \/ UNCHANGED StreamUnraced!vars
<1>0. /\ cl \in Clients /\ cl.next \in Nat /\ LogOK(log) /\ EndOffset(log) \in Nat
      /\ spent \in Budgets /\ spent.subs \in Nat
  BY LogEnds DEF TypeInv, Clients, Budgets
<1>1. At = cl.next /\ At' = cl'.next
  BY Stands DEF StreamInv
<1>2. UNCHANGED <<log, got, raced>>
  BY DEF Consumes, Connect, Subscribe, Unsubscribe, SubscribeTimesOut, Drop, RelayRestart
<1>3. /\ Ids' = Ids /\ Unraced' = Unraced /\ log'.first = log.first /\ Handed' = Handed
  BY <1>2 DEF Ids, Unraced, Owed, Handed
<1>4. CASE Connect \/ Unsubscribe \/ SubscribeTimesOut \/ Drop
  <2>1. cl'.next = cl.next
    <3>1. CASE Connect
      <4> DEFINE c == [cl EXCEPT !.up = TRUE]
      <4>1. SendSubscribe(c) \/ cl' = c
        BY <3>1 DEF Connect
      <4>2. c \in Clients /\ c.next = cl.next
        BY <1>0, Connecting
      <4> HIDE DEF c
      <4>3. QED BY <4>1, <4>2, Sending DEF TypeInv
    <3>2. CASE Unsubscribe \/ SubscribeTimesOut
      BY <3>2, <1>0, Quitting DEF Unsubscribe, SubscribeTimesOut, Quit
    <3>3. CASE Drop
      BY <3>3, <1>0, Losing DEF Drop
    <3>4. QED BY <1>4, <3>1, <3>2, <3>3
  <2>2. spent'.subs = spent.subs
    <3>1. UNCHANGED spent \/ Spend("drops")
      BY <1>4 DEF Connect, Unsubscribe, SubscribeTimesOut, Drop
    <3>2. Spend("drops") => spent'.subs = spent.subs
      BY <1>0, SpendingOn
    <3>3. QED BY <3>1, <3>2
  <2>3. QED BY <2>1, <2>2, <1>1, <1>2, Unmoved
<1>5. CASE Subscribe
  <2>1. PICK n \in Starts : /\ n \in Nat
                            /\ \/ cl.up /\ SendSubscribe(Fresh(n))
                               \/ ~cl.up /\ cl' = Fresh(n) /\ UNCHANGED toHost
    BY <1>0, <1>5, SubscribeDoes
  <2>2. Fresh(n) \in Clients /\ Fresh(n).next = n
    BY <2>1, <1>0, Subscribing
  <2>3. cl'.next = n
    BY <2>1, <2>2, Sending DEF TypeInv
  <2>4. Spend("subs")
    BY <1>0, <1>5, SubscribeDoes
  <2>5. spent'.subs = spent.subs + 1
    BY <2>4, <1>0, SpendingOn
  <2>6. n <= cl.next \/ n = EndOffset(log)
    BY <2>1, <1>0 DEF Starts
  <2>7. Len(Ids) = EndOffset(log)
    BY <1>0, IdsAre DEF Ids
  <2>8. QED BY <2>3, <2>5, <2>6, <2>7, <1>1, <1>3 DEF StreamUnraced!Ask
<1>6. CASE RelayRestart
  <2>1. PICK n \in 0 .. cl.next : cl' = Kept(cl, n)
    BY <1>6 DEF RelayRestart
  <2>2. cl'.next = n /\ n <= cl.next
    BY <2>1, <1>0, Losing
  <2>3. Spend("subs")
    BY <1>6 DEF RelayRestart
  <2>4. spent'.subs = spent.subs + 1
    BY <2>3, <1>0, SpendingOn
  <2>5. QED BY <2>2, <2>4, <1>1, <1>3 DEF StreamUnraced!Ask
<1>7. QED BY <1>4, <1>5, <1>6 DEF Consumes

\* The rest moves nothing the consumer is promised.
LEMMA RestStutters ==
  ASSUME TypeInv, StreamInv, StreamInv', Sure, Sure',
         AppendTears \/ Replays \/ Serves \/ Lives \/ HostCrash \/ MachineCrash \/ HostRestart
  PROVE  UNCHANGED StreamUnraced!vars
<1>0. /\ cl \in Clients /\ LogOK(log) /\ spent \in Budgets /\ log \in Logs
      /\ host.known /\ ~host.removing
  BY DEF TypeInv, LogOK, StreamInv, SureInv
<1>1. At = cl.next /\ At' = cl'.next
  BY Stands DEF StreamInv
<1>2. CASE AppendTears
  <2>1. /\ log' = [log EXCEPT !.failed = TRUE, !.torn = TRUE]
        /\ UNCHANGED <<cl, got, raced>> /\ Spend("fails")
    BY <1>2 DEF AppendTears
  <2>2. log'.recs = log.recs /\ log'.first = log.first /\ log'.inc = log.inc
    BY <2>1, <1>0 DEF Logs
  <2>3. spent'.subs = spent.subs
    BY <2>1, <1>0, SpendingOn
  <2>4. QED BY <2>1, <2>2, <2>3, <1>1, Unmoved
<1>3. CASE Replays \/ Serves
  <2>1. UNCHANGED <<log, cl, got, raced, spent>>
    BY <1>3
    DEF Replays, FileOpened, UseFile, FileGone, FileRead, UseRecords, LeaveSegment,
        NextSegment, EndOfLog, Drained, Unwritten, Serves, HandleSubscribe,
        HandleUnsubscribe, UnlessRead
  <2>2. QED BY <2>1, <1>1, Unmoved
<1>4. CASE Lives
  <2>1. ~RemoveAgent
    BY <1>0, SpendingOn DEF RemoveAgent
  <2>2. ~Destroyed /\ ~SpawnAgent
    BY <1>0 DEF Destroyed, SpawnAgent
  <2>3. QED BY <1>4, <2>1, <2>2 DEF Lives
<1>5. CASE HostCrash
  <2>1. /\ cl' = Lost(cl) /\ Spend("crashes") /\ UNCHANGED <<got, raced>>
        /\ log' \in IF host.removing THEN HalfDeleted ELSE {log, [log EXCEPT !.torn = TRUE]}
    BY <1>5 DEF HostCrash
  <2>2. log' = log \/ log' = [log EXCEPT !.torn = TRUE]
    BY <2>1, <1>0
  <2>3. log'.recs = log.recs /\ log'.first = log.first /\ log'.inc = log.inc
    BY <2>2, <1>0 DEF Logs
  <2>4. spent'.subs = spent.subs
    BY <2>1, <1>0, SpendingOn
  <2>5. cl'.next = cl.next
    BY <2>1, <1>0, Losing
  <2>6. QED BY <2>1, <2>3, <2>4, <2>5, <1>1, Unmoved
<1>6. CASE MachineCrash
  BY <1>6, <1>0, SpendingOn DEF MachineCrash
<1>7. CASE HostRestart
  <2>1. (log' = Reopened(log) \/ log' = log) /\ UNCHANGED <<cl, got, raced, spent>>
    BY <1>7 DEF HostRestart
  <2>2. log'.recs = log.recs /\ log'.first = log.first /\ log'.inc = log.inc
    BY <2>1, <1>0 DEF Logs, Reopened
  <2>3. QED BY <2>1, <2>2, <1>1, Unmoved
<1>8. QED BY <1>2, <1>3, <1>4, <1>5, <1>6, <1>7

\* A step that is sure is one of ReliableStream's, or one it does not see.
LEMMA SureStep ==
  ASSUME TypeInv, TypeInv', LiveInv, LiveInv', StreamInv, StreamInv', [Next]_vars, Sure'
  PROVE  StreamUnraced!Next \/ UNCHANGED StreamUnraced!vars
<1>0. Sure
  <2>1. View'.sure => View.sure
    BY ViewAhead DEF StreamInv, Later
  <2>2. QED BY <2>1 DEF View
<1>1. CASE AppendRecord \/ AppendFailsToRotate
  <2>1. PICK kind \in Kinds : Writes(kind)
    BY <1>1, AppendDoes
  <2>2. StreamUnraced!Extend
    BY <2>1, <1>0, WriteExtends DEF StreamInv
  <2>3. QED BY <2>2 DEF StreamUnraced!Next
<1>2. CASE Maintains
  BY <1>0, <1>2, RetentionExpires DEF StreamInv, StreamUnraced!Next
<1>3. CASE Receives
  BY <1>0, <1>3, ReceiptDelivers DEF StreamUnraced!Next
<1>4. CASE Consumes \/ Drop \/ RelayRestart
  BY <1>0, <1>4, AskingAsks DEF StreamUnraced!Next
<1>5. CASE AppendTears \/ Replays \/ Serves \/ Lives \/ HostCrash \/ MachineCrash \/ HostRestart
  BY <1>0, <1>5, RestStutters
<1>6. CASE UNCHANGED vars
  <2>1. UNCHANGED <<log, cl, got, raced, spent>>
    BY <1>6 DEF vars
  <2>2. At' = At
    BY <2>1 DEF At
  <2>3. QED BY <2>1, <2>2, Unmoved
<1>7. QED BY <1>1, <1>2, <1>3, <1>4, <1>5, <1>6 DEF Next, Appends, Fails

LEMMA PromiseInitially == Init => StreamUnraced!Init
<1> SUFFICES ASSUME Init PROVE StreamUnraced!Init
  OBVIOUS
<1>1. /\ log.recs = <<>> /\ log.first = 0 /\ cl.next = 0 /\ got.id = 0 /\ spent.subs = 0
  BY DEF Init, NewLog
<1>2. DOMAIN <<>> = {}
  OBVIOUS
<1>3. Ids = <<>> /\ Unraced = {}
  <2>1. Unraced = {}
    BY <1>1, <1>2 DEF Unraced, Owed
  <2>2. LogOK(log)
    BY TypeInitially DEF TypeInv
  <2>3. Ids \in Seq(Nat) /\ Len(Ids) = EndOffset(log)
    BY <2>2, IdsAre DEF Ids
  <2>4. Len(Ids) = 0
    BY <2>3, <1>1 DEF EndOffset
  <2>5. QED BY <2>1, <2>3, <2>4, EmptySeq
<1>4. At = 0 /\ Handed = 0
  BY <1>1 DEF At, Handed
<1>5. QED BY <1>1, <1>3, <1>4 DEF StreamUnraced!Init

\* What an agent's stream promises (ReliableStream), for every size of segment,
\* buffer and chunk and every number of failures: as long as the agent is not
\* removed and the machine does not die, every step of the log, its reader, the
\* socket server and the client is one the promise allows.  The consumer is
\* handed the records in order, none of those it is owed left out but the raced
\* ones, also across reconnects and restarts of the host and of the relay
\* (eventLog.ts, socketServer.ts, hostClient.ts).
THEOREM StreamKeepsItsPromise ==
  Spec => StreamUnraced!Init
          /\ [][Sure' => StreamUnraced!Next]_(StreamUnraced!vars)
<1>1. Init => StreamUnraced!Init
  BY PromiseInitially
<1>2. /\ TypeInv /\ LiveInv /\ StreamInv /\ TypeInv' /\ LiveInv' /\ StreamInv' /\ [Next]_vars
      => [Sure' => StreamUnraced!Next]_(StreamUnraced!vars)
  BY SureStep
<1>3. QED BY <1>1, <1>2, StreamInvHolds, PTL DEF Spec

\* No removal is ever spent beyond the bound.
LEMMA RemovalsBounded ==
  ASSUME MaxRemovals = 0, TypeInv, spent.removals = 0, [Next]_vars
  PROVE  spent'.removals = 0
<1>0. spent \in Budgets
  BY DEF TypeInv
<1>1. ~RemoveAgent
  BY DEF RemoveAgent
<1>2. \/ UNCHANGED spent
      \/ \E what \in {"records", "drops", "crashes", "losses", "subs", "fails"} : Spend(what)
      \/ spent' = [spent EXCEPT !.records = @ + 1, !.fails = @ + 1]
  BY <1>1 DEF Next, vars, Appends, AppendRecord, AppendFailsToRotate, AppendTears, Maintains,
     Compact, EnforceRetention, Replays, FileOpened, UseFile, FileGone, FileRead, UseRecords,
     LeaveSegment, NextSegment, EndOfLog, Drained, Unwritten, Serves, HandleSubscribe,
     HandleUnsubscribe, UnlessRead, Lives, Destroyed, SpawnAgent, Receives, OnResponse,
     OnRefused, OnEvent, OnGap, OnCaughtUp, OnStreamClosed, UnlessClient, Consumes, Connect,
     Subscribe, Unsubscribe, SubscribeTimesOut, Fails, Drop, RelayRestart, HostCrash,
     MachineCrash, HostRestart
<1>3. QED BY <1>0, <1>2 DEF Spend, Budgets

\* StreamUnracedSpec for an agent that is never removed: the property the run
\* StreamReturns checks on its instance.
THEOREM UnremovedStreamRefines ==
  ASSUME MaxRemovals = 0
  PROVE  Spec => StreamUnracedSpec
<1>1. Init => spent.removals = 0
  BY DEF Init
<1>2. TypeInv /\ spent.removals = 0 /\ [Next]_vars => spent'.removals = 0
  BY RemovalsBounded
<1>3. (spent.removals = 0)' <=> spent'.removals = 0
  OBVIOUS
<1>4. Spec => [](spent.removals = 0)
  BY <1>1, <1>2, <1>3, StreamInvHolds, PTL DEF Spec
<1>5. /\ (spent.removals = 0)' /\ [Sure' => StreamUnraced!Next]_(StreamUnraced!vars)
      => [spent.losses' = 0 => StreamUnraced!Next]_(StreamUnraced!vars)
  BY DEF Sure
<1>6. QED BY <1>4, <1>5, StreamKeepsItsPromise, PTL DEF StreamUnracedSpec

==============================================================================
