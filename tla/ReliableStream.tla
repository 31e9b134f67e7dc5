---------------------------- MODULE ReliableStream ----------------------------
(***************************************************************************)
(* What an agent's stream promises its consumer: the records of the log in *)
(* order, none of those still owed left out, each one once unless the      *)
(* consumer asks again; what is missing is either not owed any more (the   *)
(* oldest, which expire, and the partial messages, never owed) or told.    *)
(***************************************************************************)
EXTENDS Integers, Sequences

VARIABLES
    sent,   \* the ids of the records of the log, in order
    owed,   \* the places of those a consumer is owed
    base,   \* records up to this place have expired
    at,     \* the place the consumer has read up to
    got,    \* the id of the last record handed to it
    asks    \* how often the consumer chose a place to read from

vars == <<sent, owed, base, at, got, asks>>

Init ==
    /\ sent = <<>> /\ owed = {} /\ base = 0
    /\ at = 0 /\ got = 0 /\ asks = 0

\* The producer adds a record.
Extend ==
    /\ Len(sent') = Len(sent) + 1
    /\ SubSeq(sent', 1, Len(sent)) = sent
    /\ owed' \in {owed, owed \cup {Len(sent')}}
    /\ UNCHANGED <<base, at, got, asks>>

\* The oldest records are not kept any more.
Expire ==
    /\ base' > base
    /\ owed' = {i \in owed : i > base'}
    /\ UNCHANGED <<sent, at, got, asks>>

\* The consumer is handed a record ahead; no owed one is passed over.
Deliver ==
    /\ at' > at /\ at' <= Len(sent)
    /\ got' = sent[at']
    /\ owed \cap ((at + 1) .. (at' - 1)) = {}
    /\ UNCHANGED <<sent, owed, base, asks>>

\* The consumer is told to go on from elsewhere: past what has expired, or
\* at the end of a log shorter than it believed.
Tell ==
    /\ \/ at' > at /\ at' <= base
       \/ at > Len(sent) /\ at' = Len(sent)
    /\ UNCHANGED <<sent, owed, base, got, asks>>

\* The consumer asks: again from where it was once, or from the end.
Ask ==
    /\ asks' = asks + 1
    /\ at' <= at \/ at' = Len(sent)
    /\ UNCHANGED <<sent, owed, base, got>>

\* Another log takes the place of this one: the consumer is owed all of it.
Renew ==
    /\ sent' = <<>> /\ owed' = {} /\ base' = 0 /\ at' = 0 /\ got' = 0
    /\ UNCHANGED asks

Next == Extend \/ Expire \/ Deliver \/ Tell \/ Ask \/ Renew

Spec == Init /\ [][Next]_vars

=============================================================================
