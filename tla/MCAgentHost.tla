---------------------------- MODULE MCAgentHost ----------------------------
(* Instances of AgentHost for TLC. *)
EXTENDS AgentHost

CONSTANT Idle   \* ids that start out with an idle live agent

IdleObjects == {<<i, 1>> : i \in Idle}

(* Agents spawned without a message, up and idle: where Init's behaviours    *)
(* get to after one spawn each.                                              *)
IdleInit ==
  /\ current = [i \in Ids |-> IF i \in Idle THEN <<i, 1>> ELSE NoObj]
  /\ removing = {}
  /\ agent = [o \in Objects |-> [Fresh EXCEPT !.life = IF o \in IdleObjects THEN "alive" ELSE "unborn"]]
  /\ cli = [o \in Objects |-> [NoProcess EXCEPT !.st = IF o \in IdleObjects THEN "up" ELSE "none"]]
  /\ sweep = {}
  /\ queue = [o \in Objects |-> <<>>]
  /\ pc = [o \in Objects |-> "idle"]
  /\ room = [o \in Objects |-> NoRoom]
  /\ phase = "serving"
  /\ cut = {}
  /\ saved = [i \in Ids |-> IF i \in Idle THEN "alive" ELSE "absent"]
  /\ msg = [m \in Messages |-> "new"]

IdleSpec == IdleInit /\ [][Next]_vars
IdleFairSpec == IdleSpec /\ Fairness
=============================================================================
