----------------------------- MODULE SpawnOrder -----------------------------
(***************************************************************************)
(* What the software-task pass promises: the spawns of one priority group  *)
(* are executed one at a time, each with its own input, in the order in    *)
(* which they were accepted, and a task has at most `capacity` waiting.    *)
(***************************************************************************)
EXTENDS Naturals, Sequences, FiniteSets

CONSTANTS Groups, Spawnable, GroupOf, Values, Capacity, Nothing

VARIABLES
  backlog,  \* group -> accepted spawns <<task, input>>, oldest first
  current   \* group -> the spawn being executed, or Nothing

vars == <<backlog, current>>

Init ==
  /\ backlog = [g \in Groups |-> <<>>]
  /\ current = [g \in Groups |-> Nothing]

Waiting(t) ==
  LET spawns == backlog[GroupOf[t]]
  IN  Cardinality({i \in 1 .. Len(spawns) : spawns[i][1] = t})

Accept(t, v) ==
  /\ Waiting(t) < Capacity[t]
  /\ backlog' = [backlog EXCEPT ![GroupOf[t]] = Append(@, <<t, v>>)]
  /\ UNCHANGED current

Start(g) ==
  /\ current[g] = Nothing
  /\ backlog[g] # <<>>
  /\ current' = [current EXCEPT ![g] = Head(backlog[g])]
  /\ backlog' = [backlog EXCEPT ![g] = Tail(@)]

Finish(g) ==
  /\ current[g] # Nothing
  /\ current' = [current EXCEPT ![g] = Nothing]
  /\ UNCHANGED backlog

Next ==
  \/ \E t \in Spawnable, v \in Values : Accept(t, v)
  \/ \E g \in Groups : Start(g) \/ Finish(g)

Spec == Init /\ [][Next]_vars
=============================================================================
