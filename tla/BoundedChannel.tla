--------------------------- MODULE BoundedChannel ---------------------------
(***************************************************************************)
(* What a channel of capacity N promises to its ends: accepted messages    *)
(* come out once and in the order in which they went in, no more than N    *)
(* are inside or promised room, and senders that wait are given room in    *)
(* the order in which they began to wait: nobody overtakes them.           *)
(***************************************************************************)
EXTENDS Integers, Sequences, FiniteSets

CONSTANTS Senders, N, None

VARIABLES queue,     (* the messages inside                                *)
          received,  (* the message being handed to the receiver           *)
          waiting,   (* the senders that wait for room, first come first   *)
          holding,   (* the senders that have been given room              *)
          sent,      (* how many messages each sender has put in           *)
          open       (* the receiver exists                                *)

vars == <<queue, received, waiting, holding, sent, open>>

HasRoom == Len(queue) + Cardinality(holding) < N

Init ==
  /\ queue = <<>> /\ received = None
  /\ waiting = <<>> /\ holding = {}
  /\ sent = [s \in Senders |-> 0]
  /\ open = TRUE

(* A sender that finds room and nobody waiting.                            *)
Acquire(s) ==
  /\ s \notin holding
  /\ waiting = <<>> /\ HasRoom
  /\ holding' = holding \cup {s}
  /\ UNCHANGED <<queue, received, waiting, sent, open>>

Wait(s) ==
  /\ open
  /\ \A i \in 1 .. Len(waiting) : waiting[i] # s
  /\ waiting' = Append(waiting, s)
  /\ UNCHANGED <<queue, received, holding, sent, open>>

(* Room goes to the sender that has waited longest, perhaps directly from  *)
(* one that gives it up.                                                   *)
Serve ==
  /\ waiting # <<>>
  /\ \/ HasRoom /\ holding' = holding \cup {Head(waiting)}
     \/ \E s \in holding : holding' = (holding \ {s}) \cup {Head(waiting)}
  /\ waiting' = Tail(waiting)
  /\ UNCHANGED <<queue, received, sent, open>>

(* A sender gives up: its place in the line, or the room it was given when *)
(* nobody waits for it.                                                    *)
GiveUp(s) ==
  /\ \/ /\ \E i \in 1 .. Len(waiting) :
             /\ waiting[i] = s
             /\ waiting' = SubSeq(waiting, 1, i - 1)
                             \o SubSeq(waiting, i + 1, Len(waiting))
        /\ UNCHANGED holding
     \/ /\ waiting = <<>> /\ s \in holding
        /\ holding' = holding \ {s}
        /\ UNCHANGED waiting
  /\ UNCHANGED <<queue, received, sent, open>>

(* What is put into a channel without a receiver is gone.                  *)
Put(s) ==
  /\ s \in holding
  /\ holding' = holding \ {s}
  /\ queue' = IF open THEN Append(queue, <<s, sent[s]>>) ELSE queue
  /\ sent' = [sent EXCEPT ![s] = @ + 1]
  /\ UNCHANGED <<received, waiting, open>>

Take ==
  /\ queue # <<>> /\ received = None
  /\ received' = Head(queue)
  /\ queue' = Tail(queue)
  /\ UNCHANGED <<waiting, holding, sent, open>>

(* The receiver's call returns; the room of the message goes on to whoever *)
(* has waited longest.                                                     *)
Done ==
  /\ received # None
  /\ received' = None
  /\ IF waiting = <<>> THEN UNCHANGED <<waiting, holding>>
     ELSE /\ HasRoom
          /\ waiting' = Tail(waiting) /\ holding' = holding \cup {Head(waiting)}
  /\ UNCHANGED <<queue, sent, open>>

Close ==
  /\ open
  /\ open' = FALSE /\ queue' = <<>>
  /\ UNCHANGED <<received, waiting, holding, sent>>

(* Without a receiver waiting senders are sent away.                       *)
Dismiss ==
  /\ ~ open /\ waiting # <<>>
  /\ waiting' = Tail(waiting)
  /\ UNCHANGED <<queue, received, holding, sent, open>>

Next ==
  \/ \E s \in Senders : Acquire(s) \/ Wait(s) \/ GiveUp(s) \/ Put(s)
  \/ Serve \/ Take \/ Done \/ Close \/ Dismiss

Spec == Init /\ [][Next]_vars
=============================================================================
