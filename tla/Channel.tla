------------------------------- MODULE Channel -------------------------------
(***************************************************************************)
(* The async channel (rticx-async, channel.rs): N slots whose indices      *)
(* travel between a free queue, a ready queue and the hands of the ends;   *)
(* senders that find no slot wait in a list and are handed the slots the   *)
(* receiver gives back.                                                    *)
(*                                                                         *)
(* Each action is one critical section, or one access outside of any: the  *)
(* ends may be on different cores, or preempt each other, in between.  A   *)
(* task waits in phase "pending" and is polled when its waker has been     *)
(* called, or for a reason of its own; its future may be dropped there.    *)
(***************************************************************************)
EXTENDS Integers, Sequences, FiniteSets

CONSTANTS Senders,   (* handles of the sending end that may come to exist  *)
          First,     (* the one that split() returns                       *)
          N,         (* number of slots                                    *)
          MaxSent,   (* bound: messages a sender gets accepted             *)
          None

ASSUME ChannelAssumption ==
  /\ N \in 1 .. 255 /\ MaxSent \in Nat
  /\ First \in Senders /\ IsFiniteSet(Senders)
  /\ None \notin Senders \cup (0 .. N - 1)

ASSUME NoneIsNoMessage == None \notin Senders \X (0 .. MaxSent)

Slots == 0 .. N - 1

VARIABLES freeq, readyq,     (* queues of slot indices                     *)
          slots,             (* what the slots hold                        *)
          receiver_dropped, num_senders,
          receiver_waker,    (* the receiver's waker is registered         *)
          list,              (* wait_queue, by its pointers                *)
          waiting,           (* wait_queue, as a sequence of senders       *)
          tx, rx             (* the locals of the ends                     *)

queues == <<freeq, readyq, slots>>
line == <<list, waiting>>
vars == <<queues, receiver_dropped, num_senders, receiver_waker, line, tx, rx>>

WL == INSTANCE WaitList WITH Links <- Senders, Null <- None

(* slot: idx; link: link_ptr is Some; granted: free_slot_ptr; woken: the   *)
(* waker of the sender's task has been called; sent: messages accepted.    *)
NewSender(pc) ==
  [pc |-> pc, slot |-> None, link |-> FALSE, granted |-> None,
   woken |-> FALSE, sent |-> 0]

(* Mutant: one index too many.                                             *)
AllSlotsAndOne == [i \in 1 .. N + 1 |-> i - 1]

AllSlots == [i \in 1 .. N |-> i - 1]

(* Channel::new and split, which make_channel! lets happen once.           *)
Init ==
  /\ freeq = AllSlots /\ readyq = <<>>
  /\ slots = [i \in Slots |-> None]
  /\ receiver_dropped = FALSE /\ num_senders = 1
  /\ receiver_waker = FALSE
  /\ list = WL!NewList /\ waiting = <<>>
  /\ tx = [s \in Senders |-> NewSender(IF s = First THEN "idle" ELSE "unborn")]
  /\ rx = [pc |-> "idle", slot |-> None, val |-> None, waker |-> None,
           async |-> FALSE, woken |-> FALSE]

-----------------------------------------------------------------------------
(* A slot that comes back is handed to the sender that has waited longest. *)
return_free_slot(slot, locals) ==
  IF list.head # None
  THEN /\ list' = WL!pop(list) /\ waiting' = Tail(waiting)
       /\ tx' = [locals EXCEPT ![list.head].granted = slot,
                               ![list.head].woken = TRUE]
       /\ UNCHANGED freeq
  ELSE /\ freeq' = Append(freeq, slot) /\ tx' = locals
       /\ UNCHANGED line

(* receiver_waker.wake(): the waker is taken out and called.               *)
WakeReceiver ==
  /\ receiver_waker' = FALSE
  /\ rx' = [rx EXCEPT !.woken = @ \/ receiver_waker]

-----------------------------------------------------------------------------
(* try_send: the three tests, each on its own.                             *)

TrySend(s) ==
  /\ tx[s].pc = "idle" /\ tx[s].sent < MaxSent
  /\ tx' = [tx EXCEPT ![s].pc = IF list.head = None THEN "try_open" ELSE "idle"]
  /\ UNCHANGED <<queues, receiver_dropped, num_senders, receiver_waker, line, rx>>

TrySendIsClosed(s) ==
  /\ tx[s].pc = "try_open"
  /\ tx' = [tx EXCEPT ![s].pc = IF receiver_dropped THEN "idle" ELSE "try_slot"]
  /\ UNCHANGED <<queues, receiver_dropped, num_senders, receiver_waker, line, rx>>

TrySendSlot(s) ==
  /\ tx[s].pc = "try_slot"
  /\ IF freeq = <<>>
     THEN /\ tx' = [tx EXCEPT ![s].pc = "idle"]
          /\ UNCHANGED freeq
     ELSE /\ tx' = [tx EXCEPT ![s].pc = "write", ![s].slot = Head(freeq)]
          /\ freeq' = Tail(freeq)
  /\ UNCHANGED <<readyq, slots, receiver_dropped, num_senders, receiver_waker,
                 line, rx>>

(* send: the closure that is polled, one critical section.                 *)
Polled(s) ==
  \/ tx[s].pc = "idle" /\ tx[s].sent < MaxSent
  \/ tx[s].pc = "pending"

SendClosed(s) ==
  /\ Polled(s) /\ receiver_dropped
  /\ tx' = [tx EXCEPT ![s].pc = IF tx[s].link THEN "unlink" ELSE "idle",
                      ![s].woken = FALSE]
  /\ UNCHANGED <<queues, receiver_dropped, num_senders, receiver_waker, line, rx>>

(* The link was popped: the slot is there, unless the receiver popped it   *)
(* on its way out.                                                         *)
SendPopped(s) ==
  /\ Polled(s) /\ ~ receiver_dropped
  /\ tx[s].link /\ list.is_popped[s]
  /\ tx' = [tx EXCEPT ![s].pc = IF tx[s].granted = None THEN "idle" ELSE "write",
                      ![s].slot = tx[s].granted, ![s].granted = None,
                      ![s].link = FALSE, ![s].woken = FALSE]
  /\ list' = WL!NewLink(list, s)
  /\ UNCHANGED <<queues, receiver_dropped, num_senders, receiver_waker, waiting,
                 rx>>

SendStillWaits(s) ==
  /\ Polled(s) /\ ~ receiver_dropped
  /\ tx[s].link /\ ~ list.is_popped[s]
  /\ tx' = [tx EXCEPT ![s].woken = FALSE]
  /\ UNCHANGED <<queues, receiver_dropped, num_senders, receiver_waker, line, rx>>

SendWaits(s) ==
  /\ Polled(s) /\ ~ receiver_dropped
  /\ ~ tx[s].link
  /\ list.head # None \/ freeq = <<>>
  /\ list' = WL!push(WL!NewLink(list, s), s) /\ waiting' = Append(waiting, s)
  /\ tx' = [tx EXCEPT ![s].pc = "pending", ![s].link = TRUE, ![s].woken = FALSE]
  /\ UNCHANGED <<queues, receiver_dropped, num_senders, receiver_waker, rx>>

SendSlot(s) ==
  /\ Polled(s) /\ ~ receiver_dropped
  /\ ~ tx[s].link
  /\ list.head = None /\ freeq # <<>>
  /\ tx' = [tx EXCEPT ![s].pc = "write", ![s].slot = freeq[Len(freeq)],
                      ![s].woken = FALSE]
  /\ freeq' = SubSeq(freeq, 1, Len(freeq) - 1)
  /\ UNCHANGED <<readyq, slots, receiver_dropped, num_senders, receiver_waker,
                 line, rx>>

SendPoll(s) ==
  \/ SendClosed(s) \/ SendPopped(s) \/ SendStillWaits(s)
  \/ SendWaits(s) \/ SendSlot(s)

(* The future is dropped while it waits, for instance by a timeout.        *)
CancelSend(s) ==
  /\ tx[s].pc = "pending"
  /\ tx' = [tx EXCEPT ![s].pc = "unlink", ![s].woken = FALSE]
  /\ UNCHANGED <<queues, receiver_dropped, num_senders, receiver_waker, line, rx>>

(* The dropper: the link leaves the list; a slot that was handed over      *)
(* before that is passed on.                                               *)
Unlink(s) ==
  /\ tx[s].pc = "unlink"
  /\ list' = WL!NewLink(WL!remove_from_list(list, s), s)
  /\ \/ /\ \A i \in 1 .. Len(waiting) : waiting[i] # s
        /\ UNCHANGED waiting
     \/ \E i \in 1 .. Len(waiting) :
          /\ waiting[i] = s
          /\ waiting' = SubSeq(waiting, 1, i - 1)
                          \o SubSeq(waiting, i + 1, Len(waiting))
  /\ tx' = [tx EXCEPT ![s].pc = IF tx[s].granted = None THEN "idle" ELSE "giveback",
                      ![s].link = FALSE]
  /\ UNCHANGED <<queues, receiver_dropped, num_senders, receiver_waker, rx>>

(* Mutant: the dropper forgets about the slot.                             *)
KeepsGranted(s) ==
  /\ tx[s].pc = "giveback"
  /\ tx' = [tx EXCEPT ![s].pc = "idle", ![s].granted = None]
  /\ UNCHANGED <<queues, receiver_dropped, num_senders, receiver_waker, line, rx>>

GiveBack(s) ==
  /\ tx[s].pc = "giveback"
  /\ return_free_slot(tx[s].granted,
       [tx EXCEPT ![s].pc = "idle", ![s].granted = None])
  /\ UNCHANGED <<readyq, slots, receiver_dropped, num_senders, receiver_waker, rx>>

(* send_footer                                                             *)
WriteSlot(s) ==
  /\ tx[s].pc = "write"
  /\ slots' = [slots EXCEPT ![tx[s].slot] = <<s, tx[s].sent>>]
  /\ tx' = [tx EXCEPT ![s].pc = "push"]
  /\ UNCHANGED <<freeq, readyq, receiver_dropped, num_senders, receiver_waker,
                 line, rx>>

PushReady(s) ==
  /\ tx[s].pc = "push"
  /\ readyq' = Append(readyq, tx[s].slot)
  /\ tx' = [tx EXCEPT ![s].pc = "wake", ![s].slot = None, ![s].sent = @ + 1]
  /\ UNCHANGED <<freeq, slots, receiver_dropped, num_senders, receiver_waker,
                 line, rx>>

Wake(s) ==
  /\ tx[s].pc \in {"wake", "last_wake"}
  /\ tx' = [tx EXCEPT ![s].pc = IF @ = "wake" THEN "idle" ELSE "gone"]
  /\ WakeReceiver
  /\ UNCHANGED <<queues, receiver_dropped, num_senders, line>>

(* Mutant: the last sender leaves without a word.                          *)
DropSilently(s) ==
  /\ tx[s].pc = "idle"
  /\ num_senders' = num_senders - 1
  /\ tx' = [tx EXCEPT ![s].pc = "gone"]
  /\ UNCHANGED <<queues, receiver_dropped, receiver_waker, line, rx>>

DropSender(s) ==
  /\ tx[s].pc = "idle"
  /\ num_senders' = num_senders - 1
  /\ tx' = [tx EXCEPT ![s].pc = IF num_senders = 1 THEN "last_wake" ELSE "gone"]
  /\ UNCHANGED <<queues, receiver_dropped, receiver_waker, line, rx>>

Clone(s, t) ==
  /\ tx[s].pc = "idle" /\ tx[t].pc = "unborn"
  /\ num_senders' = num_senders + 1
  /\ tx' = [tx EXCEPT ![t].pc = "idle"]
  /\ UNCHANGED <<queues, receiver_dropped, receiver_waker, line, rx>>

-----------------------------------------------------------------------------
(* recv registers its waker and goes on as try_recv does.                  *)
Register ==
  /\ rx.pc \in {"idle", "pending"}
  /\ receiver_waker' = TRUE
  /\ rx' = [rx EXCEPT !.pc = "pop", !.async = TRUE, !.woken = FALSE]
  /\ UNCHANGED <<queues, receiver_dropped, num_senders, line, tx>>

(* Mutant: the newest message first.                                       *)
PopNewest ==
  /\ rx.pc \in {"idle", "pop"}
  /\ IF readyq = <<>>
     THEN /\ rx' = [rx EXCEPT !.pc = "closed"]
          /\ UNCHANGED readyq
     ELSE /\ rx' = [rx EXCEPT !.pc = "read", !.slot = readyq[Len(readyq)]]
          /\ readyq' = SubSeq(readyq, 1, Len(readyq) - 1)
  /\ UNCHANGED <<freeq, slots, receiver_dropped, num_senders, receiver_waker,
                 line, tx>>

(* try_recv, called or reached from recv.                                  *)
PopReady ==
  /\ rx.pc \in {"idle", "pop"}
  /\ IF readyq = <<>>
     THEN /\ rx' = [rx EXCEPT !.pc = "closed"]
          /\ UNCHANGED readyq
     ELSE /\ rx' = [rx EXCEPT !.pc = "read", !.slot = Head(readyq)]
          /\ readyq' = Tail(readyq)
  /\ UNCHANGED <<freeq, slots, receiver_dropped, num_senders, receiver_waker,
                 line, tx>>

ReadSlot ==
  /\ rx.pc = "read"
  /\ rx' = [rx EXCEPT !.pc = "return", !.val = slots[rx.slot]]
  /\ slots' = [slots EXCEPT ![rx.slot] = None]
  /\ UNCHANGED <<freeq, readyq, receiver_dropped, num_senders, receiver_waker,
                 line, tx>>

ReturnSlot ==
  /\ rx.pc = "return"
  /\ return_free_slot(rx.slot, tx)
  /\ rx' = [rx EXCEPT !.pc = "idle", !.slot = None, !.val = None, !.async = FALSE]
  /\ UNCHANGED <<readyq, slots, receiver_dropped, num_senders, receiver_waker>>

(* Nothing was ready: NoSender, or Empty, on which recv goes to wait.      *)
RecvIsClosed ==
  /\ rx.pc = "closed"
  /\ rx' = IF num_senders # 0 /\ rx.async
           THEN [rx EXCEPT !.pc = "pending"]
           ELSE [rx EXCEPT !.pc = "idle", !.async = FALSE]
  /\ UNCHANGED <<queues, receiver_dropped, num_senders, receiver_waker, line, tx>>

CancelRecv ==
  /\ rx.pc = "pending"
  /\ rx' = [rx EXCEPT !.pc = "idle", !.async = FALSE]
  /\ UNCHANGED <<queues, receiver_dropped, num_senders, receiver_waker, line, tx>>

DropReceiver ==
  /\ rx.pc = "idle"
  /\ receiver_dropped' = TRUE
  /\ rx' = [rx EXCEPT !.pc = "drain"]
  /\ UNCHANGED <<queues, num_senders, receiver_waker, line, tx>>

(* The messages are dropped, newest first; their slots are not given back. *)
Drain ==
  /\ rx.pc = "drain"
  /\ IF readyq = <<>>
     THEN /\ rx' = [rx EXCEPT !.pc = "dismiss"]
          /\ UNCHANGED <<readyq, slots>>
     ELSE /\ slots' = [slots EXCEPT ![readyq[Len(readyq)]] = None]
          /\ readyq' = SubSeq(readyq, 1, Len(readyq) - 1)
          /\ UNCHANGED rx
  /\ UNCHANGED <<freeq, receiver_dropped, num_senders, receiver_waker, line, tx>>

(* Mutant: the waiting senders are left alone.                             *)
DismissNobody ==
  /\ rx.pc = "dismiss"
  /\ rx' = [rx EXCEPT !.pc = "gone"]
  /\ UNCHANGED <<queues, receiver_dropped, num_senders, receiver_waker, line, tx>>

(* The waiting senders are popped without a slot, and woken.               *)
Dismiss ==
  /\ rx.pc = "dismiss"
  /\ IF list.head = None
     THEN /\ rx' = [rx EXCEPT !.pc = "gone"]
          /\ UNCHANGED line
     ELSE /\ rx' = [rx EXCEPT !.pc = "dismiss_wake", !.waker = list.head]
          /\ list' = WL!pop(list) /\ waiting' = Tail(waiting)
  /\ UNCHANGED <<queues, receiver_dropped, num_senders, receiver_waker, tx>>

DismissWake ==
  /\ rx.pc = "dismiss_wake"
  /\ tx' = [tx EXCEPT ![rx.waker].woken = TRUE]
  /\ rx' = [rx EXCEPT !.pc = "dismiss", !.waker = None]
  /\ UNCHANGED <<queues, receiver_dropped, num_senders, receiver_waker, line>>

-----------------------------------------------------------------------------
(* What an end goes on with by itself once it has begun.                   *)
SenderGoesOn(s) ==
  \/ TrySendIsClosed(s) \/ TrySendSlot(s)
  \/ Unlink(s) \/ GiveBack(s)
  \/ WriteSlot(s) \/ PushReady(s) \/ Wake(s)

ReceiverGoesOn ==
  \/ rx.pc = "pop" /\ PopReady
  \/ ReadSlot \/ ReturnSlot \/ RecvIsClosed
  \/ Drain \/ Dismiss \/ DismissWake

Next ==
  \/ \E s \in Senders : \/ TrySend(s) \/ SendPoll(s) \/ CancelSend(s)
                        \/ SenderGoesOn(s) \/ DropSender(s)
                        \/ \E t \in Senders : Clone(s, t)
  \/ Register \/ PopReady \/ CancelRecv \/ DropReceiver
  \/ ReceiverGoesOn

PollDue(s) == tx[s].pc = "pending" /\ tx[s].woken
RecvDue == rx.pc = "pending" => rx.woken

(* Tasks that were woken are polled, and what has begun goes on.  The      *)
(* receiver keeps receiving until it is dropped.                           *)
Fairness ==
  /\ \A s \in Senders :
       WF_vars(SenderGoesOn(s) \/ (PollDue(s) /\ SendPoll(s)))
  /\ WF_vars(ReceiverGoesOn \/ (RecvDue /\ Register))

Spec == Init /\ [][Next]_vars /\ Fairness

-----------------------------------------------------------------------------
SlotOrNone == Slots \cup {None}
Messages == Senders \X (0 .. MaxSent - 1)

TypeOK ==
  /\ freeq \in Seq(Slots) /\ Len(freeq) <= N
  /\ readyq \in Seq(Slots) /\ Len(readyq) <= N
  /\ slots \in [Slots -> Messages \cup {None}]
  /\ receiver_dropped \in BOOLEAN /\ receiver_waker \in BOOLEAN
  /\ num_senders = Cardinality({s \in Senders :
       tx[s].pc \notin {"unborn", "last_wake", "gone"}})
  /\ tx \in [Senders ->
       [pc : {"unborn", "idle", "try_open", "try_slot", "pending", "unlink",
              "giveback", "write", "push", "wake", "last_wake", "gone"},
        slot : SlotOrNone, link : BOOLEAN, granted : SlotOrNone,
        woken : BOOLEAN, sent : 0 .. MaxSent]]
  /\ rx \in
       [pc : {"idle", "pop", "read", "return", "closed", "pending", "drain",
              "dismiss", "dismiss_wake", "gone"},
        slot : SlotOrNone, val : Messages \cup {None},
        waker : Senders \cup {None}, async : BOOLEAN, woken : BOOLEAN]

(* Every slot is in exactly one place: free, ready, given to a waiting     *)
(* sender, or in the hand of the one end that may touch it.  Until the     *)
(* receiver is dropped none is lost, however sends are cancelled.  This is *)
(* what the unchecked pushes and the unsafe slot accesses rest on.         *)
Places(i) ==
  LET at(place, f) == {<<place, k>> : k \in {k \in DOMAIN f : f[k] = i}}
  IN  at("free", freeq) \cup at("ready", readyq)
        \cup at("given", [s \in Senders |-> tx[s].granted])
        \cup at("sender", [s \in Senders |-> tx[s].slot])
        \cup at("receiver", <<rx.slot>>)

SlotsConserved ==
  \A i \in Slots :
    /\ \A p, q \in Places(i) : p = q
    /\ ~ receiver_dropped => Places(i) # {}

(* The pointers of the wait list are, in both directions, the line of the  *)
(* senders that wait, although links are popped at one end, pushed at the  *)
(* other and removed from the middle.                                      *)
ListIsLine ==
  /\ WL!Represents(list, waiting)
  /\ \A s \in Senders :
       (\E i \in 1 .. Len(waiting) : waiting[i] = s)
         <=> tx[s].link /\ ~ list.is_popped[s]

(* Nobody is forgotten.  While senders wait there is no free slot; one     *)
(* that was popped has been woken or is about to be; a receiver that waits *)
(* has been woken, or somebody is about to, when a message is ready or     *)
(* the last sender has gone.                                               *)
NoLostWake ==
  /\ waiting # <<>> => freeq = <<>>
  /\ \A s \in Senders :
       tx[s].pc = "pending" /\ list.is_popped[s]
         => tx[s].woken \/ rx.waker = s
  /\ rx.pc = "pending" /\ (readyq # <<>> \/ num_senders = 0) =>
       \/ rx.woken
       \/ receiver_waker /\ \E s \in Senders : tx[s].pc \in {"wake", "last_wake"}

(* A sender that waits gets room or is told that nobody receives, and a    *)
(* receiver that waits gets the message, or learns that no more will come. *)
NobodyWaitsForever ==
  /\ \A s \in Senders : tx[s].pc = "pending" ~> tx[s].pc # "pending"
  /\ rx.pc = "pending" /\ (readyq # <<>> \/ num_senders = 0)
       ~> rx.pc # "pending"

(* The channel is a bounded FIFO of messages that serves waiting senders   *)
(* in their order.  A message is taken where the ready queue is popped.    *)
Inside ==
  IF receiver_dropped THEN <<>>
  ELSE [i \in 1 .. Len(readyq) |-> slots[readyq[i]]]

Handed == IF rx.pc = "read" THEN slots[rx.slot] ELSE rx.val

Holding == {s \in Senders : tx[s].slot # None \/ tx[s].granted # None}

Accepted == [s \in Senders |-> tx[s].sent]

Abstract == INSTANCE BoundedChannel WITH
  queue <- Inside, received <- Handed, holding <- Holding,
  sent <- Accepted, open <- ~ receiver_dropped

ImplementsBoundedChannel == Abstract!Spec
=============================================================================
