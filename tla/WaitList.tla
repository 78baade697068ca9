------------------------------ MODULE WaitList ------------------------------
(***************************************************************************)
(* The intrusive doubly linked list in which waiting senders queue         *)
(* (rticx-async, wait_queue.rs).  Each operation runs in one critical      *)
(* section; a list is a record of what its atomic pointers hold, and a     *)
(* link is named by the sender whose future it lies in.                    *)
(***************************************************************************)
EXTENDS Integers, Sequences

CONSTANTS Links, Null

(* A store through a pointer that may be null.                             *)
Store(f, k, v) == IF k = Null THEN f ELSE [f EXCEPT ![k] = v]

(* Link::new, and what the model keeps of a link that has been dropped.    *)
NewLink(l, k) ==
  [l EXCEPT !.next[k] = Null, !.prev[k] = Null, !.is_popped[k] = FALSE]

NewList ==
  LET none == [k \in Links |-> Null]
  IN  [head |-> Null, tail |-> Null, next |-> none, prev |-> none,
       is_popped |-> [k \in Links |-> FALSE]]

(* The caller has made sure that the list is not empty.                    *)
pop(l) ==
  LET second == l.next[l.head]
  IN  [l EXCEPT
        !.head = second,
        !.tail = IF l.head = l.tail THEN Null ELSE @,
        !.next[l.head] = Null,
        !.prev = Store(Store(@, second, Null), l.head, Null),
        !.is_popped[l.head] = TRUE]

push(l, k) ==
  IF l.tail = Null
  THEN [l EXCEPT !.head = k, !.tail = k]
  ELSE [l EXCEPT !.tail = k, !.prev[k] = l.tail, !.next[l.tail] = k]

(* Mutant: the tail keeps pointing to the link that is removed.            *)
remove_keeping_tail(l, k) ==
  LET p == l.prev[k]
      n == l.next[k]
      removed == [l EXCEPT !.is_popped[k] = TRUE,
                           !.prev = Store(@, n, p), !.next = Store(@, p, n)]
  IN  IF l.is_popped[k] THEN l
      ELSE IF p = Null THEN [removed EXCEPT !.head = n] ELSE removed

(* Taking a link out wherever it is; a popped one has nothing left to do.  *)
remove_from_list(l, k) ==
  LET p == l.prev[k]
      n == l.next[k]
      popped == [l EXCEPT !.is_popped[k] = TRUE]
      removed == [popped EXCEPT !.prev = Store(@, n, p), !.next = Store(@, p, n)]
  IN  CASE l.is_popped[k] -> l
        [] ~ l.is_popped[k] /\ p = Null /\ n = Null ->
             IF k = l.head THEN [popped EXCEPT !.head = Null, !.tail = Null]
             ELSE popped
        [] ~ l.is_popped[k] /\ p = Null /\ n # Null -> [removed EXCEPT !.head = n]
        [] ~ l.is_popped[k] /\ p # Null /\ n = Null -> [removed EXCEPT !.tail = p]
        [] OTHER -> removed

(* The pointers spell out the sequence s: both directions, both ends.      *)
Represents(l, s) ==
  LET at(i) == IF i \in 1 .. Len(s) THEN s[i] ELSE Null
  IN  /\ l.head = at(1)
      /\ l.tail = at(Len(s))
      /\ \A i \in 1 .. Len(s) :
           /\ l.prev[s[i]] = at(i - 1)
           /\ l.next[s[i]] = at(i + 1)
           /\ ~ l.is_popped[s[i]]
=============================================================================
