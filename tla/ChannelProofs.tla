--------------------------- MODULE ChannelProofs ---------------------------
(***************************************************************************)
(* Channel for any number of senders, slots and messages: no slot is ever  *)
(* in two hands or lost, the pointers of the wait list always spell out    *)
(* the line of the waiting senders, and nobody who waits is forgotten.     *)
(***************************************************************************)
EXTENDS Channel, Lemmas

-----------------------------------------------------------------------------
(* The wait list: what its three operations do to the line it spells out.  *)

SenderOrNone == Senders \cup {None}

ListType ==
  [head : SenderOrNone, tail : SenderOrNone,
   next : [Senders -> SenderOrNone], prev : [Senders -> SenderOrNone],
   is_popped : [Senders -> BOOLEAN]]

(* WL!Represents, case by case.                                            *)
Spells(l, q) ==
  /\ q = <<>> => l.head = None /\ l.tail = None
  /\ q # <<>> => l.head = q[1] /\ l.tail = q[Len(q)]
  /\ \A i \in 1 .. Len(q) :
       /\ l.prev[q[i]] = IF i = 1 THEN None ELSE q[i - 1]
       /\ l.next[q[i]] = IF i = Len(q) THEN None ELSE q[i + 1]
       /\ ~ l.is_popped[q[i]]

LEMMA RepresentsSpells ==
  ASSUME NEW l, NEW q \in Seq(Senders)
  PROVE  WL!Represents(l, q) <=> Spells(l, q)
<1>1. Len(q) \in Nat /\ (q = <<>> <=> Len(q) = 0)
  BY EmptySeq
<1>2. ASSUME NEW i \in 1 .. Len(q)
      PROVE  /\ (i - 1 \in 1 .. Len(q)) <=> i # 1
             /\ (i + 1 \in 1 .. Len(q)) <=> i # Len(q)
  BY <1>1
<1>3. /\ (1 \in 1 .. Len(q)) <=> q # <<>>
      /\ (Len(q) \in 1 .. Len(q)) <=> q # <<>>
  BY <1>1
<1>4. QED
  BY <1>2, <1>3 DEF WL!Represents, Spells

(* Only what the line says of its members matters.                         *)
LEMMA SpellsLocal ==
  ASSUME NEW l, NEW m, NEW q \in Seq(Senders), Spells(l, q),
         m.head = l.head, m.tail = l.tail,
         \A s \in Members(q) :
           /\ m.prev[s] = l.prev[s] /\ m.next[s] = l.next[s]
           /\ m.is_popped[s] = l.is_popped[s]
  PROVE  Spells(m, q)
<1>1. \A i \in 1 .. Len(q) : q[i] \in Members(q)
  BY DEF Members
<1>2. QED
  BY <1>1 DEF Spells

LEMMA NewLinkFacts ==
  ASSUME NEW l \in ListType, NEW s \in Senders
  PROVE  LET m == WL!NewLink(l, s)
         IN  /\ m \in ListType /\ m.head = l.head /\ m.tail = l.tail
             /\ m.prev[s] = None /\ m.next[s] = None /\ ~ m.is_popped[s]
             /\ \A t \in Senders \ {s} :
                  /\ m.prev[t] = l.prev[t] /\ m.next[t] = l.next[t]
                  /\ m.is_popped[t] = l.is_popped[t]
  BY DEF WL!NewLink, ListType, SenderOrNone

LEMMA PushFacts ==
  ASSUME NEW l \in ListType, NEW q \in Seq(Senders), Spells(l, q),
         NEW s \in Senders, s \notin Members(q),
         l.prev[s] = None, l.next[s] = None, ~ l.is_popped[s]
  PROVE  /\ WL!push(l, s) \in ListType
         /\ Spells(WL!push(l, s), Append(q, s))
         /\ WL!push(l, s).is_popped = l.is_popped
<1> DEFINE m == WL!push(l, s)
           p == Append(q, s)
<1>1. /\ Len(q) \in Nat /\ (q = <<>> <=> Len(q) = 0)
      /\ \A i \in 1 .. Len(q) : q[i] \in Senders /\ q[i] # s
  BY EmptySeq, ElementOfSeq DEF Members
<1>2. /\ Len(p) = Len(q) + 1 /\ p[Len(q) + 1] = s /\ p # <<>>
      /\ \A i \in 1 .. Len(q) : p[i] = q[i]
  BY AppendFacts
<1>3. None \notin Senders
  BY ChannelAssumption
<1>4. CASE q = <<>>
  <2>1. m = [l EXCEPT !.head = s, !.tail = s]
    BY <1>4 DEF WL!push, Spells
  <2>2. m \in ListType /\ m.is_popped = l.is_popped
    BY <2>1 DEF ListType, SenderOrNone
  <2>3. m.head = s /\ m.tail = s /\ m.prev = l.prev /\ m.next = l.next
    BY <2>1 DEF ListType
  <2>4. Len(p) = 1 /\ p[1] = s
    BY <1>1, <1>2, <1>4
  <2>5. QED
    BY <1>2, <2>2, <2>3, <2>4 DEF Spells
<1>5. CASE q # <<>>
  <2>1. l.tail = q[Len(q)] /\ Len(q) \in 1 .. Len(q) /\ l.tail \in Senders
    BY <1>1, <1>5 DEF Spells
  <2>2. m = [l EXCEPT !.tail = s, !.prev[s] = l.tail, !.next[l.tail] = s]
    BY <1>3, <2>1 DEF WL!push
  <2>4. m = [head |-> l.head, tail |-> s,
             next |-> [l.next EXCEPT ![l.tail] = s],
             prev |-> [l.prev EXCEPT ![s] = l.tail],
             is_popped |-> l.is_popped]
    BY <2>2 DEF ListType
  <2>3. m \in ListType /\ m.is_popped = l.is_popped
    <3>1. [l.next EXCEPT ![l.tail] = s] \in [Senders -> SenderOrNone]
      BY DEF ListType, SenderOrNone
    <3>2. [l.prev EXCEPT ![s] = l.tail] \in [Senders -> SenderOrNone]
      BY DEF ListType, SenderOrNone
    <3>3. QED
      BY <2>4, <3>1, <3>2 DEF ListType, SenderOrNone
  <2>5. /\ m.prev[s] = l.tail /\ m.next[l.tail] = s
        /\ \A t \in Senders \ {s} : m.prev[t] = l.prev[t]
        /\ \A t \in Senders \ {l.tail} : m.next[t] = l.next[t]
    BY <2>1, <2>4 DEF ListType
  <2> HIDE DEF m, p
  <2>6. ASSUME NEW i \in 1 .. Len(p)
        PROVE  /\ m.prev[p[i]] = IF i = 1 THEN None ELSE p[i - 1]
               /\ m.next[p[i]] = IF i = Len(p) THEN None ELSE p[i + 1]
               /\ ~ m.is_popped[p[i]]
    <3>1. CASE i = Len(q) + 1
      <4>1. i # 1 /\ i - 1 = Len(q) /\ p[i] = s /\ p[i - 1] = l.tail
        BY <1>1, <1>2, <2>1, <3>1
      <4>2. m.next[s] = None
        BY <1>1, <2>1, <2>5
      <4>3. QED
        BY <1>2, <2>3, <2>5, <3>1, <4>1, <4>2
    <3>2. CASE i = Len(q)
      <4>1. /\ i \in 1 .. Len(q) /\ p[i] = q[i] /\ q[i] = l.tail
            /\ p[i + 1] = s /\ i # Len(p) /\ q[i] # s
        BY <1>1, <1>2, <2>1, <3>2
      <4>2. i # 1 => i - 1 \in 1 .. Len(q) /\ p[i - 1] = q[i - 1]
        BY <1>1, <1>2, <3>2
      <4>3. QED
        BY <1>1, <2>3, <2>5, <4>1, <4>2 DEF Spells
    <3>3. CASE i \in 1 .. Len(q) - 1
      <4>1. /\ i \in 1 .. Len(q) /\ p[i] = q[i] /\ i # Len(q)
            /\ p[i + 1] = q[i + 1] /\ i # Len(p) /\ q[i] # s
        BY <1>1, <1>2, <3>3
      <4>2. i # 1 => i - 1 \in 1 .. Len(q) /\ p[i - 1] = q[i - 1]
        BY <1>1, <1>2, <3>3
      <4>3. i + 1 \in 1 .. Len(q)
        BY <1>1, <3>3
      <4>4. l.next[q[i]] = q[i + 1] /\ q[i + 1] \in Senders
        BY <1>1, <4>1, <4>3 DEF Spells
      <4>5. l.next[l.tail] = None
        BY <2>1 DEF Spells
      <4>6. q[i] # l.tail /\ q[i] \in Senders
        BY <1>1, <1>3, <4>1, <4>4, <4>5
      <4>7. m.next[p[i]] = p[i + 1]
        BY <2>5, <4>1, <4>4, <4>6
      <4>8. m.prev[p[i]] = IF i = 1 THEN None ELSE p[i - 1]
        BY <2>5, <4>1, <4>2, <4>6 DEF Spells
      <4>9. QED
        BY <2>3, <4>1, <4>7, <4>8 DEF Spells
    <3>4. QED
      BY <1>1, <1>2, <3>1, <3>2, <3>3
  <2>7. p[1] = q[1] /\ p[Len(p)] = s
    BY <1>1, <1>2, <1>5
  <2>8. Spells(m, p)
    BY <1>2, <1>5, <2>4, <2>6, <2>7 DEF Spells
  <2>9. QED
    BY <2>3, <2>8 DEF m, p
<1>6. QED
  BY <1>4, <1>5

LEMMA PopFacts ==
  ASSUME NEW l \in ListType, NEW q \in Seq(Senders), NoRepeats(q),
         Spells(l, q), q # <<>>
  PROVE  /\ WL!pop(l) \in ListType
         /\ Spells(WL!pop(l), Tail(q))
         /\ l.head = Head(q)
         /\ WL!pop(l).is_popped = [l.is_popped EXCEPT ![l.head] = TRUE]
<1> DEFINE m == WL!pop(l)
           p == Tail(q)
<1>1. /\ Len(q) \in Nat \ {0} /\ 1 \in 1 .. Len(q)
      /\ \A i \in 1 .. Len(q) : q[i] \in Senders /\ q[i] # None
      /\ p \in Seq(Senders) /\ Len(p) = Len(q) - 1 /\ Head(q) = q[1]
      /\ \A i \in 1 .. Len(p) : p[i] = q[i + 1]
  <2>1. Len(q) \in Nat \ {0} /\ \A i \in 1 .. Len(q) : q[i] \in Senders
    BY EmptySeq, ElementOfSeq
  <2>2. QED
    BY <2>1, TailFacts, ChannelAssumption
<1>2. /\ l.head = q[1] /\ l.tail = q[Len(q)] /\ l.head \in Senders
      /\ l.next[l.head] = IF Len(q) = 1 THEN None ELSE q[2]
  <2>1. l.head = q[1] /\ l.tail = q[Len(q)]
    BY DEF Spells
  <2>2. l.next[q[1]] = IF 1 = Len(q) THEN None ELSE q[1 + 1]
    BY <1>1, Zenon DEF Spells
  <2>3. QED
    BY <1>1, <2>1, <2>2
<1>3. PICK second \in SenderOrNone : second = l.next[l.head]
  BY <1>2 DEF ListType, SenderOrNone
<1>0. PICK yes \in BOOLEAN : yes = TRUE
  OBVIOUS
<1> DEFINE f == WL!Store(WL!Store(l.prev, second, None), l.head, None)
<1>4. m = [head |-> second,
           tail |-> IF l.head = l.tail THEN None ELSE l.tail,
           next |-> [l.next EXCEPT ![l.head] = None],
           prev |-> f,
           is_popped |-> [l.is_popped EXCEPT ![l.head] = yes]]
  <2>1. m = [l EXCEPT
               !.head = second,
               !.tail = IF l.head = l.tail THEN None ELSE @,
               !.next[l.head] = None,
               !.prev = WL!Store(WL!Store(@, second, None), l.head, None),
               !.is_popped[l.head] = yes]
    BY <1>0, <1>3, Zenon DEF WL!pop
  <2> HIDE DEF m
  <2>2. QED
    BY <2>1 DEF ListType
<1> HIDE DEF m, p
<1>5. /\ f \in [Senders -> SenderOrNone]
      /\ \A t \in Senders :
           f[t] = IF t = second \/ t = l.head THEN None ELSE l.prev[t]
  <2>1. PICK g \in [Senders -> SenderOrNone] :
          /\ g = WL!Store(l.prev, second, None)
          /\ \A t \in Senders :
               g[t] = IF t = second THEN None ELSE l.prev[t]
    <3>1. CASE second = None
      BY <3>1, ChannelAssumption DEF WL!Store, ListType, SenderOrNone
    <3>2. CASE second # None
      <4>1. WL!Store(l.prev, second, None) =
              [l.prev EXCEPT ![second] = None]
        BY <3>2 DEF WL!Store
      <4>2. QED
        BY <4>1 DEF ListType, SenderOrNone
    <3>3. QED
      BY <3>1, <3>2
  <2>2. f = [g EXCEPT ![l.head] = None]
    BY <1>1, <1>2, <2>1 DEF WL!Store
  <2>3. QED
    BY <1>2, <2>1, <2>2 DEF SenderOrNone
<1> HIDE DEF f
<1>7. /\ m \in ListType
      /\ m.is_popped = [l.is_popped EXCEPT ![l.head] = TRUE]
  <2>1. [l.next EXCEPT ![l.head] = None] \in [Senders -> SenderOrNone]
    BY DEF ListType, SenderOrNone
  <2>2. [l.is_popped EXCEPT ![l.head] = yes] \in [Senders -> BOOLEAN]
    BY DEF ListType
  <2>3. l.tail \in SenderOrNone /\ None \in SenderOrNone
    BY DEF ListType, SenderOrNone
  <2>4. m \in ListType
    BY <1>4, <1>5, <2>1, <2>2, <2>3 DEF ListType
  <2>5. m.is_popped = [l.is_popped EXCEPT ![l.head] = yes]
    BY <1>4
  <2>6. QED
    BY <1>0, <2>4, <2>5, Zenon
<1>8. CASE Len(q) = 1
  <2>1. m.head = None /\ m.tail = None /\ Len(p) = 0
    BY <1>1, <1>2, <1>3, <1>4, <1>8
  <2>2. p = <<>>
    BY <1>1, <2>1, EmptySeq
  <2>3. \A i \in 1 .. Len(p) : FALSE
    BY <2>1
  <2>4. Spells(m, p)
    BY <2>1, <2>2, <2>3 DEF Spells
  <2>5. QED
    BY <1>1, <1>2, <1>7, <2>4, Zenon DEF m, p
<1>9. CASE Len(q) # 1
  <2>1. /\ 2 \in 1 .. Len(q) /\ Len(q) \in 1 .. Len(q)
        /\ Len(p) \in Nat \ {0}
        /\ \A i \in 1 .. Len(p) : i + 1 \in 1 .. Len(q) /\ i + 1 # 1
    BY <1>1, <1>9
  <2>2. second = q[2] /\ l.head # l.tail /\ p[1] = q[2]
    BY <1>1, <1>2, <1>3, <1>9, <2>1 DEF NoRepeats
  <2>3. /\ m.head = p[1] /\ m.tail = p[Len(p)] /\ p # <<>>
    BY <1>1, <1>2, <1>4, <2>1, <2>2
  <2>4. ASSUME NEW i \in 1 .. Len(p)
        PROVE  /\ m.prev[p[i]] = IF i = 1 THEN None ELSE p[i - 1]
               /\ m.next[p[i]] = IF i = Len(p) THEN None ELSE p[i + 1]
               /\ ~ m.is_popped[p[i]]
    <3>1. /\ p[i] = q[i + 1] /\ p[i] \in Senders /\ p[i] # l.head
          /\ ~ l.is_popped[p[i]]
          /\ l.next[p[i]] =
               IF i + 1 = Len(q) THEN None ELSE q[(i + 1) + 1]
          /\ l.prev[p[i]] = IF i + 1 = 1 THEN None ELSE q[(i + 1) - 1]
      BY <1>1, <1>2, <2>1 DEF Spells, NoRepeats
    <3>2. ~ m.is_popped[p[i]]
      BY <1>7, <3>1 DEF ListType
    <3>3. m.next[p[i]] = l.next[p[i]]
      BY <1>4, <3>1 DEF ListType
    <3>4. m.next[p[i]] = IF i = Len(p) THEN None ELSE p[i + 1]
      <4>1. i # Len(p) => p[i + 1] = q[(i + 1) + 1]
        BY <1>1
      <4>2. i + 1 = Len(q) <=> i = Len(p)
        BY <1>1
      <4>3. QED
        BY <3>1, <3>3, <4>1, <4>2
    <3>5. m.prev[p[i]] = IF i = 1 THEN None ELSE p[i - 1]
      <4>1. m.prev[p[i]] = IF p[i] = q[2] THEN None ELSE l.prev[p[i]]
        BY <1>4, <1>5, <2>2, <3>1
      <4>2. p[i] = q[2] <=> i = 1
        BY <1>1, <2>1, <3>1 DEF NoRepeats
      <4>3. i # 1 => p[i - 1] = q[i] /\ (i + 1) - 1 = i
        BY <1>1
      <4>4. QED
        BY <2>1, <3>1, <4>1, <4>2, <4>3
    <3>6. QED
      BY <3>2, <3>4, <3>5
  <2>5. Spells(m, p)
    BY <2>3, <2>4 DEF Spells
  <2>6. QED
    BY <1>1, <1>2, <1>7, <2>5, Zenon DEF m, p
<1>10. QED
  BY <1>8, <1>9

(* A link that has been popped before is left as it is.                    *)
LEMMA RemovePopped ==
  ASSUME NEW l, NEW s, l.is_popped[s]
  PROVE  WL!remove_from_list(l, s) = l
  BY DEF WL!remove_from_list

(* The link in place k is s, between p and n.                              *)
Between(q, k, p, s, n) ==
  /\ s = q[k]
  /\ p = IF k = 1 THEN None ELSE q[k - 1]
  /\ n = IF k = Len(q) THEN None ELSE q[k + 1]

Removed(l, q, k, p, s, n, popped) ==
  [head |-> IF k = 1 THEN n ELSE l.head,
   tail |-> IF k = Len(q) THEN p ELSE l.tail,
   next |-> WL!Store(l.next, p, n),
   prev |-> WL!Store(l.prev, n, p),
   is_popped |-> [l.is_popped EXCEPT ![s] = popped]]

(* The four cases amount to this.                                          *)
LEMMA RemoveIs ==
  ASSUME NEW l \in ListType, NEW q \in Seq(Senders), Spells(l, q),
         NEW k \in 1 .. Len(q), NoRepeats(q),
         NEW s \in Senders, NEW p, NEW n, Between(q, k, p, s, n)
  PROVE  WL!remove_from_list(l, s) = Removed(l, q, k, p, s, n, TRUE)
<1>0. PICK yes \in BOOLEAN : yes = TRUE
  OBVIOUS
<1>1. /\ Len(q) \in Nat
      /\ \A i \in 1 .. Len(q) : q[i] \in Senders /\ q[i] # None
  BY ElementOfSeq, ChannelAssumption
<1>2. l.prev[s] = p /\ l.next[s] = n /\ ~ l.is_popped[s]
  BY DEF Spells, Between
<1>3. (p = None <=> k = 1) /\ (n = None <=> k = Len(q))
  BY <1>1 DEF Between
<1>4. q # <<>> /\ l.head = q[1] /\ l.tail = q[Len(q)]
  BY <1>1, EmptySeq DEF Spells
<1>5. [l EXCEPT !.is_popped[s] = yes] =
        [head |-> l.head, tail |-> l.tail, next |-> l.next, prev |-> l.prev,
         is_popped |-> [l.is_popped EXCEPT ![s] = yes]]
  BY DEF ListType
<1> DEFINE marked == [l.is_popped EXCEPT ![s] = yes]
           popped == [head |-> l.head, tail |-> l.tail, next |-> l.next,
                      prev |-> l.prev, is_popped |-> marked]
           removed == [head |-> l.head, tail |-> l.tail,
                       next |-> WL!Store(l.next, p, n),
                       prev |-> WL!Store(l.prev, n, p),
                       is_popped |-> marked]
           result == Removed(l, q, k, p, s, n, yes)
<1> HIDE DEF marked
<1>6. [popped EXCEPT !.prev = WL!Store(@, n, p),
                     !.next = WL!Store(@, p, n)] = removed
  <2>1. PICK r \in ListType : r = popped
    <3>1. marked \in [Senders -> BOOLEAN]
      BY DEF marked, ListType
    <3>2. QED
      BY <3>1 DEF ListType
  <2>2. PICK a, b : a = WL!Store(l.prev, n, p) /\ b = WL!Store(l.next, p, n)
    OBVIOUS
  <2>3. PICK m : m = [r EXCEPT !.prev = a, !.next = b]
    OBVIOUS
  <2> HIDE DEF popped, removed, result
  <2>4. m = [head |-> r.head, tail |-> r.tail, next |-> b, prev |-> a,
             is_popped |-> r.is_popped]
    BY <2>3 DEF ListType
  <2>5. /\ r.head = l.head /\ r.tail = l.tail /\ r.next = l.next
        /\ r.prev = l.prev /\ r.is_popped = marked
    BY <2>1 DEF popped
  <2>6. QED
    BY <2>1, <2>2, <2>3, <2>4, <2>5, Zenon DEF removed
<1> HIDE DEF popped, removed, result
<1>7. WL!remove_from_list(l, s) =
        CASE l.is_popped[s] -> l
          [] ~ l.is_popped[s] /\ p = None /\ n = None ->
               IF s = l.head
               THEN [popped EXCEPT !.head = None, !.tail = None]
               ELSE popped
          [] ~ l.is_popped[s] /\ p = None /\ n # None ->
               [removed EXCEPT !.head = n]
          [] ~ l.is_popped[s] /\ p # None /\ n = None ->
               [removed EXCEPT !.tail = p]
          [] OTHER -> removed
  BY <1>0, <1>2, <1>5, <1>6, Zenon
  DEF WL!remove_from_list, popped, marked
<1>8. WL!remove_from_list(l, s) = result
  <2>1. CASE p = None /\ n = None
    <3>1. s = l.head
      BY <1>3, <1>4, <2>1 DEF Between
    <3>2. WL!remove_from_list(l, s) =
            [popped EXCEPT !.head = None, !.tail = None]
      BY <1>2, <1>7, <2>1, <3>1
    <3>3. WL!Store(l.next, p, n) = l.next /\ WL!Store(l.prev, n, p) = l.prev
      BY <2>1 DEF WL!Store
    <3>4. QED
      BY <1>3, <2>1, <3>2, <3>3 DEF popped, marked, Removed, result
  <2>2. CASE p = None /\ n # None
    <3>1. WL!remove_from_list(l, s) = [removed EXCEPT !.head = n]
      BY <1>2, <1>7, <2>2
    <3>2. QED
      BY <1>3, <2>2, <3>1 DEF removed, marked, Removed, result
  <2>3. CASE p # None /\ n = None
    <3>1. WL!remove_from_list(l, s) = [removed EXCEPT !.tail = p]
      BY <1>2, <1>7, <2>3
    <3>2. QED
      BY <1>3, <2>3, <3>1 DEF removed, marked, Removed, result
  <2>4. CASE p # None /\ n # None
    <3>1. WL!remove_from_list(l, s) = removed
      BY <1>2, <1>7, <2>4
    <3>2. QED
      BY <1>3, <2>4, <3>1 DEF removed, marked, Removed, result
  <2>5. QED
    BY <2>1, <2>2, <2>3, <2>4
<1>9. QED
  BY <1>0, <1>8, Zenon DEF result

(* g is f, with v at k if k is not null.                                   *)
Stored(g, f, k, v) ==
  /\ g \in [Senders -> SenderOrNone]
  /\ \A t \in Senders : g[t] = IF t = k THEN v ELSE f[t]

LEMMA StoreFacts ==
  ASSUME NEW f \in [Senders -> SenderOrNone], NEW k \in SenderOrNone,
         NEW v \in SenderOrNone
  PROVE  Stored(WL!Store(f, k, v), f, k, v)
<1>1. CASE k = None
  BY <1>1, ChannelAssumption DEF WL!Store, SenderOrNone, Stored
<1>2. CASE k # None
  <2>1. WL!Store(f, k, v) = [f EXCEPT ![k] = v]
    BY <1>2 DEF WL!Store
  <2>2. QED
    BY <2>1 DEF SenderOrNone, Stored
<1>3. QED
  BY <1>1, <1>2

LEMMA RemoveFacts ==
  ASSUME NEW l \in ListType, NEW q \in Seq(Senders), Spells(l, q),
         NEW k \in 1 .. Len(q), NoRepeats(q)
  PROVE  LET m == WL!remove_from_list(l, q[k])
             rest == SubSeq(q, 1, k - 1) \o SubSeq(q, k + 1, Len(q))
         IN  /\ m \in ListType
             /\ Spells(m, rest)
             /\ m.is_popped = [l.is_popped EXCEPT ![q[k]] = TRUE]
<1> DEFINE m == WL!remove_from_list(l, q[k])
           rest == SubSeq(q, 1, k - 1) \o SubSeq(q, k + 1, Len(q))
<1>0. PICK yes \in BOOLEAN : yes = TRUE
  OBVIOUS
<1>1. /\ Len(q) \in Nat /\ k \in Nat
      /\ \A i \in 1 .. Len(q) : q[i] \in Senders /\ q[i] # None
  BY ElementOfSeq, ChannelAssumption
<1>2. PICK s \in Senders : s = q[k]
  BY <1>1
<1>3. PICK p \in SenderOrNone : p = IF k = 1 THEN None ELSE q[k - 1]
  BY <1>1 DEF SenderOrNone
<1>4. PICK n \in SenderOrNone : n = IF k = Len(q) THEN None ELSE q[k + 1]
  BY <1>1 DEF SenderOrNone
<1>5. m = [head |-> IF k = 1 THEN n ELSE l.head,
           tail |-> IF k = Len(q) THEN p ELSE l.tail,
           next |-> WL!Store(l.next, p, n),
           prev |-> WL!Store(l.prev, n, p),
           is_popped |-> [l.is_popped EXCEPT ![s] = yes]]
  <2>1. Between(q, k, p, s, n)
    BY <1>2, <1>3, <1>4 DEF Between
  <2>2. WL!remove_from_list(l, s) = Removed(l, q, k, p, s, n, TRUE)
    BY <2>1, RemoveIs, Zenon
  <2>3. QED
    BY <1>0, <1>2, <2>2, Zenon DEF Removed
<1> HIDE DEF m, rest
<1>6. /\ WL!Store(l.next, p, n) \in [Senders -> SenderOrNone]
      /\ \A t \in Senders :
           WL!Store(l.next, p, n)[t] = IF t = p THEN n ELSE l.next[t]
      /\ WL!Store(l.prev, n, p) \in [Senders -> SenderOrNone]
      /\ \A t \in Senders :
           WL!Store(l.prev, n, p)[t] = IF t = n THEN p ELSE l.prev[t]
  <2>1. /\ l.next \in [Senders -> SenderOrNone]
        /\ l.prev \in [Senders -> SenderOrNone]
    BY DEF ListType
  <2>2. Stored(WL!Store(l.next, p, n), l.next, p, n)
    BY <2>1, StoreFacts, Zenon
  <2>3. Stored(WL!Store(l.prev, n, p), l.prev, n, p)
    BY <2>1, StoreFacts, Zenon
  <2>4. QED
    BY <2>2, <2>3, Zenon DEF Stored
<1>7. m \in ListType
  <2>1. [l.is_popped EXCEPT ![s] = yes] \in [Senders -> BOOLEAN]
    BY DEF ListType
  <2>2. l.head \in SenderOrNone /\ l.tail \in SenderOrNone
    BY DEF ListType
  <2>3. QED
    BY <1>5, <1>6, <2>1, <2>2 DEF ListType
<1>8. m.is_popped = [l.is_popped EXCEPT ![q[k]] = TRUE]
  <2>1. m.is_popped = [l.is_popped EXCEPT ![s] = yes]
    BY <1>5
  <2>2. QED
    BY <1>0, <1>2, <2>1, Zenon
<1>9. /\ rest \in Seq(Senders) /\ Len(rest) = Len(q) - 1
      /\ \A i \in 1 .. k - 1 : rest[i] = q[i]
      /\ \A i \in k .. Len(q) - 1 : rest[i] = q[i + 1]
  BY LeaveFacts, Zenon DEF rest
<1>10. rest = <<>> => m.head = None /\ m.tail = None
  <2>1. ASSUME rest = <<>>
        PROVE  Len(q) = 1 /\ k = 1
    <3>1. Len(rest) = 0
      BY <2>1, EmptySeq
    <3>2. Len(q) = 1
      BY <1>1, <1>9, <3>1
    <3>3. QED
      BY <3>2
  <2>2. QED
    BY <1>3, <1>4, <1>5, <2>1
<1>11. rest # <<>> => m.head = rest[1] /\ m.tail = rest[Len(rest)]
  <2> SUFFICES ASSUME rest # <<>>
               PROVE  m.head = rest[1] /\ m.tail = rest[Len(rest)]
    OBVIOUS
  <2>1. Len(q) \in Nat /\ Len(q) > 1 /\ q # <<>>
    BY <1>1, <1>9, EmptySeq
  <2>2. l.head = q[1] /\ l.tail = q[Len(q)]
    BY <2>1 DEF Spells
  <2>3. m.head = rest[1]
    <3>1. CASE k = 1
      <4>1. 1 \in k .. Len(q) - 1 /\ k # Len(q)
        BY <1>1, <2>1, <3>1
      <4>2. QED
        BY <1>4, <1>5, <1>9, <3>1, <4>1
    <3>2. CASE k # 1
      <4>1. 1 \in 1 .. k - 1
        BY <1>1, <3>2
      <4>2. QED
        BY <1>5, <1>9, <2>2, <3>2, <4>1
    <3>3. QED
      BY <3>1, <3>2
  <2>4. m.tail = rest[Len(rest)]
    <3>1. CASE k = Len(q)
      <4>1. Len(rest) \in 1 .. k - 1 /\ Len(rest) = k - 1 /\ k # 1
        BY <1>1, <1>9, <2>1, <3>1
      <4>2. QED
        BY <1>3, <1>5, <1>9, <3>1, <4>1
    <3>2. CASE k # Len(q)
      <4>1. Len(rest) \in k .. Len(q) - 1 /\ Len(rest) + 1 = Len(q)
        BY <1>1, <1>9, <3>2
      <4>2. QED
        BY <1>5, <1>9, <2>2, <3>2, <4>1
    <3>3. QED
      BY <3>1, <3>2
  <2>5. QED
    BY <2>3, <2>4
<1>12. ASSUME NEW i \in 1 .. Len(rest)
       PROVE  /\ m.prev[rest[i]] = IF i = 1 THEN None ELSE rest[i - 1]
              /\ m.next[rest[i]] =
                   IF i = Len(rest) THEN None ELSE rest[i + 1]
              /\ ~ m.is_popped[rest[i]]
  (* j is where the i-th one stood before.                                 *)
  <2>1. PICK j \in Int : j = IF i < k THEN i ELSE i + 1
    BY <1>1, <1>9
  <2>2. /\ j \in 1 .. Len(q) /\ j # k /\ rest[i] = q[j]
        /\ q[j] # s /\ q[j] \in Senders
    <3>1. j \in 1 .. Len(q) /\ j # k
      BY <1>1, <1>9, <2>1
    <3>2. rest[i] = q[j]
      <4>1. CASE i < k
        BY <1>1, <1>9, <2>1, <4>1
      <4>2. CASE ~ (i < k)
        <5>1. i \in k .. Len(q) - 1
          BY <1>1, <1>9, <4>2
        <5>2. QED
          BY <1>9, <2>1, <4>2, <5>1
      <4>3. QED
        BY <4>1, <4>2
    <3>3. QED
      BY <1>1, <1>2, <3>1, <3>2 DEF NoRepeats
  <2>3. /\ l.prev[q[j]] = IF j = 1 THEN None ELSE q[j - 1]
        /\ l.next[q[j]] = IF j = Len(q) THEN None ELSE q[j + 1]
        /\ ~ l.is_popped[q[j]]
    BY <2>2 DEF Spells
  <2>4. ~ m.is_popped[rest[i]]
    BY <1>5, <2>2, <2>3 DEF ListType
  <2>5. m.prev[rest[i]] = IF i = 1 THEN None ELSE rest[i - 1]
    <3>1. m.prev[rest[i]] = IF q[j] = n THEN p ELSE l.prev[q[j]]
      BY <1>5, <1>6, <2>2
    <3>2. CASE j = k + 1
      <4>1. /\ i = k /\ k # Len(q) /\ q[j] = n
            /\ k # 1 => i - 1 \in 1 .. k - 1 /\ i - 1 = k - 1
        BY <1>1, <1>4, <1>9, <2>1, <2>2, <3>2
      <4>2. QED
        BY <1>3, <1>9, <3>1, <4>1
    <3>3. CASE j # k + 1
      <4>1. q[j] # n
        <5>1. CASE k = Len(q)
          BY <1>1, <1>4, <2>2, <5>1
        <5>2. CASE k # Len(q)
          <6>1. k + 1 \in 1 .. Len(q) /\ n = q[k + 1]
            BY <1>1, <1>4, <5>2
          <6>2. QED
            BY <2>2, <3>3, <6>1 DEF NoRepeats
        <5>3. QED
          BY <5>1, <5>2
      <4>2. i = 1 <=> j = 1
        BY <1>1, <1>9, <2>1, <3>3
      <4>3. i # 1 => rest[i - 1] = q[j - 1]
        <5>1. CASE i < k
          BY <1>1, <1>9, <2>1, <5>1
        <5>2. CASE ~ (i < k)
          <6>1. i - 1 \in k .. Len(q) - 1 /\ (i - 1) + 1 = j - 1
            BY <1>1, <1>9, <2>1, <3>3, <5>2
          <6>2. QED
            BY <1>9, <6>1
        <5>3. QED
          BY <5>1, <5>2
      <4>4. QED
        BY <2>3, <3>1, <4>1, <4>2, <4>3
    <3>4. QED
      BY <3>2, <3>3
  <2>6. m.next[rest[i]] = IF i = Len(rest) THEN None ELSE rest[i + 1]
    <3>1. m.next[rest[i]] = IF q[j] = p THEN n ELSE l.next[q[j]]
      BY <1>5, <1>6, <2>2
    <3>2. CASE j = k - 1
      <4>1. /\ i = k - 1 /\ k # 1 /\ q[j] = p
            /\ i = Len(rest) <=> k = Len(q)
            /\ k # Len(q) => i + 1 \in k .. Len(q) - 1 /\ i + 1 = k
        BY <1>1, <1>3, <1>9, <2>1, <2>2, <3>2
      <4>2. QED
        BY <1>4, <1>9, <3>1, <4>1
    <3>3. CASE j # k - 1
      <4>1. q[j] # p
        <5>1. CASE k = 1
          BY <1>1, <1>3, <2>2, <5>1
        <5>2. CASE k # 1
          <6>1. k - 1 \in 1 .. Len(q) /\ p = q[k - 1]
            BY <1>1, <1>3, <5>2
          <6>2. QED
            BY <2>2, <3>3, <6>1 DEF NoRepeats
        <5>3. QED
          BY <5>1, <5>2
      <4>2. i = Len(rest) <=> j = Len(q)
        BY <1>1, <1>9, <2>1, <2>2, <3>3
      <4>3. i # Len(rest) => rest[i + 1] = q[j + 1]
        <5>1. CASE i < k
          <6>1. i + 1 \in 1 .. k - 1 /\ j = i
            BY <1>1, <1>9, <2>1, <2>2, <3>3, <5>1
          <6>2. QED
            BY <1>9, <6>1
        <5>2. CASE ~ (i < k) /\ i # Len(rest)
          <6>1. i + 1 \in k .. Len(q) - 1 /\ (i + 1) + 1 = j + 1
            BY <1>1, <1>9, <2>1, <5>2
          <6>2. QED
            BY <1>9, <6>1
        <5>3. QED
          BY <5>1, <5>2
      <4>4. QED
        BY <2>3, <3>1, <4>1, <4>2, <4>3
    <3>4. QED
      BY <3>2, <3>3
  <2>7. QED
    BY <2>4, <2>5, <2>6
<1>13. Spells(m, rest)
  BY <1>10, <1>11, <1>12 DEF Spells
<1>14. QED
  BY <1>7, <1>8, <1>13, Zenon DEF m, rest

-----------------------------------------------------------------------------
(* The inductive invariant.                                                *)

SenderType ==
  [pc : {"unborn", "idle", "try_open", "try_slot", "pending", "unlink",
         "giveback", "write", "push", "wake", "last_wake", "gone"},
   slot : SlotOrNone, link : BOOLEAN, granted : SlotOrNone,
   woken : BOOLEAN, sent : 0 .. MaxSent]

ReceiverType ==
  [pc : {"idle", "pop", "read", "return", "closed", "pending", "drain",
         "dismiss", "dismiss_wake", "gone"},
   slot : SlotOrNone, val : Messages \cup {None},
   waker : Senders \cup {None}, async : BOOLEAN, woken : BOOLEAN]

Types ==
  /\ freeq \in Seq(Slots) /\ readyq \in Seq(Slots)
  /\ slots \in [Slots -> Messages \cup {None}]
  /\ receiver_dropped \in BOOLEAN /\ receiver_waker \in BOOLEAN
  /\ tx \in [Senders -> SenderType]
  /\ rx \in ReceiverType
  /\ list \in ListType /\ waiting \in Seq(Senders)

(* num_senders counts the handles that have not been dropped.              *)
Alive(t) == {s \in Senders : t[s].pc \notin {"unborn", "last_wake", "gone"}}

Counted == num_senders = Cardinality(Alive(tx))

(* What the locals of a sender are at each of its steps.                   *)
SenderOK(r, popped) ==
  /\ r.link <=> r.pc \in {"pending", "unlink"}
  /\ r.slot # None <=> r.pc \in {"write", "push"}
  /\ r.granted # None => r.pc = "giveback" \/ (r.link /\ popped)
  /\ r.pc = "giveback" => r.granted # None
  /\ r.pc \in {"try_open", "try_slot", "pending", "write", "push"} =>
       r.sent < MaxSent

ReceiverOK ==
  /\ rx.slot # None <=> rx.pc \in {"read", "return"}
  /\ rx.waker # None <=> rx.pc = "dismiss_wake"
  /\ rx.pc = "pending" => rx.async
  /\ receiver_dropped <=>
       rx.pc \in {"drain", "dismiss", "dismiss_wake", "gone"}

Locals ==
  /\ \A s \in Senders : SenderOK(tx[s], list.is_popped[s])
  /\ ReceiverOK

Line ==
  /\ NoRepeats(waiting) /\ Spells(list, waiting)
  /\ \A s \in Senders :
       s \in Members(waiting) <=> tx[s].link /\ ~ list.is_popped[s]

(* The places where a slot may be, and the slots that are there.           *)
PlaceNames ==
  ({"free", "ready", "receiver"} \X {None})
    \cup ({"given", "sender"} \X Senders)

Content(f, r, t, x) ==
  [p \in PlaceNames |->
     CASE p[1] = "free" -> Members(f)
       [] p[1] = "ready" -> Members(r)
       [] p[1] = "receiver" -> {x.slot} \ {None}
       [] p[1] = "given" -> {t[p[2]].granted} \ {None}
       [] p[1] = "sender" -> {t[p[2]].slot} \ {None}]

Disjoint(P, c) == \A p, q \in P : p # q => c[p] \cap c[q] = {}

SlotsPlaced ==
  /\ NoRepeats(freeq) /\ NoRepeats(readyq)
  /\ Disjoint(PlaceNames, Content(freeq, readyq, tx, rx))
  /\ ~ receiver_dropped =>
       \A i \in Slots : \E p \in PlaceNames :
         i \in Content(freeq, readyq, tx, rx)[p]

(* Who has been woken, or is going to be.  A receiver that has registered  *)
(* is told of what happens after its look at the ready queue.              *)
Waking(t) == \E s \in Senders : t[s].pc \in {"wake", "last_wake"}

Wakes ==
  /\ waiting # <<>> => freeq = <<>>
  /\ \A s \in Senders :
       tx[s].pc = "pending" /\ list.is_popped[s]
         => tx[s].woken \/ rx.waker = s
  /\ rx.async => receiver_waker \/ rx.woken
  /\ rx.async /\ \/ rx.pc \in {"closed", "pending"} /\ readyq # <<>>
                 \/ rx.pc = "pending" /\ num_senders = 0
       => rx.woken \/ (receiver_waker /\ Waking(tx))

IInv ==
  /\ Types /\ Counted /\ Locals /\ Line /\ SlotsPlaced /\ Wakes

-----------------------------------------------------------------------------
(* Slots in their places.                                                  *)

LEMMA PlaceFacts ==
  /\ <<"free", None>> \in PlaceNames /\ <<"ready", None>> \in PlaceNames
  /\ <<"receiver", None>> \in PlaceNames
  /\ \A s \in Senders : <<"given", s>> \in PlaceNames
  /\ \A s \in Senders : <<"sender", s>> \in PlaceNames
  /\ \A p \in PlaceNames :
       \/ p = <<"free", None>> \/ p = <<"ready", None>>
       \/ p = <<"receiver", None>>
       \/ \E s \in Senders : p = <<"given", s>>
       \/ \E s \in Senders : p = <<"sender", s>>
<1>1. ASSUME NEW p \in PlaceNames
      PROVE  \/ p = <<"free", None>> \/ p = <<"ready", None>>
             \/ p = <<"receiver", None>>
             \/ \E s \in Senders : p = <<"given", s>>
             \/ \E s \in Senders : p = <<"sender", s>>
  <2>1. CASE p \in {"free", "ready", "receiver"} \X {None}
    <3>1. p = <<p[1], None>> /\ p[1] \in {"free", "ready", "receiver"}
      BY <2>1
    <3>2. QED
      BY <3>1, Zenon
  <2>2. CASE p \in {"given", "sender"} \X Senders
    <3>1. /\ p = <<p[1], p[2]>> /\ p[1] \in {"given", "sender"}
          /\ p[2] \in Senders
      BY <2>2
    <3>2. QED
      BY <3>1, Zenon
  <2>3. QED
    BY <2>1, <2>2 DEF PlaceNames
<1>2. QED
  BY <1>1 DEF PlaceNames

(* Content, place by place.                                                *)
Holds(c, f, r, t, x) ==
  /\ c[<<"free", None>>] = Members(f)
  /\ c[<<"ready", None>>] = Members(r)
  /\ c[<<"receiver", None>>] = {x.slot} \ {None}
  /\ \A s \in Senders : c[<<"given", s>>] = {t[s].granted} \ {None}
  /\ \A s \in Senders : c[<<"sender", s>>] = {t[s].slot} \ {None}

LEMMA ContentFacts ==
  ASSUME NEW f, NEW r, NEW t, NEW x
  PROVE  Holds(Content(f, r, t, x), f, r, t, x)
<1> DEFINE c == Content(f, r, t, x)
<1>1. c[<<"free", None>>] = Members(f)
  BY PlaceFacts DEF Content
<1>2. c[<<"ready", None>>] = Members(r)
  BY PlaceFacts DEF Content
<1>3. c[<<"receiver", None>>] = {x.slot} \ {None}
  BY PlaceFacts DEF Content
<1>4. ASSUME NEW s \in Senders
      PROVE  c[<<"given", s>>] = {t[s].granted} \ {None}
  BY PlaceFacts DEF Content
<1>5. ASSUME NEW s \in Senders
      PROVE  c[<<"sender", s>>] = {t[s].slot} \ {None}
  BY PlaceFacts DEF Content
<1>6. QED
  BY <1>1, <1>2, <1>3, <1>4, <1>5, Zenon DEF Holds

(* One slot goes from a to b and everything else stays.                    *)
Moves(i, a, b, c, d) ==
  /\ a \in PlaceNames /\ b \in PlaceNames /\ a # b /\ i \in c[a]
  /\ d[a] = c[a] \ {i} /\ d[b] = c[b] \cup {i}
  /\ \A p \in PlaceNames \ {a, b} : d[p] = c[p]

LEMMA MoveKeeps ==
  ASSUME NEW c, NEW d, NEW a, NEW b, NEW i, Moves(i, a, b, c, d),
         Disjoint(PlaceNames, c)
  PROVE  /\ Disjoint(PlaceNames, d)
         /\ \A j : (\E p \in PlaceNames : j \in c[p])
                     => \E p \in PlaceNames : j \in d[p]
<1>1. ASSUME NEW p \in PlaceNames, NEW q \in PlaceNames, p # q
      PROVE  d[p] \cap d[q] = {}
  <2>1. ASSUME NEW j, j \in d[p], j \in d[q]
        PROVE  FALSE
    <3>1. CASE j = i
      <4>1. \A r \in PlaceNames \ {a} : i \notin c[r]
        BY DEF Disjoint, Moves
      <4>2. \A r \in PlaceNames \ {b} : i \notin d[r]
        BY <4>1 DEF Moves
      <4>3. QED
        BY <1>1, <2>1, <3>1, <4>2
    <3>2. CASE j # i
      <4>1. \A r \in PlaceNames : j \in d[r] => j \in c[r]
        BY <3>2 DEF Moves
      <4>2. QED
        BY <1>1, <2>1, <4>1 DEF Disjoint
    <3>3. QED
      BY <3>1, <3>2
  <2>2. QED
    BY <2>1
<1>2. ASSUME NEW j, NEW p \in PlaceNames, j \in c[p]
      PROVE  \E q \in PlaceNames : j \in d[q]
  <2>1. CASE j = i
    BY <2>1 DEF Moves
  <2>2. CASE j # i
    BY <1>2, <2>2 DEF Moves
  <2>3. QED
    BY <2>1, <2>2
<1>3. QED
  BY <1>1, <1>2 DEF Disjoint

(* Nothing new is anywhere.                                                *)
LEMMA FewerKeeps ==
  ASSUME NEW c, NEW d, Disjoint(PlaceNames, c),
         \A p \in PlaceNames : d[p] \subseteq c[p]
  PROVE  Disjoint(PlaceNames, d)
  BY DEF Disjoint

(* The two ways in which a step treats the slots.                          *)
LEMMA SlotsMoved ==
  ASSUME SlotsPlaced, NoRepeats(freeq'), NoRepeats(readyq'),
         receiver_dropped' = receiver_dropped,
         NEW i, NEW a, NEW b,
         Moves(i, a, b, Content(freeq, readyq, tx, rx),
                        Content(freeq', readyq', tx', rx'))
  PROVE  SlotsPlaced'
<1>1. /\ Disjoint(PlaceNames, Content(freeq', readyq', tx', rx'))
      /\ \A j : (\E p \in PlaceNames : j \in Content(freeq, readyq, tx, rx)[p])
           => \E p \in PlaceNames : j \in Content(freeq', readyq', tx', rx')[p]
  BY MoveKeeps, Zenon DEF SlotsPlaced
<1>2. QED
  BY <1>1 DEF SlotsPlaced

LEMMA SlotsKept ==
  ASSUME SlotsPlaced, UNCHANGED <<freeq, readyq>>, rx'.slot = rx.slot,
         \A s \in Senders :
           tx'[s].slot = tx[s].slot /\ tx'[s].granted = tx[s].granted,
         ~ receiver_dropped' => ~ receiver_dropped
  PROVE  SlotsPlaced'
<1>1. ASSUME NEW p \in PlaceNames
      PROVE  Content(freeq', readyq', tx', rx')[p] =
               Content(freeq, readyq, tx, rx)[p]
  <2>1. PICK c : c = Content(freeq, readyq, tx, rx)
    OBVIOUS
  <2>2. PICK d : d = Content(freeq', readyq', tx', rx')
    OBVIOUS
  <2>3. Holds(c, freeq, readyq, tx, rx) /\ Holds(d, freeq', readyq', tx', rx')
    BY <2>1, <2>2, ContentFacts, Zenon
  <2>4. d[p] = c[p]
    <3>1. CASE p \in {<<"free", None>>, <<"ready", None>>,
                        <<"receiver", None>>}
      BY <2>3, <3>1 DEF Holds
    <3>2. ASSUME NEW s \in Senders
          PROVE  /\ d[<<"given", s>>] = c[<<"given", s>>]
                 /\ d[<<"sender", s>>] = c[<<"sender", s>>]
      <4>1. /\ c[<<"given", s>>] = {tx[s].granted} \ {None}
            /\ c[<<"sender", s>>] = {tx[s].slot} \ {None}
            /\ d[<<"given", s>>] = {tx'[s].granted} \ {None}
            /\ d[<<"sender", s>>] = {tx'[s].slot} \ {None}
        BY <2>3, Zenon DEF Holds
      <4>2. QED
        BY <4>1
    <3>3. QED
      BY <3>1, <3>2, PlaceFacts, Zenon
  <2>5. QED
    BY <2>1, <2>2, <2>4
<1>2. Disjoint(PlaceNames, Content(freeq', readyq', tx', rx'))
  BY <1>1 DEF SlotsPlaced, Disjoint
<1>3. QED
  BY <1>1, <1>2 DEF SlotsPlaced

-----------------------------------------------------------------------------
(* What the invariant implies.                                             *)

LEMMA LengthBound ==
  ASSUME NEW q \in Seq(Slots), NoRepeats(q)
  PROVE  Len(q) <= N
<1>1. /\ q \in [1 .. Len(q) -> Slots] /\ Len(q) \in Nat /\ N \in Nat
  BY LenProperties, ChannelAssumption
<1>2. q \in Injection(1 .. Len(q), Slots)
  BY <1>1 DEF NoRepeats, Injection, IsInjective
<1>3. IsFiniteSet(Slots) /\ Cardinality(Slots) = N
  BY <1>1, FS_Interval DEF Slots
<1>4. Cardinality(1 .. Len(q)) <= Cardinality(Slots)
  BY <1>2, <1>3, FS_Injection
<1>5. Cardinality(1 .. Len(q)) = Len(q)
  <2>1. PICK a \in Int, b \in Int : a = 1 /\ b = Len(q)
    <3>1. Len(q) \in Int /\ 1 \in Int
      BY <1>1
    <3>2. QED
      BY <3>1, Zenon
  <2>2. Cardinality(a .. b) = IF a > b THEN 0 ELSE b - a + 1
    BY FS_Interval, Zenon
  <2>3. QED
    BY <1>1, <2>1, <2>2
<1>6. QED
  BY <1>3, <1>4, <1>5

LEMMA IInvTypes == IInv => TypeOK
<1> SUFFICES ASSUME IInv PROVE TypeOK
  OBVIOUS
<1>1. Len(freeq) <= N /\ Len(readyq) <= N
  BY LengthBound DEF IInv, Types, SlotsPlaced
<1>2. num_senders = Cardinality({s \in Senders :
        tx[s].pc \notin {"unborn", "last_wake", "gone"}})
  BY DEF IInv, Counted, Alive
<1>3. QED
  BY <1>1, <1>2, Zenon DEF IInv, Types, TypeOK, SenderType, ReceiverType

LEMMA IInvLine == IInv => ListIsLine
<1> SUFFICES ASSUME IInv PROVE ListIsLine
  OBVIOUS
<1>1. WL!Represents(list, waiting)
  BY RepresentsSpells DEF IInv, Types, Line
<1>2. QED
  BY <1>1 DEF IInv, Line, Members, ListIsLine

LEMMA IInvWakes == IInv => NoLostWake
  BY DEF IInv, Wakes, Locals, ReceiverOK, Waking, NoLostWake

(* The one place of a slot, as the model counts them.                      *)
LEMMA IInvSlots == IInv => SlotsConserved
<1> SUFFICES ASSUME IInv, NEW i \in Slots
             PROVE  /\ \A p, q \in Places(i) : p = q
                    /\ ~ receiver_dropped => Places(i) # {}
  BY DEF SlotsConserved
<1>1. i # None
  BY ChannelAssumption DEF Slots
<1>2. PICK c : c = Content(freeq, readyq, tx, rx)
  OBVIOUS
<1>3. Holds(c, freeq, readyq, tx, rx)
  BY <1>2, ContentFacts, Zenon
<1>4. /\ Disjoint(PlaceNames, c) /\ NoRepeats(freeq) /\ NoRepeats(readyq)
      /\ ~ receiver_dropped => \E p \in PlaceNames : i \in c[p]
  BY <1>2, Zenon DEF IInv, SlotsPlaced
<1>5. /\ DOMAIN freeq = 1 .. Len(freeq) /\ DOMAIN readyq = 1 .. Len(readyq)
      /\ DOMAIN <<rx.slot>> = {1} /\ <<rx.slot>>[1] = rx.slot
  BY DEF IInv, Types
<1>6. ASSUME NEW p
      PROVE  p \in Places(i) <=>
               \/ \E k \in 1 .. Len(freeq) : p = <<"free", k>> /\ freeq[k] = i
               \/ \E k \in 1 .. Len(readyq) :
                    p = <<"ready", k>> /\ readyq[k] = i
               \/ \E s \in Senders : p = <<"given", s>> /\ tx[s].granted = i
               \/ \E s \in Senders : p = <<"sender", s>> /\ tx[s].slot = i
               \/ p = <<"receiver", 1>> /\ rx.slot = i
  BY <1>5 DEF Places
<1>7. /\ \A k \in 1 .. Len(freeq) : freeq[k] = i => i \in c[<<"free", None>>]
      /\ \A k \in 1 .. Len(readyq) :
           readyq[k] = i => i \in c[<<"ready", None>>]
      /\ \A s \in Senders : tx[s].granted = i <=> i \in c[<<"given", s>>]
      /\ \A s \in Senders : tx[s].slot = i <=> i \in c[<<"sender", s>>]
      /\ rx.slot = i <=> i \in c[<<"receiver", None>>]
  BY <1>1, <1>3 DEF Holds, Members
<1>8. ASSUME NEW p \in Places(i)
      PROVE  \E a \in PlaceNames : i \in c[a] /\ a[1] = p[1]
               /\ (a[1] \in {"given", "sender"} => a[2] = p[2])
  BY <1>6, <1>7, <1>8, PlaceFacts
<1>9. ASSUME NEW p \in Places(i), NEW q \in Places(i)
      PROVE  p = q
  <2>1. PICK a \in PlaceNames : i \in c[a] /\ a[1] = p[1]
               /\ (a[1] \in {"given", "sender"} => a[2] = p[2])
    BY <1>8
  <2>2. PICK b \in PlaceNames : i \in c[b] /\ b[1] = q[1]
               /\ (b[1] \in {"given", "sender"} => b[2] = q[2])
    BY <1>8
  <2>3. a = b
    BY <1>4, <2>1, <2>2 DEF Disjoint
  <2>4. p[1] = q[1] /\ (p[1] \in {"given", "sender"} => p[2] = q[2])
    BY <2>1, <2>2, <2>3
  <2>5. QED
    BY <1>4, <1>6, <1>9, <2>4 DEF NoRepeats
<1>10. ASSUME ~ receiver_dropped
       PROVE  Places(i) # {}
  <2>1. PICK p \in PlaceNames : i \in c[p]
    BY <1>4, <1>10
  <2>2. \E q : q \in Places(i)
    <3>1. CASE p = <<"free", None>>
      <4>1. PICK k \in 1 .. Len(freeq) : freeq[k] = i
        BY <1>3, <2>1, <3>1 DEF Holds, Members
      <4>2. QED
        BY <1>6, <4>1
    <3>2. CASE p = <<"ready", None>>
      <4>1. PICK k \in 1 .. Len(readyq) : readyq[k] = i
        BY <1>3, <2>1, <3>2 DEF Holds, Members
      <4>2. QED
        BY <1>6, <4>1
    <3>3. CASE p = <<"receiver", None>>
      BY <1>6, <1>7, <2>1, <3>3
    <3>4. CASE \E s \in Senders : p = <<"given", s>>
      BY <1>6, <1>7, <2>1, <3>4
    <3>5. CASE \E s \in Senders : p = <<"sender", s>>
      BY <1>6, <1>7, <2>1, <3>5
    <3>6. QED
      BY <3>1, <3>2, <3>3, <3>4, <3>5, PlaceFacts
  <2>3. QED
    BY <2>2
<1>11. QED
  BY <1>9, <1>10

-----------------------------------------------------------------------------
(* What the steps leave alone.                                             *)

LEMMA LineKept ==
  ASSUME Line, UNCHANGED line,
         \A s \in Senders : tx'[s].link = tx[s].link
  PROVE  Line'
  BY DEF Line, line

LEMMA CountKept ==
  ASSUME Counted, UNCHANGED num_senders, Alive(tx') = Alive(tx)
  PROVE  Counted'
  BY DEF Counted

LEMMA WakingKept ==
  ASSUME \A s \in Senders : tx[s].pc \in {"wake", "last_wake"} =>
                              tx'[s].pc \in {"wake", "last_wake"}
  PROVE  Waking(tx) => Waking(tx')
  BY DEF Waking

(* A sender s goes from one pc to another that is as alive.                *)
LEMMA AliveKept ==
  ASSUME NEW s \in Senders,
         \A t \in Senders \ {s} : tx'[t] = tx[t],
         tx[s].pc \notin {"unborn", "last_wake", "gone"},
         tx'[s].pc \notin {"unborn", "last_wake", "gone"}
  PROVE  Alive(tx') = Alive(tx)
  BY DEF Alive

LEMMA InitIInv == Init => IInv
<1> SUFFICES ASSUME Init PROVE IInv
  OBVIOUS
<1>1. N \in Nat /\ N > 0 /\ MaxSent \in Nat /\ First \in Senders
  BY ChannelAssumption
<1>2. /\ freeq = [i \in 1 .. N |-> i - 1] /\ Len(freeq) = N
      /\ freeq \in Seq(Slots)
  <2>1. \A i \in 1 .. N : i - 1 \in Slots
    BY <1>1 DEF Slots
  <2>2. QED
    BY <1>1, <2>1 DEF Init, AllSlots
<1>3. readyq = <<>> /\ Len(readyq) = 0 /\ readyq \in Seq(Slots)
  BY DEF Init
<1>4. waiting = <<>> /\ Len(waiting) = 0 /\ waiting \in Seq(Senders)
  BY DEF Init
<1>5. /\ list \in ListType /\ list.head = None /\ list.tail = None
      /\ \A s \in Senders : ~ list.is_popped[s]
  BY DEF Init, WL!NewList, ListType, SenderOrNone
<1>6. \A s \in Senders :
        /\ tx[s] \in SenderType
        /\ tx[s].pc = IF s = First THEN "idle" ELSE "unborn"
        /\ tx[s].slot = None /\ tx[s].granted = None /\ ~ tx[s].link
  BY <1>1 DEF Init, NewSender, SenderType, SlotOrNone
<1>7. Types
  <2>1. tx \in [Senders -> SenderType]
    BY <1>6 DEF Init
  <2>2. rx \in ReceiverType
    BY DEF Init, ReceiverType, SlotOrNone
  <2>3. QED
    BY <1>2, <1>3, <1>4, <1>5, <2>1, <2>2 DEF Init, Types
<1>8. Counted
  <2>1. Alive(tx) = {First}
    BY <1>1, <1>6 DEF Alive
  <2>2. QED
    BY <2>1, FS_Singleton DEF Init, Counted
<1>9. Locals
  BY <1>6 DEF Init, Locals, SenderOK, ReceiverOK
<1>10. Line
  BY <1>4, <1>5, <1>6 DEF Line, Spells, NoRepeats, Members
<1>11. SlotsPlaced
  <2>1. PICK c : c = Content(freeq, readyq, tx, rx)
    OBVIOUS
  <2>2. Holds(c, freeq, readyq, tx, rx)
    BY <2>1, ContentFacts, Zenon
  <2>3. NoRepeats(freeq) /\ NoRepeats(readyq)
    <3>1. \A i \in 1 .. N : freeq[i] = i - 1
      BY <1>2
    <3>2. ASSUME NEW i \in 1 .. N, NEW j \in 1 .. N, freeq[i] = freeq[j]
          PROVE  i = j
      BY <3>1, <3>2
    <3>3. Len(freeq) = N /\ Len(readyq) = 0
      BY <1>2, <1>3
    <3>4. QED
      BY <3>2, <3>3 DEF NoRepeats
  <2>4. Members(freeq) = Slots /\ Members(readyq) = {}
    <3>1. ASSUME NEW i \in Slots
          PROVE  i \in Members(freeq)
      <4>1. i + 1 \in 1 .. N /\ i = (i + 1) - 1
        BY <1>1 DEF Slots
      <4>2. i = freeq[i + 1]
        BY <1>2, <4>1
      <4>3. QED
        BY <1>2, <4>1, <4>2 DEF Members
    <3>2. Members(freeq) \subseteq Slots
      BY <1>2, ElementOfSeq DEF Members
    <3>3. QED
      BY <1>3, <3>1, <3>2 DEF Members
  <2>5. \A p \in PlaceNames : p # <<"free", None>> => c[p] = {}
    <3>1. rx.slot = None
      BY DEF Init
    <3>2. \A s \in Senders : c[<<"given", s>>] = {} /\ c[<<"sender", s>>] = {}
      BY <1>6, <2>2 DEF Holds
    <3>3. c[<<"ready", None>>] = {} /\ c[<<"receiver", None>>] = {}
      BY <2>2, <2>4, <3>1 DEF Holds
    <3>4. QED
      BY <3>2, <3>3, PlaceFacts, Zenon
  <2>6. Disjoint(PlaceNames, c)
    BY <2>5 DEF Disjoint
  <2>7. \A i \in Slots : \E p \in PlaceNames : i \in c[p]
    BY <2>2, <2>4, PlaceFacts DEF Holds
  <2>8. QED
    BY <2>1, <2>3, <2>6, <2>7 DEF SlotsPlaced
<1>12. Wakes
  BY <1>4, <1>6 DEF Init, Wakes
<1>13. QED
  BY <1>7, <1>8, <1>9, <1>10, <1>11, <1>12 DEF IInv

-----------------------------------------------------------------------------
(* Steps that only move a sender on.                                       *)

LEMMA QuietStep ==
  ASSUME IInv, NEW s \in Senders,
         tx' \in [Senders -> SenderType],
         \A t \in Senders \ {s} : tx'[t] = tx[t],
         UNCHANGED <<queues, receiver_dropped, receiver_waker, line, rx>>,
         tx'[s].slot = tx[s].slot, tx'[s].granted = tx[s].granted,
         tx'[s].link = tx[s].link,
         SenderOK(tx'[s], list.is_popped[s]),
         tx[s].pc \notin {"wake", "last_wake"},
         tx'[s].pc = "pending" /\ list.is_popped[s] =>
           tx'[s].woken \/ rx.waker = s,
         Counted',
         num_senders' = 0 => num_senders = 0 \/ tx'[s].pc = "last_wake"
  PROVE  IInv'
<1>1. /\ \A t \in Senders \ {s} : tx'[t] = tx[t]
      /\ tx' \in [Senders -> SenderType]
  OBVIOUS
<1>2. Types'
  BY <1>1 DEF IInv, Types, queues, line
<1>3. Locals'
  BY <1>1 DEF IInv, Locals, ReceiverOK, line
<1>4. Line'
  BY <1>1, LineKept DEF IInv
<1>5. SlotsPlaced'
  BY <1>1, SlotsKept DEF IInv, queues
<1>6. Wakes'
  <2>1. Waking(tx) => Waking(tx')
    BY <1>1, WakingKept
  <2>2. tx'[s].pc = "last_wake" => Waking(tx')
    BY <1>1 DEF Waking
  <2>3. rx.pc = "pending" => rx.async
    BY DEF IInv, Locals, ReceiverOK
  <2>4. QED
    BY <1>1, <2>1, <2>2, <2>3 DEF IInv, Wakes, queues, line
<1>7. QED
  BY <1>2, <1>3, <1>4, <1>5, <1>6 DEF IInv

LEMMA TrySendStep ==
  ASSUME IInv, NEW s \in Senders, TrySend(s)
  PROVE  IInv'
<1>1. /\ tx' \in [Senders -> SenderType]
      /\ \A t \in Senders \ {s} : tx'[t] = tx[t]
      /\ tx'[s].pc \in {"try_open", "idle"}
      /\ tx'[s].slot = tx[s].slot /\ tx'[s].granted = tx[s].granted
      /\ tx'[s].link = tx[s].link /\ tx'[s].sent = tx[s].sent
  BY ZenonT(60) DEF TrySend, IInv, Types, SenderType
<1>2. tx[s].pc = "idle" /\ tx[s].sent < MaxSent
  BY DEF TrySend
<1>3. Counted'
  BY <1>1, <1>2, AliveKept, CountKept DEF TrySend, IInv
<1>4. SenderOK(tx'[s], list.is_popped[s])
  BY <1>1, <1>2 DEF IInv, Locals, SenderOK
<1>5. QED
  BY <1>1, <1>2, <1>3, <1>4, QuietStep DEF TrySend

LEMMA TrySendIsClosedStep ==
  ASSUME IInv, NEW s \in Senders, TrySendIsClosed(s)
  PROVE  IInv'
<1>1. /\ tx' \in [Senders -> SenderType]
      /\ \A t \in Senders \ {s} : tx'[t] = tx[t]
      /\ tx'[s].pc \in {"try_slot", "idle"}
      /\ tx'[s].slot = tx[s].slot /\ tx'[s].granted = tx[s].granted
      /\ tx'[s].link = tx[s].link /\ tx'[s].sent = tx[s].sent
  BY ZenonT(60) DEF TrySendIsClosed, IInv, Types, SenderType
<1>2. tx[s].pc = "try_open"
  BY DEF TrySendIsClosed
<1>3. Counted'
  BY <1>1, <1>2, AliveKept, CountKept DEF TrySendIsClosed, IInv
<1>4. SenderOK(tx'[s], list.is_popped[s])
  BY <1>1, <1>2 DEF IInv, Locals, SenderOK
<1>5. QED
  BY <1>1, <1>2, <1>3, <1>4, QuietStep DEF TrySendIsClosed

LEMMA SendClosedStep ==
  ASSUME IInv, NEW s \in Senders, SendClosed(s)
  PROVE  IInv'
<1>1. /\ tx' \in [Senders -> SenderType]
      /\ \A t \in Senders \ {s} : tx'[t] = tx[t]
      /\ tx'[s].pc = IF tx[s].link THEN "unlink" ELSE "idle"
      /\ tx'[s].slot = tx[s].slot /\ tx'[s].granted = tx[s].granted
      /\ tx'[s].link = tx[s].link /\ tx'[s].sent = tx[s].sent
  BY Zenon DEF SendClosed, IInv, Types, SenderType
<1>2. tx[s].pc \in {"idle", "pending"}
  BY DEF SendClosed, Polled
<1>3. Counted'
  BY <1>1, <1>2, AliveKept, CountKept DEF SendClosed, IInv
<1>4. SenderOK(tx'[s], list.is_popped[s])
  BY <1>1, <1>2 DEF IInv, Locals, SenderOK
<1>5. QED
  BY <1>1, <1>2, <1>3, <1>4, QuietStep DEF SendClosed

LEMMA SendStillWaitsStep ==
  ASSUME IInv, NEW s \in Senders, SendStillWaits(s)
  PROVE  IInv'
<1>1. /\ tx' \in [Senders -> SenderType]
      /\ \A t \in Senders \ {s} : tx'[t] = tx[t]
      /\ tx'[s].pc = tx[s].pc
      /\ tx'[s].slot = tx[s].slot /\ tx'[s].granted = tx[s].granted
      /\ tx'[s].link = tx[s].link /\ tx'[s].sent = tx[s].sent
  BY DEF SendStillWaits, IInv, Types, SenderType
<1>2. tx[s].pc \in {"idle", "pending"} /\ ~ list.is_popped[s]
  BY DEF SendStillWaits, Polled
<1>3. Counted'
  BY <1>1, <1>2, AliveKept, CountKept DEF SendStillWaits, IInv
<1>4. SenderOK(tx'[s], list.is_popped[s])
  BY <1>1, <1>2 DEF IInv, Locals, SenderOK
<1>5. QED
  BY <1>1, <1>2, <1>3, <1>4, QuietStep DEF SendStillWaits

LEMMA CancelSendStep ==
  ASSUME IInv, NEW s \in Senders, CancelSend(s)
  PROVE  IInv'
<1>1. /\ tx' \in [Senders -> SenderType]
      /\ \A t \in Senders \ {s} : tx'[t] = tx[t]
      /\ tx'[s].pc = "unlink"
      /\ tx'[s].slot = tx[s].slot /\ tx'[s].granted = tx[s].granted
      /\ tx'[s].link = tx[s].link /\ tx'[s].sent = tx[s].sent
  BY ZenonT(60) DEF CancelSend, IInv, Types, SenderType
<1>2. tx[s].pc = "pending"
  BY DEF CancelSend
<1>3. Counted'
  BY <1>1, <1>2, AliveKept, CountKept DEF CancelSend, IInv
<1>4. SenderOK(tx'[s], list.is_popped[s])
  BY <1>1, <1>2 DEF IInv, Locals, SenderOK
<1>5. QED
  BY <1>1, <1>2, <1>3, <1>4, QuietStep DEF CancelSend

LEMMA AliveFinite ==
  \A t : IsFiniteSet(Alive(t)) /\ Cardinality(Alive(t)) \in Nat
<1>1. \A t : Alive(t) \in SUBSET Senders
  BY DEF Alive
<1>2. \A t : IsFiniteSet(Alive(t))
  BY <1>1, FS_Subset, ChannelAssumption
<1>3. QED
  BY <1>2, FS_CardinalityType

LEMMA DropSenderStep ==
  ASSUME IInv, NEW s \in Senders, DropSender(s)
  PROVE  IInv'
<1>1. /\ tx' \in [Senders -> SenderType]
      /\ \A t \in Senders \ {s} : tx'[t] = tx[t]
      /\ tx'[s].pc = IF num_senders = 1 THEN "last_wake" ELSE "gone"
      /\ tx'[s].slot = tx[s].slot /\ tx'[s].granted = tx[s].granted
      /\ tx'[s].link = tx[s].link /\ tx'[s].sent = tx[s].sent
  BY ZenonT(60) DEF DropSender, IInv, Types, SenderType
<1>2. tx[s].pc = "idle" /\ num_senders' = num_senders - 1
  BY DEF DropSender
<1>3. Counted'
  <2>1. Alive(tx') = Alive(tx) \ {s} /\ s \in Alive(tx)
    BY <1>1, <1>2 DEF Alive
  <2>2. Cardinality(Alive(tx')) = Cardinality(Alive(tx)) - 1
    BY <2>1, AliveFinite, FS_RemoveElement
  <2>3. QED
    BY <1>2, <2>2 DEF IInv, Counted
<1>4. SenderOK(tx'[s], list.is_popped[s])
  BY <1>1, <1>2 DEF IInv, Locals, SenderOK
<1>5. num_senders' = 0 => tx'[s].pc = "last_wake"
  BY <1>1, <1>2, AliveFinite DEF IInv, Counted
<1>6. QED
  BY <1>1, <1>2, <1>3, <1>4, <1>5, QuietStep DEF DropSender

LEMMA CloneStep ==
  ASSUME IInv, NEW s \in Senders, NEW t \in Senders, Clone(s, t)
  PROVE  IInv'
<1>1. /\ tx' \in [Senders -> SenderType]
      /\ \A u \in Senders \ {t} : tx'[u] = tx[u]
      /\ tx'[t].pc = "idle"
      /\ tx'[t].slot = tx[t].slot /\ tx'[t].granted = tx[t].granted
      /\ tx'[t].link = tx[t].link /\ tx'[t].sent = tx[t].sent
  BY DEF Clone, IInv, Types, SenderType
<1>2. tx[t].pc = "unborn" /\ num_senders' = num_senders + 1
  BY DEF Clone
<1>3. Counted' /\ num_senders' # 0
  <2>1. Alive(tx') = Alive(tx) \cup {t} /\ t \notin Alive(tx)
    BY <1>1, <1>2 DEF Alive
  <2>2. Cardinality(Alive(tx')) = Cardinality(Alive(tx)) + 1
    BY <2>1, AliveFinite, FS_AddElement
  <2>3. QED
    BY <1>2, <2>2, AliveFinite DEF IInv, Counted
<1>4. SenderOK(tx'[t], list.is_popped[t])
  BY <1>1, <1>2 DEF IInv, Locals, SenderOK
<1>5. QED
  BY <1>1, <1>2, <1>3, <1>4, QuietStep DEF Clone

-----------------------------------------------------------------------------
(* Steps that move a slot or a link on the sending side.                   *)

LEMMA SenderStep ==
  ASSUME IInv, NEW s \in Senders, Types',
         \A t \in Senders \ {s} : tx'[t] = tx[t],
         UNCHANGED <<num_senders, receiver_waker, receiver_dropped, rx>>,
         Line', SlotsPlaced',
         \A t \in Senders \ {s} : list'.is_popped[t] = list.is_popped[t],
         SenderOK(tx'[s], list'.is_popped[s]),
         tx[s].pc \notin {"unborn", "wake", "last_wake", "gone"},
         tx'[s].pc \notin {"unborn", "last_wake", "gone"},
         tx'[s].pc = "pending" /\ list'.is_popped[s] => tx'[s].woken,
         waiting' # <<>> => freeq' = <<>>,
         readyq' = readyq \/ tx'[s].pc = "wake"
  PROVE  IInv'
<1>1. /\ \A t \in Senders \ {s} : tx'[t] = tx[t]
      /\ \A t \in Senders \ {s} : list'.is_popped[t] = list.is_popped[t]
  OBVIOUS
<1>2. Counted'
  BY <1>1, AliveKept, CountKept DEF IInv
<1>3. Locals'
  BY <1>1 DEF IInv, Locals, ReceiverOK
<1>4. Wakes'
  <2>1. Waking(tx) => Waking(tx')
    BY <1>1, WakingKept
  <2>2. tx'[s].pc = "wake" => Waking(tx')
    BY <1>1 DEF Waking
  <2>3. rx.async => receiver_waker \/ rx.woken
    BY DEF IInv, Wakes
  <2>4. \A t \in Senders :
          tx'[t].pc = "pending" /\ list'.is_popped[t]
            => tx'[t].woken \/ rx'.waker = t
    BY <1>1 DEF IInv, Wakes
  <2>5. QED
    BY <2>1, <2>2, <2>3, <2>4 DEF IInv, Wakes
<1>5. QED
  BY <1>2, <1>3, <1>4 DEF IInv

(* SlotsMoved, in terms of what each place holds.                          *)
LEMMA SlotsMovedTo ==
  ASSUME SlotsPlaced, NoRepeats(freeq'), NoRepeats(readyq'),
         receiver_dropped' = receiver_dropped,
         NEW i, NEW a, NEW b,
         \A c, d : Holds(c, freeq, readyq, tx, rx)
                     /\ Holds(d, freeq', readyq', tx', rx')
                   => Moves(i, a, b, c, d)
  PROVE  SlotsPlaced'
<1>1. /\ Holds(Content(freeq, readyq, tx, rx), freeq, readyq, tx, rx)
      /\ Holds(Content(freeq', readyq', tx', rx'), freeq', readyq', tx', rx')
  BY ContentFacts, Zenon
<1>2. Moves(i, a, b, Content(freeq, readyq, tx, rx),
                     Content(freeq', readyq', tx', rx'))
  BY <1>1, Zenon
<1>3. QED
  BY <1>2, SlotsMoved, Zenon

(* A sender takes a slot from the free queue.                              *)
LEMMA SenderTakes ==
  ASSUME IInv, NEW s \in Senders, NEW i \in Members(freeq), i # None,
         \A t \in Senders \ {s} : tx'[t] = tx[t],
         tx'[s].slot = i, tx[s].slot = None, tx'[s].granted = tx[s].granted,
         UNCHANGED <<readyq, rx, receiver_dropped>>,
         NoRepeats(freeq'), Members(freeq') = Members(freeq) \ {i}
  PROVE  SlotsPlaced'
<1> DEFINE a == <<"free", None>>
           b == <<"sender", s>>
<1>1. ASSUME NEW c, NEW d, Holds(c, freeq, readyq, tx, rx),
             Holds(d, freeq', readyq', tx', rx')
      PROVE  Moves(i, a, b, c, d)
  <2>1. d[a] = c[a] \ {i} /\ i \in c[a]
    BY <1>1 DEF Holds
  <2>2. d[b] = c[b] \cup {i}
    <3>1. c[b] = {tx[s].slot} \ {None} /\ d[b] = {tx'[s].slot} \ {None}
      BY <1>1, Zenon DEF Holds
    <3>2. QED
      BY <3>1
  <2>3. /\ d[<<"ready", None>>] = c[<<"ready", None>>]
        /\ d[<<"receiver", None>>] = c[<<"receiver", None>>]
    BY <1>1 DEF Holds
  <2>4. ASSUME NEW t \in Senders
        PROVE  /\ d[<<"given", t>>] = c[<<"given", t>>]
               /\ t # s => d[<<"sender", t>>] = c[<<"sender", t>>]
    <3>1. /\ c[<<"given", t>>] = {tx[t].granted} \ {None}
          /\ c[<<"sender", t>>] = {tx[t].slot} \ {None}
          /\ d[<<"given", t>>] = {tx'[t].granted} \ {None}
          /\ d[<<"sender", t>>] = {tx'[t].slot} \ {None}
      BY <1>1, Zenon DEF Holds
    <3>2. tx'[t].granted = tx[t].granted /\ (t # s => tx'[t].slot = tx[t].slot)
      OBVIOUS
    <3>3. QED
      BY <3>1, <3>2
  <2>5. \A p \in PlaceNames \ {a, b} : d[p] = c[p]
    BY <2>3, <2>4, PlaceFacts, Zenon
  <2>6. a \in PlaceNames /\ b \in PlaceNames /\ a # b
    BY PlaceFacts
  <2>7. QED
    BY <2>1, <2>2, <2>5, <2>6, Zenon DEF Moves
<1>2. NoRepeats(readyq')
  BY DEF IInv, SlotsPlaced
<1> HIDE DEF a, b
<1>3. QED
  BY <1>1, <1>2, SlotsMovedTo, Zenon DEF IInv

LEMMA SlotNotNone == \A i \in Slots : i # None
  BY ChannelAssumption DEF Slots

LEMMA TrySendSlotStep ==
  ASSUME IInv, NEW s \in Senders, TrySendSlot(s)
  PROVE  IInv'
<1>1. /\ tx[s].pc = "try_slot" /\ SenderOK(tx[s], list.is_popped[s])
      /\ UNCHANGED <<num_senders, receiver_waker, receiver_dropped, rx,
                     readyq, slots, list, waiting>>
  BY DEF TrySendSlot, IInv, Locals, line
<1>2. CASE freeq = <<>>
  <2>0. tx' = [tx EXCEPT ![s].pc = "idle"]
    BY <1>2 DEF TrySendSlot
  <2>1. /\ tx' \in [Senders -> SenderType]
        /\ \A t \in Senders \ {s} : tx'[t] = tx[t]
        /\ tx'[s].pc = "idle"
        /\ tx'[s].slot = tx[s].slot /\ tx'[s].granted = tx[s].granted
        /\ tx'[s].link = tx[s].link /\ tx'[s].sent = tx[s].sent
    BY <2>0 DEF IInv, Types, SenderType
  <2>2. Counted'
    BY <1>1, <2>1, AliveKept, CountKept DEF IInv
  <2>3. SenderOK(tx'[s], list.is_popped[s])
    BY <1>1, <2>1 DEF SenderOK
  <2>4. freeq' = freeq
    BY <1>2 DEF TrySendSlot
  <2>5. QED
    BY <1>1, <2>1, <2>2, <2>3, <2>4, QuietStep DEF queues, line
<1>3. CASE freeq # <<>>
  <2>1. PICK i \in Slots : i = Head(freeq)
    BY <1>3, TailFacts DEF IInv, Types, SlotsPlaced
  <2>0. freeq' = Tail(freeq) /\ freeq \in Seq(Slots) /\ NoRepeats(freeq)
    BY <1>3 DEF TrySendSlot, IInv, Types, SlotsPlaced
  <2>2. /\ freeq' \in Seq(Slots) /\ NoRepeats(freeq')
        /\ i \in Members(freeq) /\ Members(freeq') = Members(freeq) \ {i}
    BY <1>3, <2>0, <2>1, TailFacts
  <2>3. tx' = [tx EXCEPT ![s].pc = "write", ![s].slot = i]
    BY <1>3, <2>1 DEF TrySendSlot
  <2>4. /\ tx' \in [Senders -> SenderType]
        /\ \A t \in Senders \ {s} : tx'[t] = tx[t]
        /\ tx'[s].pc = "write"
        /\ tx'[s].slot = i /\ tx'[s].granted = tx[s].granted
        /\ tx'[s].link = tx[s].link /\ tx'[s].sent = tx[s].sent
    BY <2>3, ZenonT(60) DEF IInv, Types, SenderType, SlotOrNone
  <2>5. Types'
    BY <1>1, <2>2, <2>4 DEF IInv, Types
  <2>6. Line'
    BY <1>1, <2>4, LineKept DEF IInv, line
  <2>7. i # None /\ tx[s].slot = None
    BY <1>1, <2>1, SlotNotNone DEF SenderOK
  <2>8. SlotsPlaced'
    BY <1>1, <2>2, <2>4, <2>7, SenderTakes
  <2>9. SenderOK(tx'[s], list.is_popped[s])
    BY <1>1, <2>4, <2>7 DEF SenderOK
  <2>10. waiting' # <<>> => freeq' = <<>>
    BY <1>1, <1>3 DEF IInv, Wakes
  <2>11. QED
    BY <1>1, <2>4, <2>5, <2>6, <2>8, <2>9, <2>10, SenderStep
<1>4. QED
  BY <1>2, <1>3

LEMMA SendSlotStep ==
  ASSUME IInv, NEW s \in Senders, SendSlot(s)
  PROVE  IInv'
<1>1. /\ tx[s].pc \in {"idle", "pending"} /\ ~ tx[s].link /\ freeq # <<>>
      /\ SenderOK(tx[s], list.is_popped[s])
      /\ tx[s].pc = "idle" => tx[s].sent < MaxSent
      /\ UNCHANGED <<num_senders, receiver_waker, receiver_dropped, rx,
                     readyq, slots, list, waiting>>
  BY DEF SendSlot, Polled, IInv, Locals, line
<1>2. PICK i \in Slots : i = freeq[Len(freeq)]
  BY <1>1, FrontFacts DEF IInv, Types, SlotsPlaced
<1>3. /\ freeq' \in Seq(Slots) /\ NoRepeats(freeq')
      /\ i \in Members(freeq) /\ Members(freeq') = Members(freeq) \ {i}
  BY <1>1, <1>2, FrontFacts DEF SendSlot, IInv, Types, SlotsPlaced
<1>4. tx' = [tx EXCEPT ![s].pc = "write", ![s].slot = i, ![s].woken = FALSE]
  BY <1>2 DEF SendSlot
<1>5. /\ tx' \in [Senders -> SenderType]
      /\ \A t \in Senders \ {s} : tx'[t] = tx[t]
      /\ tx'[s].pc = "write"
      /\ tx'[s].slot = i /\ tx'[s].granted = tx[s].granted
      /\ tx'[s].link = tx[s].link /\ tx'[s].sent = tx[s].sent
  <2>1. i \in SlotOrNone /\ tx \in [Senders -> SenderType]
    BY DEF SlotOrNone, IInv, Types
  <2>2. PICK no \in BOOLEAN : no = FALSE
    OBVIOUS
  <2>3. tx' = [tx EXCEPT ![s].pc = "write", ![s].slot = i, ![s].woken = no]
    BY <1>4, <2>2, Zenon
  <2>4. PICK r : r = [tx[s] EXCEPT !.pc = "write", !.slot = i, !.woken = no]
    OBVIOUS
  <2>5. /\ r \in SenderType /\ r.pc = "write" /\ r.slot = i
        /\ r.granted = tx[s].granted /\ r.link = tx[s].link
        /\ r.sent = tx[s].sent
    BY <2>1, <2>4 DEF SenderType
  <2>6. tx' = [tx EXCEPT ![s] = r]
    BY <2>1, <2>3, <2>4
  <2>7. QED
    BY <2>1, <2>5, <2>6
<1>6. Types'
  BY <1>1, <1>3, <1>5 DEF IInv, Types
<1>7. Line'
  BY <1>1, <1>5, LineKept DEF IInv, line
<1>8. i # None /\ tx[s].slot = None
  BY <1>1, <1>2, SlotNotNone DEF SenderOK
<1>9. SlotsPlaced'
  BY <1>1, <1>3, <1>5, <1>8, SenderTakes
<1>10. SenderOK(tx'[s], list.is_popped[s])
  BY <1>1, <1>5, <1>8 DEF SenderOK
<1>11. waiting' # <<>> => freeq' = <<>>
  BY <1>1 DEF IInv, Wakes
<1>12. QED
  BY <1>1, <1>5, <1>6, <1>7, <1>9, <1>10, <1>11, SenderStep

LEMMA WriteSlotStep ==
  ASSUME IInv, NEW s \in Senders, WriteSlot(s)
  PROVE  IInv'
<1>1. /\ tx[s].pc = "write" /\ SenderOK(tx[s], list.is_popped[s])
      /\ UNCHANGED <<num_senders, receiver_waker, receiver_dropped, rx,
                     freeq, readyq, list, waiting>>
  BY DEF WriteSlot, IInv, Locals, line
<1>2. /\ tx' \in [Senders -> SenderType]
      /\ \A t \in Senders \ {s} : tx'[t] = tx[t]
      /\ tx'[s].pc = "push"
      /\ tx'[s].slot = tx[s].slot /\ tx'[s].granted = tx[s].granted
      /\ tx'[s].link = tx[s].link /\ tx'[s].sent = tx[s].sent
  BY DEF WriteSlot, IInv, Types, SenderType
<1>3. slots' \in [Slots -> Messages \cup {None}]
  <2>1. tx[s].sent \in 0 .. MaxSent /\ tx[s].sent < MaxSent /\ MaxSent \in Nat
    BY <1>1, ChannelAssumption DEF SenderOK, IInv, Types, SenderType
  <2>2. <<s, tx[s].sent>> \in Messages
    BY <2>1 DEF Messages
  <2>3. QED
    BY <2>2 DEF WriteSlot, IInv, Types
<1>4. Types'
  BY <1>1, <1>2, <1>3 DEF IInv, Types
<1>5. Line'
  BY <1>1, <1>2, LineKept DEF IInv, line
<1>6. SlotsPlaced'
  BY <1>1, <1>2, SlotsKept DEF IInv
<1>7. SenderOK(tx'[s], list.is_popped[s])
  BY <1>1, <1>2 DEF SenderOK
<1>8. waiting' # <<>> => freeq' = <<>>
  BY <1>1 DEF IInv, Wakes
<1>9. QED
  BY <1>1, <1>2, <1>4, <1>5, <1>6, <1>7, <1>8, SenderStep

(* The slots of a sender that holds i: it is nowhere else.                 *)
LEMMA HeldOnlyThere ==
  ASSUME IInv, NEW s \in Senders, NEW i, i # None, tx[s].slot = i
  PROVE  i \notin Members(readyq)
<1>1. PICK c : c = Content(freeq, readyq, tx, rx)
  OBVIOUS
<1>2. Holds(c, freeq, readyq, tx, rx) /\ Disjoint(PlaceNames, c)
  BY <1>1, ContentFacts, Zenon DEF IInv, SlotsPlaced
<1>3. c[<<"sender", s>>] = {tx[s].slot} \ {None}
  BY <1>2, Zenon DEF Holds
<1>4. c[<<"ready", None>>] = Members(readyq)
  BY <1>2, Zenon DEF Holds
<1>5. c[<<"sender", s>>] \cap c[<<"ready", None>>] = {}
  <2>1. <<"sender", s>> # <<"ready", None>>
    OBVIOUS
  <2>2. QED
    BY <1>2, <2>1, PlaceFacts, Zenon DEF Disjoint
<1>6. QED
  BY <1>3, <1>4, <1>5

LEMMA PushReadyStep ==
  ASSUME IInv, NEW s \in Senders, PushReady(s)
  PROVE  IInv'
<1>1. /\ tx[s].pc = "push" /\ SenderOK(tx[s], list.is_popped[s])
      /\ UNCHANGED <<num_senders, receiver_waker, receiver_dropped, rx,
                     freeq, slots, list, waiting>>
  BY DEF PushReady, IInv, Locals, line
<1>2. PICK i \in Slots : i = tx[s].slot /\ i # None
  BY <1>1 DEF SenderOK, IInv, Types, SenderType, SlotOrNone
<1>3. tx[s].sent + 1 \in 0 .. MaxSent
  BY <1>1, ChannelAssumption DEF SenderOK, IInv, Types, SenderType
<1>4. /\ tx' \in [Senders -> SenderType]
      /\ \A t \in Senders \ {s} : tx'[t] = tx[t]
      /\ tx'[s].pc = "wake"
      /\ tx'[s].slot = None /\ tx'[s].granted = tx[s].granted
      /\ tx'[s].link = tx[s].link
  BY <1>3 DEF PushReady, IInv, Types, SenderType, SlotOrNone
<1>5. i \notin Members(readyq)
  BY <1>2, HeldOnlyThere
<1>6. /\ readyq' \in Seq(Slots) /\ NoRepeats(readyq')
      /\ Members(readyq') = Members(readyq) \cup {i}
  BY <1>2, <1>5, AppendFacts DEF PushReady, IInv, Types, SlotsPlaced
<1>7. Types'
  BY <1>1, <1>4, <1>6 DEF IInv, Types
<1>8. Line'
  BY <1>1, <1>4, LineKept DEF IInv, line
<1>9. SlotsPlaced'
  <2> DEFINE a == <<"sender", s>>
             b == <<"ready", None>>
  <2>1. ASSUME NEW c, NEW d, Holds(c, freeq, readyq, tx, rx),
               Holds(d, freeq', readyq', tx', rx')
        PROVE  Moves(i, a, b, c, d)
    <3>1. d[b] = c[b] \cup {i}
      BY <1>6, <2>1 DEF Holds
    <3>2. d[a] = c[a] \ {i} /\ i \in c[a]
      <4>1. c[a] = {tx[s].slot} \ {None} /\ d[a] = {tx'[s].slot} \ {None}
        BY <2>1, Zenon DEF Holds
      <4>2. QED
        BY <1>2, <1>4, <4>1
    <3>3. /\ d[<<"free", None>>] = c[<<"free", None>>]
          /\ d[<<"receiver", None>>] = c[<<"receiver", None>>]
      BY <1>1, <2>1 DEF Holds
    <3>4. ASSUME NEW t \in Senders
          PROVE  /\ d[<<"given", t>>] = c[<<"given", t>>]
                 /\ t # s => d[<<"sender", t>>] = c[<<"sender", t>>]
      <4>1. /\ c[<<"given", t>>] = {tx[t].granted} \ {None}
            /\ c[<<"sender", t>>] = {tx[t].slot} \ {None}
            /\ d[<<"given", t>>] = {tx'[t].granted} \ {None}
            /\ d[<<"sender", t>>] = {tx'[t].slot} \ {None}
        BY <2>1, Zenon DEF Holds
      <4>2. /\ tx'[t].granted = tx[t].granted
            /\ t # s => tx'[t].slot = tx[t].slot
        BY <1>4
      <4>3. QED
        BY <4>1, <4>2
    <3>5. \A p \in PlaceNames \ {a, b} : d[p] = c[p]
      BY <3>3, <3>4, PlaceFacts, Zenon
    <3>6. a \in PlaceNames /\ b \in PlaceNames /\ a # b
      BY PlaceFacts
    <3>7. QED
      BY <3>1, <3>2, <3>5, <3>6, Zenon DEF Moves
  <2>2. NoRepeats(freeq')
    BY <1>1 DEF IInv, SlotsPlaced
  <2> HIDE DEF a, b
  <2>3. QED
    BY <1>1, <1>6, <2>1, <2>2, SlotsMovedTo, Zenon DEF IInv
<1>10. SenderOK(tx'[s], list.is_popped[s])
  BY <1>1, <1>4 DEF SenderOK
<1>11. waiting' # <<>> => freeq' = <<>>
  BY <1>1 DEF IInv, Wakes
<1>12. QED
  BY <1>1, <1>4, <1>7, <1>8, <1>9, <1>10, <1>11, SenderStep

LEMMA WakeStep ==
  ASSUME IInv, NEW s \in Senders, Wake(s)
  PROVE  IInv'
<1>1. /\ tx[s].pc \in {"wake", "last_wake"}
      /\ SenderOK(tx[s], list.is_popped[s])
      /\ UNCHANGED <<num_senders, receiver_dropped, freeq, readyq, slots,
                     list, waiting>>
      /\ receiver_waker' = FALSE
  BY DEF Wake, WakeReceiver, IInv, Locals, line, queues
<1>2. /\ tx' \in [Senders -> SenderType]
      /\ \A t \in Senders \ {s} : tx'[t] = tx[t]
      /\ tx'[s].pc = IF tx[s].pc = "wake" THEN "idle" ELSE "gone"
      /\ tx'[s].slot = tx[s].slot /\ tx'[s].granted = tx[s].granted
      /\ tx'[s].link = tx[s].link /\ tx'[s].sent = tx[s].sent
  BY ZenonT(60) DEF Wake, IInv, Types, SenderType
<1>3. PICK w \in BOOLEAN : w = (rx.woken \/ receiver_waker)
  OBVIOUS
<1>4. rx' = [rx EXCEPT !.woken = w]
  BY <1>3, Zenon DEF Wake, WakeReceiver
<1>5. /\ rx' \in ReceiverType /\ rx'.woken = w /\ rx'.pc = rx.pc
      /\ rx'.slot = rx.slot /\ rx'.waker = rx.waker /\ rx'.async = rx.async
  BY <1>4 DEF IInv, Types, ReceiverType
<1>6. Types'
  BY <1>1, <1>2, <1>5 DEF IInv, Types
<1>7. Counted'
  <2>1. Alive(tx') = Alive(tx)
    BY <1>1, <1>2 DEF Alive
  <2>2. QED
    BY <1>1, <2>1, CountKept DEF IInv
<1>8. Locals'
  <2>1. SenderOK(tx'[s], list.is_popped[s])
    BY <1>1, <1>2 DEF SenderOK
  <2>2. QED
    BY <1>1, <1>2, <1>5, <2>1 DEF IInv, Locals, ReceiverOK
<1>9. Line'
  BY <1>1, <1>2, LineKept DEF IInv, line
<1>10. SlotsPlaced'
  BY <1>1, <1>2, <1>5, SlotsKept DEF IInv
<1>11. Wakes'
  <2>1. rx'.async => rx'.woken
    BY <1>3, <1>5 DEF IInv, Wakes
  <2>2. \A t \in Senders : tx'[t].pc = "pending" => tx'[t] = tx[t]
    BY <1>2
  <2>3. QED
    BY <1>1, <1>5, <2>1, <2>2 DEF IInv, Wakes
<1>12. QED
  BY <1>6, <1>7, <1>8, <1>9, <1>10, <1>11 DEF IInv

(* A link that is in no line is forgotten.                                 *)
LEMMA LinkDropped ==
  ASSUME NEW l \in ListType, NEW q \in Seq(Senders), NoRepeats(q),
         Spells(l, q), NEW s \in Senders, s \notin Members(q),
         \A t \in Senders \ {s} :
           t \in Members(q) <=> tx[t].link /\ ~ l.is_popped[t],
         \A t \in Senders \ {s} : tx'[t] = tx[t],
         ~ tx'[s].link, list' = WL!NewLink(l, s), waiting' = q
  PROVE  /\ Line' /\ list' \in ListType
         /\ ~ list'.is_popped[s]
         /\ \A t \in Senders \ {s} : list'.is_popped[t] = l.is_popped[t]
<1>1. /\ list' \in ListType /\ list'.head = l.head /\ list'.tail = l.tail
      /\ ~ list'.is_popped[s]
      /\ \A t \in Senders \ {s} :
           /\ list'.prev[t] = l.prev[t] /\ list'.next[t] = l.next[t]
           /\ list'.is_popped[t] = l.is_popped[t]
  BY NewLinkFacts
<1>2. \A t \in Members(q) : t \in Senders \ {s}
  BY ElementOfSeq DEF Members
<1>3. Spells(list', q)
  BY <1>1, <1>2, SpellsLocal
<1>4. QED
  BY <1>1, <1>3 DEF Line

LEMMA SendPoppedStep ==
  ASSUME IInv, NEW s \in Senders, SendPopped(s)
  PROVE  IInv'
<1>1. /\ tx[s].pc = "pending" /\ tx[s].link /\ list.is_popped[s]
      /\ SenderOK(tx[s], list.is_popped[s])
      /\ UNCHANGED <<num_senders, receiver_waker, receiver_dropped, rx,
                     freeq, readyq, slots, waiting>>
      /\ list' = WL!NewLink(list, s)
  BY DEF SendPopped, Polled, IInv, Locals, SenderOK, queues
<1>2. PICK g \in SlotOrNone : g = tx[s].granted
  BY DEF IInv, Types, SenderType
<1>3. /\ tx' \in [Senders -> SenderType]
      /\ \A t \in Senders \ {s} : tx'[t] = tx[t]
      /\ tx'[s].pc = IF g = None THEN "idle" ELSE "write"
      /\ tx'[s].slot = g /\ tx'[s].granted = None
      /\ ~ tx'[s].link /\ tx'[s].sent = tx[s].sent
  BY <1>2 DEF SendPopped, IInv, Types, SenderType, SlotOrNone
<1>4. s \notin Members(waiting)
  BY <1>1 DEF IInv, Line
<1>5. /\ Line' /\ list' \in ListType /\ ~ list'.is_popped[s]
      /\ \A t \in Senders \ {s} : list'.is_popped[t] = list.is_popped[t]
  BY <1>1, <1>3, <1>4, LinkDropped, Zenon DEF IInv, Types, Line
<1>6. Types'
  BY <1>1, <1>3, <1>5 DEF IInv, Types
<1>7. tx[s].slot = None
  BY <1>1 DEF SenderOK
<1>8. SlotsPlaced'
  <2>1. CASE g = None
    <3>1. \A t \in Senders :
            tx'[t].slot = tx[t].slot /\ tx'[t].granted = tx[t].granted
      BY <1>2, <1>3, <1>7, <2>1
    <3>2. QED
      BY <1>1, <3>1, SlotsKept DEF IInv
  <2>2. CASE g # None
    <3> DEFINE a == <<"given", s>>
               b == <<"sender", s>>
    <3>1. ASSUME NEW c, NEW d, Holds(c, freeq, readyq, tx, rx),
                 Holds(d, freeq', readyq', tx', rx')
          PROVE  Moves(g, a, b, c, d)
      <4>1. /\ d[<<"free", None>>] = c[<<"free", None>>]
            /\ d[<<"ready", None>>] = c[<<"ready", None>>]
            /\ d[<<"receiver", None>>] = c[<<"receiver", None>>]
        BY <1>1, <3>1 DEF Holds
      <4>2. ASSUME NEW t \in Senders
            PROVE  /\ c[<<"given", t>>] = {tx[t].granted} \ {None}
                   /\ c[<<"sender", t>>] = {tx[t].slot} \ {None}
                   /\ d[<<"given", t>>] = {tx'[t].granted} \ {None}
                   /\ d[<<"sender", t>>] = {tx'[t].slot} \ {None}
        BY <3>1, Zenon DEF Holds
      <4>3. d[a] = c[a] \ {g} /\ g \in c[a] /\ d[b] = c[b] \cup {g}
        BY <1>2, <1>3, <1>7, <2>2, <4>2
      <4>4. ASSUME NEW t \in Senders, t # s
            PROVE  /\ d[<<"given", t>>] = c[<<"given", t>>]
                   /\ d[<<"sender", t>>] = c[<<"sender", t>>]
        <5>1. tx'[t] = tx[t]
          BY <1>3, <4>4
        <5>2. QED
          BY <4>2, <5>1, Zenon
      <4>5. \A p \in PlaceNames \ {a, b} : d[p] = c[p]
        BY <4>1, <4>4, PlaceFacts, Zenon
      <4>6. a \in PlaceNames /\ b \in PlaceNames /\ a # b
        BY PlaceFacts
      <4>7. QED
        BY <4>3, <4>5, <4>6, Zenon DEF Moves
    <3>2. NoRepeats(freeq') /\ NoRepeats(readyq')
      BY <1>1 DEF IInv, SlotsPlaced
    <3> HIDE DEF a, b
    <3>3. QED
      BY <1>1, <3>1, <3>2, SlotsMovedTo, Zenon DEF IInv
  <2>3. QED
    BY <2>1, <2>2
<1>9. SenderOK(tx'[s], list'.is_popped[s])
  BY <1>1, <1>3 DEF SenderOK
<1>10. waiting' # <<>> => freeq' = <<>>
  BY <1>1 DEF IInv, Wakes
<1>11. QED
  BY <1>1, <1>3, <1>5, <1>6, <1>8, <1>9, <1>10, SenderStep

LEMMA SendWaitsStep ==
  ASSUME IInv, NEW s \in Senders, SendWaits(s)
  PROVE  IInv'
<1> DEFINE m == WL!NewLink(list, s)
<1>1. /\ tx[s].pc = "idle" /\ ~ tx[s].link /\ tx[s].sent < MaxSent
      /\ SenderOK(tx[s], list.is_popped[s])
      /\ UNCHANGED <<num_senders, receiver_waker, receiver_dropped, rx,
                     freeq, readyq, slots>>
      /\ list' = WL!push(m, s) /\ waiting' = Append(waiting, s)
      /\ list.head # None \/ freeq = <<>>
  BY DEF SendWaits, Polled, IInv, Locals, SenderOK, queues
<1>2. /\ tx' \in [Senders -> SenderType]
      /\ \A t \in Senders \ {s} : tx'[t] = tx[t]
      /\ tx'[s].pc = "pending"
      /\ tx'[s].slot = tx[s].slot /\ tx'[s].granted = tx[s].granted
      /\ tx'[s].link /\ tx'[s].sent = tx[s].sent
  BY Zenon DEF SendWaits, IInv, Types, SenderType
<1>3. /\ s \notin Members(waiting) /\ waiting \in Seq(Senders)
      /\ list \in ListType
  BY <1>1 DEF IInv, Line, Types
<1>4. /\ m \in ListType /\ m.head = list.head /\ m.tail = list.tail
      /\ m.prev[s] = None /\ m.next[s] = None /\ ~ m.is_popped[s]
      /\ \A t \in Senders \ {s} :
           /\ m.prev[t] = list.prev[t] /\ m.next[t] = list.next[t]
           /\ m.is_popped[t] = list.is_popped[t]
  BY <1>3, NewLinkFacts
<1> HIDE DEF m
<1>5. Spells(m, waiting)
  <2>1. \A t \in Members(waiting) : t \in Senders \ {s}
    BY <1>3, ElementOfSeq DEF Members
  <2>2. QED
    BY <1>3, <1>4, <2>1, SpellsLocal DEF IInv, Line
<1>6. /\ list' \in ListType /\ Spells(list', waiting')
      /\ list'.is_popped = m.is_popped
  BY <1>1, <1>3, <1>4, <1>5, PushFacts
<1>7. /\ waiting' \in Seq(Senders) /\ NoRepeats(waiting')
      /\ Members(waiting') = Members(waiting) \cup {s}
  BY <1>1, <1>3, AppendFacts DEF IInv, Line
<1>8. Types'
  BY <1>1, <1>2, <1>6, <1>7 DEF IInv, Types
<1>9. Line'
  BY <1>2, <1>4, <1>6, <1>7 DEF IInv, Line
<1>10. SlotsPlaced'
  BY <1>1, <1>2, SlotsKept DEF IInv
<1>11. SenderOK(tx'[s], list'.is_popped[s])
  BY <1>1, <1>2, <1>4, <1>6 DEF SenderOK
<1>12. waiting' # <<>> => freeq' = <<>>
  BY <1>1, <1>3 DEF IInv, Wakes, Line, Spells
<1>13. \A t \in Senders \ {s} : list'.is_popped[t] = list.is_popped[t]
  BY <1>4, <1>6
<1>14. ~ list'.is_popped[s]
  BY <1>4, <1>6
<1>15. QED
  BY <1>1, <1>2, <1>8, <1>9, <1>10, <1>11, <1>12, <1>13, <1>14, SenderStep

LEMMA UnlinkStep ==
  ASSUME IInv, NEW s \in Senders, Unlink(s)
  PROVE  IInv'
<1> DEFINE m == WL!remove_from_list(list, s)
<1>1. /\ tx[s].pc = "unlink" /\ tx[s].link
      /\ SenderOK(tx[s], list.is_popped[s])
      /\ UNCHANGED <<num_senders, receiver_waker, receiver_dropped, rx,
                     freeq, readyq, slots>>
      /\ list' = WL!NewLink(m, s)
  BY DEF Unlink, IInv, Locals, SenderOK, queues
<1>2. /\ tx' \in [Senders -> SenderType]
      /\ \A t \in Senders \ {s} : tx'[t] = tx[t]
      /\ tx'[s].pc = IF tx[s].granted = None THEN "idle" ELSE "giveback"
      /\ tx'[s].slot = tx[s].slot /\ tx'[s].granted = tx[s].granted
      /\ ~ tx'[s].link /\ tx'[s].sent = tx[s].sent
  <2>1. PICK pc \in {"idle", "giveback"} :
          pc = IF tx[s].granted = None THEN "idle" ELSE "giveback"
    OBVIOUS
  <2>2. PICK no \in BOOLEAN : no = FALSE
    OBVIOUS
  <2>3. tx' = [tx EXCEPT ![s].pc = pc, ![s].link = no]
    BY <2>1, <2>2, Zenon DEF Unlink
  <2>4. tx \in [Senders -> SenderType]
    BY DEF IInv, Types
  <2>5. PICK r : r = [tx[s] EXCEPT !.pc = pc, !.link = no]
    OBVIOUS
  <2>6. /\ r \in SenderType /\ r.pc = pc /\ r.slot = tx[s].slot
        /\ r.granted = tx[s].granted /\ r.link = no
        /\ r.sent = tx[s].sent
    BY <2>4, <2>5 DEF SenderType
  <2>7. tx' = [tx EXCEPT ![s] = r]
    BY <2>3, <2>4, <2>5
  <2>8. QED
    BY <2>1, <2>2, <2>4, <2>6, <2>7
<1>3. /\ waiting \in Seq(Senders) /\ NoRepeats(waiting) /\ list \in ListType
      /\ Spells(list, waiting) /\ tx \in [Senders -> SenderType]
      /\ \A t \in Senders :
           t \in Members(waiting) <=> tx[t].link /\ ~ list.is_popped[t]
  BY DEF IInv, Types, Line
<1>4. /\ m \in ListType /\ waiting' \in Seq(Senders) /\ NoRepeats(waiting')
      /\ Spells(m, waiting') /\ s \notin Members(waiting')
      /\ \A t \in Senders \ {s} :
           /\ m.is_popped[t] = list.is_popped[t]
           /\ t \in Members(waiting') <=> t \in Members(waiting)
      /\ waiting' # <<>> => waiting # <<>>
  <2>1. CASE list.is_popped[s]
    <3>1. m = list
      BY <2>1, RemovePopped, Zenon
    <3>2. s \notin Members(waiting)
      BY <1>3, <2>1
    <3>3. waiting' = waiting
      BY <3>2 DEF Unlink, Members
    <3>4. QED
      BY <1>3, <3>1, <3>2, <3>3
  <2>2. CASE ~ list.is_popped[s]
    <3>1. s \in Members(waiting)
      BY <1>1, <1>3, <2>2
    <3>2. PICK k \in 1 .. Len(waiting) :
            /\ waiting[k] = s
            /\ waiting' = SubSeq(waiting, 1, k - 1)
                            \o SubSeq(waiting, k + 1, Len(waiting))
      BY <3>1 DEF Unlink, Members
    <3>3. /\ m \in ListType /\ Spells(m, waiting')
          /\ m.is_popped = [list.is_popped EXCEPT ![s] = TRUE]
      BY <1>3, <3>2, RemoveFacts
    <3>4. /\ waiting' \in Seq(Senders) /\ NoRepeats(waiting')
          /\ Members(waiting') = Members(waiting) \ {s}
      <4>1. PICK q \in Seq(Senders) : q = waiting /\ NoRepeats(q)
        BY <1>3
      <4>2. k \in 1 .. Len(q) /\ q[k] = s
            /\ waiting' = SubSeq(q, 1, k - 1) \o SubSeq(q, k + 1, Len(q))
        BY <3>2, <4>1
      <4>3. QED
        <5> DEFINE r == SubSeq(q, 1, k - 1) \o SubSeq(q, k + 1, Len(q))
        <5>1. NoRepeats(q) /\ k \in 1 .. Len(q)
          BY <4>1, <4>2
        <5>2. /\ r \in Seq(Senders) /\ Len(r) = Len(q) - 1
              /\ \A i \in 1 .. k - 1 : r[i] = q[i]
              /\ \A i \in k .. Len(q) - 1 : r[i] = q[i + 1]
              /\ Members(r) = Members(q) \ {q[k]}
              /\ NoRepeats(r)
          BY <5>1, LeaveFacts, Zenon
        <5> HIDE DEF r
        <5>3. waiting' = r
          BY <4>2 DEF r
        <5>4. QED
          BY <4>1, <4>2, <5>2, <5>3
    <3>5. waiting # <<>>
      BY <1>3, <3>2, EmptySeq
    <3>6. \A t \in Senders \ {s} : m.is_popped[t] = list.is_popped[t]
      BY <1>3, <3>3 DEF ListType
    <3>7. QED
      BY <3>3, <3>4, <3>5, <3>6
  <2>3. QED
    BY <2>1, <2>2
<1> HIDE DEF m
<1>5. /\ Line' /\ list' \in ListType /\ ~ list'.is_popped[s]
      /\ \A t \in Senders \ {s} : list'.is_popped[t] = m.is_popped[t]
  <2>1. PICK q \in Seq(Senders) : q = waiting'
    BY <1>4
  <2>2. \A t \in Senders \ {s} :
          t \in Members(q) <=> tx[t].link /\ ~ m.is_popped[t]
    BY <1>3, <1>4, <2>1
  <2>3. NoRepeats(q) /\ Spells(m, q) /\ s \notin Members(q)
    BY <1>4, <2>1
  <2>4. QED
    BY <1>1, <1>2, <1>4, <2>1, <2>2, <2>3, LinkDropped
<1>6. Types'
  BY <1>1, <1>2, <1>4, <1>5 DEF IInv, Types
<1>7. SlotsPlaced'
  BY <1>1, <1>2, SlotsKept DEF IInv
<1>8. SenderOK(tx'[s], list'.is_popped[s])
  BY <1>1, <1>2 DEF SenderOK
<1>9. waiting' # <<>> => freeq' = <<>>
  BY <1>1, <1>4 DEF IInv, Wakes
<1>10. \A t \in Senders \ {s} : list'.is_popped[t] = list.is_popped[t]
  BY <1>4, <1>5
<1>11. QED
  BY <1>1, <1>2, <1>5, <1>6, <1>7, <1>8, <1>9, <1>10, SenderStep

-----------------------------------------------------------------------------
(* Slots that come back.                                                   *)

(* The head of the line is popped.                                         *)
LEMMA PopLine ==
  ASSUME IInv, list.head # None, list' = WL!pop(list),
         waiting' = Tail(waiting),
         \A t \in Senders : tx'[t].link = tx[t].link
  PROVE  /\ list.head \in Senders /\ list' \in ListType
         /\ waiting' \in Seq(Senders) /\ Line' /\ freeq = <<>>
         /\ list'.is_popped[list.head]
         /\ \A t \in Senders \ {list.head} :
              list'.is_popped[t] = list.is_popped[t]
         /\ tx[list.head].pc \in {"pending", "unlink"}
         /\ tx[list.head].granted = None
<1>1. /\ list \in ListType /\ waiting \in Seq(Senders)
      /\ NoRepeats(waiting) /\ Spells(list, waiting)
      /\ tx \in [Senders -> SenderType]
      /\ \A t \in Senders :
           t \in Members(waiting) <=> tx[t].link /\ ~ list.is_popped[t]
  BY DEF IInv, Types, Line
<1>2. waiting # <<>>
  BY <1>1 DEF Spells
<1>3. /\ list' \in ListType /\ Spells(list', waiting')
      /\ list.head = Head(waiting)
      /\ list'.is_popped = [list.is_popped EXCEPT ![list.head] = TRUE]
  BY <1>1, <1>2, PopFacts
<1>4. /\ waiting' \in Seq(Senders) /\ NoRepeats(waiting')
      /\ list.head \in Members(waiting) /\ list.head \in Senders
      /\ Members(waiting') = Members(waiting) \ {list.head}
  BY <1>1, <1>2, <1>3, TailFacts
<1>5. /\ list'.is_popped[list.head]
      /\ \A t \in Senders \ {list.head} :
           list'.is_popped[t] = list.is_popped[t]
  BY <1>1, <1>3, <1>4 DEF ListType
<1>6. Line'
  <2>1. ASSUME NEW t \in Senders
        PROVE  t \in Members(waiting') <=> tx'[t].link /\ ~ list'.is_popped[t]
    BY <1>1, <1>4, <1>5
  <2>2. QED
    BY <1>3, <1>4, <2>1 DEF Line
<1>7. /\ tx[list.head].pc \in {"pending", "unlink"}
      /\ tx[list.head].granted = None
  BY <1>1, <1>4 DEF IInv, Locals, SenderOK
<1>8. QED
  BY <1>2, <1>3, <1>4, <1>5, <1>6, <1>7 DEF IInv, Wakes

(* A slot in a hand is not in the free queue.                              *)
LEMMA InHandNotFree ==
  ASSUME IInv, NEW i, i # None,
         rx.slot = i \/ \E s \in Senders : tx[s].granted = i
  PROVE  i \notin Members(freeq)
<1>1. PICK c : c = Content(freeq, readyq, tx, rx)
  OBVIOUS
<1>2. Holds(c, freeq, readyq, tx, rx) /\ Disjoint(PlaceNames, c)
  BY <1>1, ContentFacts, Zenon DEF IInv, SlotsPlaced
<1>3. c[<<"free", None>>] = Members(freeq)
  BY <1>2, Zenon DEF Holds
<1>4. CASE rx.slot = i
  <2>1. c[<<"receiver", None>>] = {rx.slot} \ {None}
    BY <1>2, Zenon DEF Holds
  <2>2. <<"receiver", None>> # <<"free", None>>
    OBVIOUS
  <2>3. c[<<"receiver", None>>] \cap c[<<"free", None>>] = {}
    BY <1>2, <2>2, PlaceFacts, Zenon DEF Disjoint
  <2>4. QED
    BY <1>3, <1>4, <2>1, <2>3
<1>5. CASE \E s \in Senders : tx[s].granted = i
  <2>1. PICK s \in Senders : tx[s].granted = i
    BY <1>5
  <2>2. c[<<"given", s>>] = {tx[s].granted} \ {None}
    BY <1>2, Zenon DEF Holds
  <2>3. <<"given", s>> # <<"free", None>>
    OBVIOUS
  <2>4. c[<<"given", s>>] \cap c[<<"free", None>>] = {}
    BY <1>2, <2>3, PlaceFacts, Zenon DEF Disjoint
  <2>5. QED
    BY <1>3, <2>1, <2>2, <2>4
<1>6. QED
  BY <1>4, <1>5

LEMMA GiveBackStep ==
  ASSUME IInv, NEW s \in Senders, GiveBack(s)
  PROVE  IInv'
<1> DEFINE locals == [tx EXCEPT ![s].pc = "idle", ![s].granted = None]
<1>1. /\ tx[s].pc = "giveback" /\ SenderOK(tx[s], list.is_popped[s])
      /\ UNCHANGED <<num_senders, receiver_waker, receiver_dropped, rx,
                     readyq, slots>>
      /\ return_free_slot(tx[s].granted, locals)
  BY DEF GiveBack, IInv, Locals
<1>2. PICK g \in Slots : g = tx[s].granted /\ g # None
  BY <1>1 DEF SenderOK, IInv, Types, SenderType, SlotOrNone
<1>3. /\ locals \in [Senders -> SenderType]
      /\ \A t \in Senders \ {s} : locals[t] = tx[t]
      /\ locals[s].pc = "idle"
      /\ locals[s].slot = tx[s].slot /\ locals[s].granted = None
      /\ locals[s].link = tx[s].link /\ locals[s].sent = tx[s].sent
  BY ZenonT(60) DEF IInv, Types, SenderType, SlotOrNone
<1> HIDE DEF locals
<1>4. CASE list.head = None
  <2>1. /\ tx' = locals /\ freeq' = Append(freeq, g)
        /\ list' = list /\ waiting' = waiting
    BY <1>1, <1>2, <1>4 DEF return_free_slot, line
  <2>2. g \notin Members(freeq)
    BY <1>2, InHandNotFree
  <2>3. /\ freeq' \in Seq(Slots) /\ NoRepeats(freeq')
        /\ Members(freeq') = Members(freeq) \cup {g}
    BY <2>1, <2>2, AppendFacts DEF IInv, Types, SlotsPlaced
  <2>4. Types'
    BY <1>1, <1>3, <2>1, <2>3 DEF IInv, Types
  <2>5. Line'
    BY <1>3, <2>1, LineKept DEF IInv, line
  <2>6. SlotsPlaced'
    <3> DEFINE a == <<"given", s>>
               b == <<"free", None>>
    <3>1. ASSUME NEW c, NEW d, Holds(c, freeq, readyq, tx, rx),
                 Holds(d, freeq', readyq', tx', rx')
          PROVE  Moves(g, a, b, c, d)
      <4>1. d[b] = c[b] \cup {g}
        BY <2>3, <3>1 DEF Holds
      <4>2. /\ d[<<"ready", None>>] = c[<<"ready", None>>]
            /\ d[<<"receiver", None>>] = c[<<"receiver", None>>]
        BY <1>1, <3>1 DEF Holds
      <4>3. ASSUME NEW t \in Senders
            PROVE  /\ c[<<"given", t>>] = {tx[t].granted} \ {None}
                   /\ c[<<"sender", t>>] = {tx[t].slot} \ {None}
                   /\ d[<<"given", t>>] = {locals[t].granted} \ {None}
                   /\ d[<<"sender", t>>] = {locals[t].slot} \ {None}
        BY <2>1, <3>1, Zenon DEF Holds
      <4>4. /\ d[a] = c[a] \ {g} /\ g \in c[a]
            /\ d[<<"sender", s>>] = c[<<"sender", s>>]
        <5>1. /\ c[a] = {tx[s].granted} \ {None}
              /\ d[a] = {locals[s].granted} \ {None}
              /\ c[<<"sender", s>>] = {tx[s].slot} \ {None}
              /\ d[<<"sender", s>>] = {locals[s].slot} \ {None}
          BY <4>3
        <5>2. locals[s].granted = None /\ locals[s].slot = tx[s].slot
          BY <1>3
        <5>3. QED
          BY <1>2, <5>1, <5>2
      <4>5. ASSUME NEW t \in Senders, t # s
            PROVE  /\ d[<<"given", t>>] = c[<<"given", t>>]
                   /\ d[<<"sender", t>>] = c[<<"sender", t>>]
        <5>1. locals[t] = tx[t]
          BY <1>3, <4>5
        <5>2. QED
          BY <4>3, <5>1, Zenon
      <4>6. \A p \in PlaceNames \ {a, b} : d[p] = c[p]
        BY <4>2, <4>4, <4>5, PlaceFacts, Zenon
      <4>7. a \in PlaceNames /\ b \in PlaceNames /\ a # b
        BY PlaceFacts
      <4>8. QED
        BY <4>1, <4>4, <4>6, <4>7, Zenon DEF Moves
    <3>2. NoRepeats(readyq')
      BY <1>1 DEF IInv, SlotsPlaced
    <3> HIDE DEF a, b
    <3>3. QED
      BY <1>1, <2>3, <3>1, <3>2, SlotsMovedTo, Zenon DEF IInv
  <2>7. SenderOK(tx'[s], list.is_popped[s])
    BY <1>1, <1>3, <2>1 DEF SenderOK
  <2>8. waiting = <<>>
    <3>1. waiting # <<>> => 1 \in 1 .. Len(waiting)
      BY EmptySeq DEF IInv, Types
    <3>2. waiting # <<>> => list.head \in Senders
      BY <3>1, ElementOfSeq DEF IInv, Types, Line, Spells
    <3>3. QED
      BY <1>4, <3>2, ChannelAssumption
  <2>9. QED
    BY <1>1, <1>3, <2>1, <2>4, <2>5, <2>6, <2>7, <2>8, SenderStep
<1>5. CASE list.head # None
  <2>1. PICK h : h = list.head
    OBVIOUS
  <2>2. /\ list' = WL!pop(list) /\ waiting' = Tail(waiting) /\ freeq' = freeq
        /\ tx' = [locals EXCEPT ![h].granted = g, ![h].woken = TRUE]
    BY <1>1, <1>2, <1>5, <2>1 DEF return_free_slot
  <2>3. \A t \in Senders : tx'[t].link = tx[t].link
    BY <1>3, <2>2 DEF SenderType
  <2>4. /\ h \in Senders /\ list' \in ListType
        /\ waiting' \in Seq(Senders) /\ Line' /\ freeq = <<>>
        /\ list'.is_popped[h]
        /\ \A t \in Senders \ {h} : list'.is_popped[t] = list.is_popped[t]
        /\ tx[h].pc \in {"pending", "unlink"} /\ tx[h].granted = None
    BY <1>5, <2>1, <2>2, <2>3, PopLine
  <2>5. h # s
    BY <1>1, <2>4
  <2>6. /\ tx' \in [Senders -> SenderType]
        /\ \A t \in Senders \ {h} : tx'[t] = locals[t]
        /\ tx'[h].pc = tx[h].pc /\ tx'[h].slot = tx[h].slot
        /\ tx'[h].granted = g /\ tx'[h].woken /\ tx'[h].sent = tx[h].sent
        /\ tx'[h].link = tx[h].link
    BY <1>3, <2>2, <2>4, <2>5, Zenon DEF SenderType, SlotOrNone
  <2>7. Types'
    BY <1>1, <2>2, <2>4, <2>6 DEF IInv, Types
  <2>8. Counted'
    <3>1. Alive(tx') = Alive(tx)
      BY <1>1, <1>3, <2>4, <2>6 DEF Alive
    <3>2. QED
      BY <1>1, <3>1, CountKept DEF IInv
  <2>9. Locals'
    <3>1. SenderOK(tx'[h], list'.is_popped[h])
      BY <2>4, <2>6 DEF IInv, Locals, SenderOK
    <3>2. SenderOK(tx'[s], list'.is_popped[s])
      BY <1>1, <1>3, <2>4, <2>5, <2>6 DEF SenderOK
    <3>3. ASSUME NEW t \in Senders, t # s, t # h
          PROVE  SenderOK(tx'[t], list'.is_popped[t])
      BY <1>3, <2>4, <2>6, <3>3 DEF IInv, Locals
    <3>4. QED
      BY <1>1, <3>1, <3>2, <3>3 DEF IInv, Locals, ReceiverOK
  <2>10. SlotsPlaced'
    <3> DEFINE a == <<"given", s>>
               b == <<"given", h>>
    <3>1. ASSUME NEW c, NEW d, Holds(c, freeq, readyq, tx, rx),
                 Holds(d, freeq', readyq', tx', rx')
          PROVE  Moves(g, a, b, c, d)
      <4>1. /\ d[<<"free", None>>] = c[<<"free", None>>]
            /\ d[<<"ready", None>>] = c[<<"ready", None>>]
            /\ d[<<"receiver", None>>] = c[<<"receiver", None>>]
        BY <1>1, <2>2, <3>1 DEF Holds
      <4>2. ASSUME NEW t \in Senders
            PROVE  /\ c[<<"given", t>>] = {tx[t].granted} \ {None}
                   /\ c[<<"sender", t>>] = {tx[t].slot} \ {None}
                   /\ d[<<"given", t>>] = {tx'[t].granted} \ {None}
                   /\ d[<<"sender", t>>] = {tx'[t].slot} \ {None}
        BY <3>1, Zenon DEF Holds
      <4>3. /\ d[a] = c[a] \ {g} /\ g \in c[a] /\ d[b] = c[b] \cup {g}
            /\ d[<<"sender", s>>] = c[<<"sender", s>>]
            /\ d[<<"sender", h>>] = c[<<"sender", h>>]
        <5>1. /\ tx'[s].granted = None /\ tx'[s].slot = tx[s].slot
              /\ tx'[h].granted = g /\ tx'[h].slot = tx[h].slot
              /\ tx[h].granted = None
          BY <1>3, <2>4, <2>5, <2>6
        <5>2. /\ c[a] = {tx[s].granted} \ {None}
              /\ d[a] = {tx'[s].granted} \ {None}
              /\ c[b] = {tx[h].granted} \ {None}
              /\ d[b] = {tx'[h].granted} \ {None}
              /\ c[<<"sender", s>>] = {tx[s].slot} \ {None}
              /\ d[<<"sender", s>>] = {tx'[s].slot} \ {None}
              /\ c[<<"sender", h>>] = {tx[h].slot} \ {None}
              /\ d[<<"sender", h>>] = {tx'[h].slot} \ {None}
          BY <2>4, <4>2
        <5>3. QED
          BY <1>2, <5>1, <5>2
      <4>4. ASSUME NEW t \in Senders, t # s, t # h
            PROVE  /\ d[<<"given", t>>] = c[<<"given", t>>]
                   /\ d[<<"sender", t>>] = c[<<"sender", t>>]
        <5>1. tx'[t] = tx[t]
          BY <1>3, <2>6, <4>4
        <5>2. QED
          BY <4>2, <5>1, Zenon
      <4>5. \A p \in PlaceNames \ {a, b} : d[p] = c[p]
        BY <4>1, <4>3, <4>4, PlaceFacts, Zenon
      <4>6. a \in PlaceNames /\ b \in PlaceNames /\ a # b
        BY <2>4, <2>5, PlaceFacts
      <4>7. QED
        BY <4>3, <4>5, <4>6, Zenon DEF Moves
    <3>2. NoRepeats(freeq') /\ NoRepeats(readyq')
      BY <1>1, <2>2 DEF IInv, SlotsPlaced
    <3> HIDE DEF a, b
    <3>3. QED
      BY <1>1, <3>1, <3>2, SlotsMovedTo, Zenon DEF IInv
  <2>11. Wakes'
    <3>1. ASSUME NEW t \in Senders, tx'[t].pc = "pending", list'.is_popped[t]
          PROVE  tx'[t].woken \/ rx'.waker = t
      <4>1. CASE t = h
        BY <2>6, <4>1
      <4>2. CASE t # h
        <5>1. t # s
          BY <1>3, <2>6, <3>1, <4>2
        <5>2. tx'[t] = tx[t] /\ list'.is_popped[t] = list.is_popped[t]
          BY <1>3, <2>4, <2>6, <4>2, <5>1
        <5>3. QED
          BY <1>1, <3>1, <5>2 DEF IInv, Wakes
      <4>3. QED
        BY <4>1, <4>2
    <3>2. Waking(tx) => Waking(tx')
      <4>1. \A t \in Senders : tx[t].pc \in {"wake", "last_wake"} =>
              tx'[t].pc \in {"wake", "last_wake"}
        BY <1>1, <1>3, <2>4, <2>6, ZenonT(60)
      <4>2. QED
        BY <4>1, WakingKept
    <3>3. QED
      BY <1>1, <2>2, <2>4, <3>1, <3>2 DEF IInv, Wakes
  <2>12. QED
    BY <2>4, <2>7, <2>8, <2>9, <2>10, <2>11 DEF IInv
<1>6. QED
  BY <1>4, <1>5

-----------------------------------------------------------------------------
(* Steps of the receiver.                                                  *)

LEMMA ReceiverQuietStep ==
  ASSUME IInv, rx' \in ReceiverType, ReceiverOK',
         UNCHANGED <<freeq, readyq, num_senders, line, tx>>,
         slots' \in [Slots -> Messages \cup {None}],
         receiver_dropped' \in BOOLEAN, receiver_waker' \in BOOLEAN,
         ~ receiver_dropped' => ~ receiver_dropped,
         rx'.slot = rx.slot, rx'.waker = rx.waker,
         rx'.async => receiver_waker' \/ rx'.woken,
         rx'.async /\ \/ rx'.pc \in {"closed", "pending"} /\ readyq # <<>>
                      \/ rx'.pc = "pending" /\ num_senders = 0
           => rx'.woken \/ (receiver_waker' /\ Waking(tx))
  PROVE  IInv'
<1>1. Types'
  BY DEF IInv, Types, line
<1>2. Counted'
  BY CountKept DEF IInv
<1>3. Locals'
  BY DEF IInv, Locals, line
<1>4. Line'
  BY LineKept DEF IInv
<1>5. SlotsPlaced'
  BY SlotsKept DEF IInv
<1>6. Wakes'
  BY DEF IInv, Wakes, line
<1>7. QED
  BY <1>1, <1>2, <1>3, <1>4, <1>5, <1>6 DEF IInv

LEMMA RegisterStep ==
  ASSUME IInv, Register
  PROVE  IInv'
<1>1. /\ rx.pc \in {"idle", "pending"} /\ receiver_waker'
      /\ rx' \in ReceiverType /\ rx'.pc = "pop" /\ rx'.async
      /\ rx'.slot = rx.slot /\ rx'.waker = rx.waker
  BY DEF Register, IInv, Types, ReceiverType
<1>2. ReceiverOK'
  BY <1>1 DEF Register, IInv, Locals, ReceiverOK
<1>3. receiver_waker' \in BOOLEAN
  BY DEF Register
<1>4. QED
  BY <1>1, <1>2, <1>3, ReceiverQuietStep DEF Register, queues, IInv, Types

LEMMA ReadSlotStep ==
  ASSUME IInv, ReadSlot
  PROVE  IInv'
<1>1. rx.pc = "read" /\ rx.slot \in Slots
  BY DEF ReadSlot, IInv, Types, Locals, ReceiverOK, ReceiverType, SlotOrNone
<1>2. slots[rx.slot] \in Messages \cup {None}
  BY <1>1 DEF IInv, Types
<1>3. /\ rx' \in ReceiverType /\ rx'.pc = "return"
      /\ rx'.slot = rx.slot /\ rx'.waker = rx.waker
      /\ rx'.async = rx.async /\ rx'.woken = rx.woken
  BY <1>2 DEF ReadSlot, IInv, Types, ReceiverType
<1>4. slots' \in [Slots -> Messages \cup {None}]
  BY DEF ReadSlot, IInv, Types
<1>5. ReceiverOK'
  BY <1>1, <1>3 DEF ReadSlot, IInv, Locals, ReceiverOK
<1>6. QED
  BY <1>1, <1>3, <1>4, <1>5, ReceiverQuietStep
     DEF ReadSlot, IInv, Types, Wakes

LEMMA RecvIsClosedStep ==
  ASSUME IInv, RecvIsClosed
  PROVE  IInv'
<1>1. /\ rx.pc = "closed" /\ rx' \in ReceiverType
      /\ rx'.slot = rx.slot /\ rx'.waker = rx.waker /\ rx'.woken = rx.woken
      /\ \/ /\ rx'.pc = "pending" /\ num_senders # 0
            /\ rx.async /\ rx'.async
         \/ rx'.pc = "idle" /\ ~ rx'.async
  <2>1. CASE num_senders # 0 /\ rx.async
    BY <2>1 DEF RecvIsClosed, IInv, Types, ReceiverType
  <2>2. CASE ~ (num_senders # 0 /\ rx.async)
    BY <2>2 DEF RecvIsClosed, IInv, Types, ReceiverType
  <2>3. QED
    BY <2>1, <2>2
<1>2. ReceiverOK'
  BY <1>1 DEF RecvIsClosed, IInv, Locals, ReceiverOK
<1>3. /\ UNCHANGED <<freeq, readyq, slots, num_senders, line, tx>>
      /\ UNCHANGED <<receiver_dropped, receiver_waker>>
  BY DEF RecvIsClosed, queues
<1>4. /\ rx.async => receiver_waker \/ rx.woken
      /\ rx.async /\ readyq # <<>>
           => rx.woken \/ (receiver_waker /\ Waking(tx))
  BY <1>1 DEF IInv, Wakes
<1>5. QED
  BY <1>1, <1>2, <1>3, <1>4, ReceiverQuietStep DEF IInv, Types

LEMMA CancelRecvStep ==
  ASSUME IInv, CancelRecv
  PROVE  IInv'
<1>1. /\ rx.pc = "pending" /\ rx' \in ReceiverType
      /\ rx'.slot = rx.slot /\ rx'.waker = rx.waker
      /\ rx'.pc = "idle" /\ ~ rx'.async
  BY DEF CancelRecv, IInv, Types, ReceiverType
<1>2. ReceiverOK'
  BY <1>1 DEF CancelRecv, IInv, Locals, ReceiverOK
<1>3. QED
  BY <1>1, <1>2, ReceiverQuietStep DEF CancelRecv, queues, IInv, Types

LEMMA DropReceiverStep ==
  ASSUME IInv, DropReceiver
  PROVE  IInv'
<1>1. /\ rx.pc = "idle" /\ rx' \in ReceiverType /\ rx'.pc = "drain"
      /\ rx'.slot = rx.slot /\ rx'.waker = rx.waker
      /\ rx'.async = rx.async /\ rx'.woken = rx.woken
  BY DEF DropReceiver, IInv, Types, ReceiverType
<1>3. receiver_dropped' \in BOOLEAN /\ receiver_dropped'
  BY DEF DropReceiver
<1>2. ReceiverOK'
  BY <1>1, <1>3 DEF IInv, Locals, ReceiverOK
<1>4. QED
  BY <1>1, <1>2, <1>3, ReceiverQuietStep
     DEF DropReceiver, queues, IInv, Types, Wakes

LEMMA PopReadyStep ==
  ASSUME IInv, PopReady
  PROVE  IInv'
<1>1. /\ rx.pc \in {"idle", "pop"} /\ rx.slot = None /\ rx.waker = None
      /\ UNCHANGED <<num_senders, receiver_waker, receiver_dropped, tx,
                     freeq, slots, list, waiting>>
  BY DEF PopReady, IInv, Locals, ReceiverOK, line
<1>2. CASE readyq = <<>>
  <2>1. /\ rx' \in ReceiverType /\ rx'.pc = "closed" /\ readyq' = readyq
        /\ rx'.slot = rx.slot /\ rx'.waker = rx.waker
        /\ rx'.async = rx.async /\ rx'.woken = rx.woken
    BY <1>2 DEF PopReady, IInv, Types, ReceiverType
  <2>2. ReceiverOK'
    BY <1>1, <2>1 DEF IInv, Locals, ReceiverOK
  <2>3. QED
    BY <1>1, <1>2, <2>1, <2>2, ReceiverQuietStep DEF line, IInv, Types, Wakes
<1>3. CASE readyq # <<>>
  <2>1. PICK i \in Slots : i = Head(readyq)
    BY <1>3, TailFacts DEF IInv, Types, SlotsPlaced
  <2>0. readyq' = Tail(readyq) /\ readyq \in Seq(Slots) /\ NoRepeats(readyq)
    BY <1>3 DEF PopReady, IInv, Types, SlotsPlaced
  <2>2. /\ readyq' \in Seq(Slots)
        /\ NoRepeats(readyq') /\ i \in Members(readyq)
        /\ Members(readyq') = Members(readyq) \ {i}
    BY <1>3, <2>0, <2>1, TailFacts
  <2>3. rx' = [rx EXCEPT !.pc = "read", !.slot = i]
    BY <1>3, <2>1 DEF PopReady
  <2>4. /\ rx' \in ReceiverType /\ rx'.pc = "read" /\ rx'.slot = i
        /\ rx'.waker = rx.waker
        /\ rx'.async = rx.async /\ rx'.woken = rx.woken
    BY <2>3 DEF IInv, Types, ReceiverType, SlotOrNone
  <2>5. i # None
    BY SlotNotNone
  <2>6. Types'
    BY <1>1, <2>2, <2>4 DEF IInv, Types
  <2>7. Counted'
    BY <1>1, CountKept DEF IInv
  <2>8. Locals'
    BY <1>1, <2>4, <2>5 DEF IInv, Locals, ReceiverOK
  <2>9. Line'
    BY <1>1, LineKept DEF IInv, line
  <2>10. SlotsPlaced'
    <3> DEFINE a == <<"ready", None>>
               b == <<"receiver", None>>
    <3>1. ASSUME NEW c, NEW d, Holds(c, freeq, readyq, tx, rx),
                 Holds(d, freeq', readyq', tx', rx')
          PROVE  Moves(i, a, b, c, d)
      <4>1. d[<<"free", None>>] = c[<<"free", None>>]
        BY <1>1, <3>1 DEF Holds
      <4>2. d[a] = c[a] \ {i} /\ i \in c[a] /\ d[b] = c[b] \cup {i}
        BY <1>1, <2>2, <2>4, <2>5, <3>1 DEF Holds
      <4>3. ASSUME NEW t \in Senders
            PROVE  /\ d[<<"given", t>>] = c[<<"given", t>>]
                   /\ d[<<"sender", t>>] = c[<<"sender", t>>]
        <5>1. /\ c[<<"given", t>>] = {tx[t].granted} \ {None}
              /\ c[<<"sender", t>>] = {tx[t].slot} \ {None}
              /\ d[<<"given", t>>] = {tx'[t].granted} \ {None}
              /\ d[<<"sender", t>>] = {tx'[t].slot} \ {None}
          BY <3>1, Zenon DEF Holds
        <5>2. QED
          BY <1>1, <5>1
      <4>4. \A p \in PlaceNames \ {a, b} : d[p] = c[p]
        BY <4>1, <4>3, PlaceFacts, Zenon
      <4>5. a \in PlaceNames /\ b \in PlaceNames /\ a # b
        BY PlaceFacts
      <4>6. QED
        BY <4>2, <4>4, <4>5, Zenon DEF Moves
    <3>2. NoRepeats(freeq')
      BY <1>1 DEF IInv, SlotsPlaced
    <3> HIDE DEF a, b
    <3>3. QED
      BY <1>1, <2>2, <3>1, <3>2, SlotsMovedTo, Zenon DEF IInv
  <2>11. Wakes'
    BY <1>1, <2>4 DEF IInv, Wakes
  <2>12. QED
    BY <2>6, <2>7, <2>8, <2>9, <2>10, <2>11 DEF IInv
<1>4. QED
  BY <1>2, <1>3

LEMMA ReturnSlotStep ==
  ASSUME IInv, ReturnSlot
  PROVE  IInv'
<1>1. /\ rx.pc = "return" /\ rx.waker = None
      /\ UNCHANGED <<num_senders, receiver_waker, receiver_dropped,
                     readyq, slots>>
      /\ return_free_slot(rx.slot, tx)
  BY DEF ReturnSlot, IInv, Locals, ReceiverOK
<1>2. PICK g \in Slots : g = rx.slot /\ g # None
  BY <1>1 DEF IInv, Types, Locals, ReceiverOK, ReceiverType, SlotOrNone
<1>3. /\ rx' \in ReceiverType /\ rx'.pc = "idle" /\ rx'.slot = None
      /\ rx'.waker = rx.waker /\ ~ rx'.async
  BY DEF ReturnSlot, IInv, Types, ReceiverType, SlotOrNone
<1>4. ReceiverOK'
  BY <1>1, <1>3 DEF IInv, Locals, ReceiverOK
<1>5. CASE list.head = None
  <2>1. /\ tx' = tx /\ freeq' = Append(freeq, g)
        /\ list' = list /\ waiting' = waiting
    BY <1>1, <1>2, <1>5 DEF return_free_slot, line
  <2>2. g \notin Members(freeq)
    BY <1>2, InHandNotFree
  <2>3. /\ freeq' \in Seq(Slots) /\ NoRepeats(freeq')
        /\ Members(freeq') = Members(freeq) \cup {g}
    BY <2>1, <2>2, AppendFacts DEF IInv, Types, SlotsPlaced
  <2>4. Types'
    BY <1>1, <1>3, <2>1, <2>3 DEF IInv, Types
  <2>5. Counted'
    BY <1>1, <2>1, CountKept DEF IInv
  <2>6. Locals'
    BY <1>4, <2>1 DEF IInv, Locals
  <2>7. Line'
    BY <2>1, LineKept DEF IInv, line
  <2>8. SlotsPlaced'
    <3> DEFINE a == <<"receiver", None>>
               b == <<"free", None>>
    <3>1. ASSUME NEW c, NEW d, Holds(c, freeq, readyq, tx, rx),
                 Holds(d, freeq', readyq', tx', rx')
          PROVE  Moves(g, a, b, c, d)
      <4>1. d[<<"ready", None>>] = c[<<"ready", None>>]
        BY <1>1, <3>1 DEF Holds
      <4>2. d[a] = c[a] \ {g} /\ g \in c[a] /\ d[b] = c[b] \cup {g}
        BY <1>2, <1>3, <2>3, <3>1 DEF Holds
      <4>3. ASSUME NEW t \in Senders
            PROVE  /\ d[<<"given", t>>] = c[<<"given", t>>]
                   /\ d[<<"sender", t>>] = c[<<"sender", t>>]
        <5>1. /\ c[<<"given", t>>] = {tx[t].granted} \ {None}
              /\ c[<<"sender", t>>] = {tx[t].slot} \ {None}
              /\ d[<<"given", t>>] = {tx'[t].granted} \ {None}
              /\ d[<<"sender", t>>] = {tx'[t].slot} \ {None}
          BY <3>1, Zenon DEF Holds
        <5>2. QED
          BY <2>1, <5>1
      <4>4. \A p \in PlaceNames \ {a, b} : d[p] = c[p]
        BY <4>1, <4>3, PlaceFacts, Zenon
      <4>5. a \in PlaceNames /\ b \in PlaceNames /\ a # b
        BY PlaceFacts
      <4>6. QED
        BY <4>2, <4>4, <4>5, Zenon DEF Moves
    <3>2. NoRepeats(readyq')
      BY <1>1 DEF IInv, SlotsPlaced
    <3> HIDE DEF a, b
    <3>3. QED
      BY <1>1, <2>3, <3>1, <3>2, SlotsMovedTo, Zenon DEF IInv
  <2>9. Wakes'
    <3>1. waiting # <<>> => 1 \in 1 .. Len(waiting)
      BY EmptySeq DEF IInv, Types
    <3>2. waiting # <<>> => list.head \in Senders
      BY <3>1, ElementOfSeq DEF IInv, Types, Line, Spells
    <3>3. waiting' = <<>>
      BY <1>5, <2>1, <3>2, ChannelAssumption
    <3>4. QED
      BY <1>1, <1>3, <2>1, <3>3 DEF IInv, Wakes
  <2>10. QED
    BY <2>4, <2>5, <2>6, <2>7, <2>8, <2>9 DEF IInv
<1>6. CASE list.head # None
  <2>1. PICK h : h = list.head
    OBVIOUS
  <2>2. /\ list' = WL!pop(list) /\ waiting' = Tail(waiting) /\ freeq' = freeq
        /\ tx' = [tx EXCEPT ![h].granted = g, ![h].woken = TRUE]
    BY <1>1, <1>2, <1>6, <2>1 DEF return_free_slot
  <2>3. \A t \in Senders : tx'[t].link = tx[t].link
    BY <2>2 DEF IInv, Types, SenderType
  <2>4. /\ h \in Senders /\ list' \in ListType
        /\ waiting' \in Seq(Senders) /\ Line' /\ freeq = <<>>
        /\ list'.is_popped[h]
        /\ \A t \in Senders \ {h} : list'.is_popped[t] = list.is_popped[t]
        /\ tx[h].pc \in {"pending", "unlink"} /\ tx[h].granted = None
    BY <1>6, <2>1, <2>2, <2>3, PopLine
  <2>5. /\ tx' \in [Senders -> SenderType]
        /\ \A t \in Senders \ {h} : tx'[t] = tx[t]
        /\ tx'[h].pc = tx[h].pc /\ tx'[h].slot = tx[h].slot
        /\ tx'[h].granted = g /\ tx'[h].woken /\ tx'[h].sent = tx[h].sent
        /\ tx'[h].link = tx[h].link
    BY <2>2, <2>4, Zenon DEF IInv, Types, SenderType, SlotOrNone
  <2>6. Types'
    BY <1>1, <1>3, <2>2, <2>4, <2>5 DEF IInv, Types
  <2>7. Counted'
    <3>1. Alive(tx') = Alive(tx)
      BY <2>4, <2>5 DEF Alive
    <3>2. QED
      BY <1>1, <3>1, CountKept DEF IInv
  <2>8. Locals'
    <3>1. SenderOK(tx'[h], list'.is_popped[h])
      BY <2>4, <2>5 DEF IInv, Locals, SenderOK
    <3>2. ASSUME NEW t \in Senders, t # h
          PROVE  SenderOK(tx'[t], list'.is_popped[t])
      BY <2>4, <2>5, <3>2 DEF IInv, Locals
    <3>3. QED
      BY <1>4, <3>1, <3>2 DEF Locals
  <2>9. SlotsPlaced'
    <3> DEFINE a == <<"receiver", None>>
               b == <<"given", h>>
    <3>1. ASSUME NEW c, NEW d, Holds(c, freeq, readyq, tx, rx),
                 Holds(d, freeq', readyq', tx', rx')
          PROVE  Moves(g, a, b, c, d)
      <4>1. /\ d[<<"free", None>>] = c[<<"free", None>>]
            /\ d[<<"ready", None>>] = c[<<"ready", None>>]
        BY <1>1, <2>2, <3>1 DEF Holds
      <4>2. d[a] = c[a] \ {g} /\ g \in c[a]
        BY <1>2, <1>3, <3>1 DEF Holds
      <4>3. ASSUME NEW t \in Senders
            PROVE  /\ c[<<"given", t>>] = {tx[t].granted} \ {None}
                   /\ c[<<"sender", t>>] = {tx[t].slot} \ {None}
                   /\ d[<<"given", t>>] = {tx'[t].granted} \ {None}
                   /\ d[<<"sender", t>>] = {tx'[t].slot} \ {None}
        BY <3>1, Zenon DEF Holds
      <4>4. /\ d[b] = c[b] \cup {g}
            /\ d[<<"sender", h>>] = c[<<"sender", h>>]
        <5>1. /\ c[b] = {tx[h].granted} \ {None}
              /\ d[b] = {tx'[h].granted} \ {None}
              /\ c[<<"sender", h>>] = {tx[h].slot} \ {None}
              /\ d[<<"sender", h>>] = {tx'[h].slot} \ {None}
          BY <2>4, <4>3
        <5>2. /\ tx'[h].granted = g /\ tx'[h].slot = tx[h].slot
              /\ tx[h].granted = None
          BY <2>4, <2>5
        <5>3. QED
          BY <1>2, <5>1, <5>2
      <4>5. ASSUME NEW t \in Senders, t # h
            PROVE  /\ d[<<"given", t>>] = c[<<"given", t>>]
                   /\ d[<<"sender", t>>] = c[<<"sender", t>>]
        BY <2>5, <4>3, <4>5
      <4>6. \A p \in PlaceNames \ {a, b} : d[p] = c[p]
        BY <4>1, <4>4, <4>5, PlaceFacts, Zenon
      <4>7. a \in PlaceNames /\ b \in PlaceNames /\ a # b
        BY <2>4, PlaceFacts
      <4>8. QED
        BY <4>2, <4>4, <4>6, <4>7, Zenon DEF Moves
    <3>2. NoRepeats(freeq') /\ NoRepeats(readyq')
      BY <1>1, <2>2 DEF IInv, SlotsPlaced
    <3> HIDE DEF a, b
    <3>3. QED
      BY <1>1, <3>1, <3>2, SlotsMovedTo, Zenon DEF IInv
  <2>10. Wakes'
    <3>1. ASSUME NEW t \in Senders, tx'[t].pc = "pending", list'.is_popped[t]
          PROVE  tx'[t].woken \/ rx'.waker = t
      BY <1>3, <2>4, <2>5, <3>1 DEF IInv, Wakes
    <3>2. QED
      BY <1>3, <2>2, <2>4, <3>1 DEF Wakes
  <2>11. QED
    BY <2>4, <2>6, <2>7, <2>8, <2>9, <2>10 DEF IInv
<1>7. QED
  BY <1>5, <1>6

LEMMA DrainStep ==
  ASSUME IInv, Drain
  PROVE  IInv'
<1>1. /\ rx.pc = "drain"
      /\ UNCHANGED <<num_senders, receiver_waker, receiver_dropped, tx,
                     freeq, list, waiting>>
  BY DEF Drain, line
<1>2. CASE readyq = <<>>
  <2>1. /\ rx' \in ReceiverType /\ rx'.pc = "dismiss"
        /\ readyq' = readyq /\ slots' = slots
        /\ rx'.slot = rx.slot /\ rx'.waker = rx.waker
        /\ rx'.async = rx.async /\ rx'.woken = rx.woken
    BY <1>2 DEF Drain, IInv, Types, ReceiverType
  <2>2. ReceiverOK'
    BY <1>1, <2>1 DEF IInv, Locals, ReceiverOK
  <2>3. QED
    BY <1>1, <2>1, <2>2, ReceiverQuietStep DEF line, IInv, Types, Wakes
<1>3. CASE readyq # <<>>
  <2>0. /\ readyq' = SubSeq(readyq, 1, Len(readyq) - 1) /\ rx' = rx
        /\ readyq \in Seq(Slots) /\ NoRepeats(readyq)
    BY <1>3 DEF Drain, IInv, Types, SlotsPlaced
  <2>1. /\ readyq' \in Seq(Slots) /\ NoRepeats(readyq')
        /\ Members(readyq') \subseteq Members(readyq) /\ rx' = rx
    BY <1>3, <2>0, FrontFacts
  <2>2. slots' \in [Slots -> Messages \cup {None}]
    BY <1>3 DEF Drain, IInv, Types
  <2>3. Types'
    BY <1>1, <2>1, <2>2 DEF IInv, Types
  <2>4. Counted'
    BY <1>1, CountKept DEF IInv
  <2>5. Locals'
    BY <1>1, <2>1 DEF IInv, Locals, ReceiverOK
  <2>6. Line'
    BY <1>1, LineKept DEF IInv, line
  <2>7. SlotsPlaced'
    <3>1. PICK c : c = Content(freeq, readyq, tx, rx)
      OBVIOUS
    <3>2. PICK d : d = Content(freeq', readyq', tx', rx')
      OBVIOUS
    <3>3. /\ Holds(c, freeq, readyq, tx, rx)
          /\ Holds(d, freeq', readyq', tx', rx')
      BY <3>1, <3>2, ContentFacts, Zenon
    <3>4. /\ d[<<"free", None>>] \subseteq c[<<"free", None>>]
          /\ d[<<"ready", None>>] \subseteq c[<<"ready", None>>]
          /\ d[<<"receiver", None>>] \subseteq c[<<"receiver", None>>]
      BY <1>1, <2>1, <3>3 DEF Holds
    <3>5. ASSUME NEW t \in Senders
          PROVE  /\ d[<<"given", t>>] \subseteq c[<<"given", t>>]
                 /\ d[<<"sender", t>>] \subseteq c[<<"sender", t>>]
      <4>1. /\ c[<<"given", t>>] = {tx[t].granted} \ {None}
            /\ c[<<"sender", t>>] = {tx[t].slot} \ {None}
            /\ d[<<"given", t>>] = {tx'[t].granted} \ {None}
            /\ d[<<"sender", t>>] = {tx'[t].slot} \ {None}
        BY <3>3, Zenon DEF Holds
      <4>2. QED
        BY <1>1, <4>1
    <3>6. \A p \in PlaceNames : d[p] \subseteq c[p]
      BY <3>4, <3>5, PlaceFacts, Zenon
    <3>7. Disjoint(PlaceNames, d)
      BY <3>1, <3>6, FewerKeeps DEF IInv, SlotsPlaced
    <3>8. receiver_dropped'
      BY <1>1 DEF IInv, Locals, ReceiverOK
    <3>9. QED
      BY <1>1, <2>1, <3>2, <3>7, <3>8 DEF IInv, SlotsPlaced
  <2>8. Wakes'
    BY <1>1, <2>1 DEF IInv, Wakes
  <2>9. QED
    BY <2>3, <2>4, <2>5, <2>6, <2>7, <2>8 DEF IInv
<1>4. QED
  BY <1>2, <1>3

LEMMA DismissStep ==
  ASSUME IInv, Dismiss
  PROVE  IInv'
<1>1. /\ rx.pc = "dismiss" /\ rx.waker = None
      /\ UNCHANGED <<num_senders, receiver_waker, receiver_dropped, tx,
                     freeq, readyq, slots>>
  BY DEF Dismiss, queues, IInv, Locals, ReceiverOK
<1>2. CASE list.head = None
  <2>1. /\ rx' \in ReceiverType /\ rx'.pc = "gone" /\ UNCHANGED line
        /\ rx'.slot = rx.slot /\ rx'.waker = rx.waker
        /\ rx'.async = rx.async /\ rx'.woken = rx.woken
    BY <1>2 DEF Dismiss, IInv, Types, ReceiverType
  <2>2. ReceiverOK'
    BY <1>1, <2>1 DEF IInv, Locals, ReceiverOK
  <2>3. QED
    BY <1>1, <2>1, <2>2, ReceiverQuietStep DEF IInv, Types, Wakes
<1>3. CASE list.head # None
  <2>1. list' = WL!pop(list) /\ waiting' = Tail(waiting)
    BY <1>3 DEF Dismiss
  <2>2. /\ list.head \in Senders /\ list' \in ListType
        /\ waiting' \in Seq(Senders) /\ Line' /\ freeq = <<>>
        /\ list'.is_popped[list.head]
        /\ \A t \in Senders \ {list.head} :
             list'.is_popped[t] = list.is_popped[t]
        /\ tx[list.head].pc \in {"pending", "unlink"}
        /\ tx[list.head].granted = None
    BY <1>1, <1>3, <2>1, PopLine
  <2>3. PICK h \in Senders : h = list.head
    BY <2>2
  <2>4. /\ rx' \in ReceiverType /\ rx'.pc = "dismiss_wake"
        /\ rx'.slot = rx.slot /\ rx'.waker = h
        /\ rx'.async = rx.async /\ rx'.woken = rx.woken
    BY <1>3, <2>3, ZenonT(60) DEF Dismiss, IInv, Types, ReceiverType
  <2>5. Types'
    BY <1>1, <2>2, <2>4 DEF IInv, Types
  <2>6. Counted'
    BY <1>1, CountKept DEF IInv
  <2>7. Locals'
    <3>1. ASSUME NEW t \in Senders
          PROVE  SenderOK(tx[t], list'.is_popped[t])
      BY <2>2, <3>1 DEF IInv, Locals, SenderOK
    <3>2. h # None
      BY ChannelAssumption
    <3>3. ReceiverOK'
      BY <1>1, <2>4, <3>2 DEF IInv, Locals, ReceiverOK
    <3>4. QED
      BY <1>1, <3>1, <3>3 DEF Locals
  <2>8. SlotsPlaced'
    BY <1>1, <2>4, SlotsKept DEF IInv
  <2>9. Wakes'
    <3>1. ASSUME NEW t \in Senders, tx[t].pc = "pending", list'.is_popped[t]
          PROVE  tx[t].woken \/ rx'.waker = t
      BY <1>1, <2>2, <2>3, <2>4, <3>1, ChannelAssumption DEF IInv, Wakes
    <3>2. QED
      BY <1>1, <2>2, <2>4, <3>1 DEF IInv, Wakes
  <2>10. QED
    BY <2>2, <2>5, <2>6, <2>7, <2>8, <2>9 DEF IInv
<1>4. QED
  BY <1>2, <1>3

LEMMA DismissWakeStep ==
  ASSUME IInv, DismissWake
  PROVE  IInv'
<1>1. /\ rx.pc = "dismiss_wake"
      /\ UNCHANGED <<num_senders, receiver_waker, receiver_dropped,
                     freeq, readyq, slots, list, waiting>>
  BY DEF DismissWake, queues, line
<1>2. PICK h \in Senders : h = rx.waker
  BY <1>1 DEF IInv, Types, Locals, ReceiverOK, ReceiverType
<1>3. /\ tx' \in [Senders -> SenderType]
      /\ \A t \in Senders :
           /\ tx'[t].pc = tx[t].pc /\ tx'[t].slot = tx[t].slot
           /\ tx'[t].granted = tx[t].granted /\ tx'[t].link = tx[t].link
           /\ tx'[t].sent = tx[t].sent
           /\ tx[t].woken \/ t = h => tx'[t].woken
  <2>1. PICK yes \in BOOLEAN : yes = TRUE
    OBVIOUS
  <2>2. tx' = [tx EXCEPT ![h].woken = yes]
    BY <1>2, <2>1, Zenon DEF DismissWake
  <2>3. tx \in [Senders -> SenderType]
    BY DEF IInv, Types
  <2>4. QED
    BY <2>1, <2>2, <2>3, ZenonT(60) DEF SenderType
<1>4. /\ rx' \in ReceiverType /\ rx'.pc = "dismiss"
      /\ rx'.slot = rx.slot /\ rx'.waker = None
      /\ rx'.async = rx.async /\ rx'.woken = rx.woken
  BY DEF DismissWake, IInv, Types, ReceiverType
<1>5. Types'
  BY <1>1, <1>3, <1>4 DEF IInv, Types
<1>6. Counted'
  <2>1. Alive(tx') = Alive(tx)
    BY <1>3 DEF Alive
  <2>2. QED
    BY <1>1, <2>1, CountKept DEF IInv
<1>7. Locals'
  BY <1>1, <1>3, <1>4 DEF IInv, Locals, SenderOK, ReceiverOK
<1>8. Line'
  BY <1>1, <1>3, LineKept DEF IInv, line
<1>9. SlotsPlaced'
  BY <1>1, <1>3, <1>4, SlotsKept DEF IInv
<1>10. Wakes'
  BY <1>1, <1>2, <1>3, <1>4 DEF IInv, Wakes
<1>11. QED
  BY <1>5, <1>6, <1>7, <1>8, <1>9, <1>10 DEF IInv

-----------------------------------------------------------------------------
(* The theorems.                                                           *)

LEMMA StutterStep ==
  ASSUME IInv, UNCHANGED vars
  PROVE  IInv'
<1>1. /\ UNCHANGED <<freeq, readyq, slots, receiver_dropped, num_senders>>
      /\ UNCHANGED <<receiver_waker, list, waiting, tx, rx>>
  BY DEF vars, queues, line
<1>2. Types' /\ Counted' /\ Locals' /\ Line' /\ SlotsPlaced' /\ Wakes'
  BY <1>1
     DEF IInv, Types, Counted, Locals, ReceiverOK, Line, SlotsPlaced, Wakes
<1>3. QED
  BY <1>2 DEF IInv

LEMMA SenderSteps ==
  ASSUME IInv, NEW s \in Senders,
         \/ TrySend(s) \/ SendPoll(s) \/ CancelSend(s)
         \/ SenderGoesOn(s) \/ DropSender(s)
         \/ \E t \in Senders : Clone(s, t)
  PROVE  IInv'
<1>1. CASE TrySend(s) \/ CancelSend(s) \/ DropSender(s)
  BY <1>1, TrySendStep, CancelSendStep, DropSenderStep
<1>2. CASE SendPoll(s)
  BY <1>2, SendClosedStep, SendPoppedStep, SendStillWaitsStep, SendWaitsStep,
     SendSlotStep DEF SendPoll
<1>3. CASE SenderGoesOn(s)
  BY <1>3, TrySendIsClosedStep, TrySendSlotStep, UnlinkStep, GiveBackStep,
     WriteSlotStep, PushReadyStep, WakeStep DEF SenderGoesOn
<1>4. CASE \E t \in Senders : Clone(s, t)
  BY <1>4, CloneStep
<1>5. QED
  BY <1>1, <1>2, <1>3, <1>4

LEMMA NextIInv == IInv /\ [Next]_vars => IInv'
<1> SUFFICES ASSUME IInv, [Next]_vars PROVE IInv'
  OBVIOUS
<1>1. CASE \E s \in Senders :
             \/ TrySend(s) \/ SendPoll(s) \/ CancelSend(s)
             \/ SenderGoesOn(s) \/ DropSender(s)
             \/ \E t \in Senders : Clone(s, t)
  BY <1>1, SenderSteps
<1>2. CASE Register \/ PopReady \/ CancelRecv \/ DropReceiver
  BY <1>2, RegisterStep, PopReadyStep, CancelRecvStep, DropReceiverStep
<1>3. CASE ReceiverGoesOn
  BY <1>3, PopReadyStep, ReadSlotStep, ReturnSlotStep, RecvIsClosedStep,
     DrainStep, DismissStep, DismissWakeStep DEF ReceiverGoesOn
<1>4. CASE UNCHANGED vars
  BY <1>4, StutterStep
<1>5. QED
  BY <1>1, <1>2, <1>3, <1>4 DEF Next

(* The inductive invariant: every slot has one place, the pointers of the  *)
(* wait list follow the line of the waiting senders, and whoever waits for *)
(* something that is there has been or is going to be woken.               *)
THEOREM IInvAlways == Spec => []IInv
  BY InitIInv, NextIInv, PTL DEF Spec

(* The queues of the channel, its slots and the locals of its ends keep    *)
(* their types; the queues never hold more than N indices, so that the     *)
(* push_back_unchecked of channel.rs stays in bounds, and num_senders      *)
(* counts the handles that are alive.                                      *)
THEOREM TypeCorrect == Spec => []TypeOK
  BY IInvAlways, IInvTypes, PTL

(* Each slot of the channel is in one place, so that no two ends ever      *)
(* reach into the same one by slots.get_unchecked_mut, and until the       *)
(* receiver is dropped no cancelled send loses one.                        *)
THEOREM SlotsNeverLost == Spec => []SlotsConserved
  BY IInvAlways, IInvSlots, PTL

(* The wait queue of the channel: head, tail, next and prev spell out the  *)
(* senders that wait, in their order, whatever mixture of pushes, pops and *)
(* removals from the middle there has been.                                *)
THEOREM LineIsKept == Spec => []ListIsLine
  BY IInvAlways, IInvLine, PTL

(* No wake-up of the channel is lost: a sender that was popped and a       *)
(* receiver for which there is news have been woken or are about to be,    *)
(* and no slot is free while a sender waits for one.                       *)
THEOREM NobodyForgotten == Spec => []NoLostWake
  BY IInvAlways, IInvWakes, PTL

-----------------------------------------------------------------------------
(* The channel implements BoundedChannel: what is accepted comes out once  *)
(* and in order, no more than N messages are inside or promised room, and  *)
(* nobody overtakes the senders that wait.                                 *)

(* What lies in the slots: a message in those that are ready, and the one  *)
(* that belongs there in the hands of the ends.                            *)
Cargo ==
  /\ \A i \in Members(readyq) : slots[i] # None
  /\ \A s \in Senders :
       tx[s].pc = "push" => slots[tx[s].slot] = <<s, tx[s].sent>>
  /\ rx.pc = "read" => slots[rx.slot] # None
  /\ rx.val # None <=> rx.pc = "return"

-----------------------------------------------------------------------------
(* A slot in somebody's hand is nobody else's.                             *)

LEMMA HandsApart ==
  ASSUME IInv, NEW i \in Slots
  PROVE  /\ \A s, t \in Senders :
              tx[s].slot = i => tx[t].granted # i /\ (tx[t].slot = i => s = t)
         /\ \A s, t \in Senders : tx[s].granted = i /\ tx[t].granted = i => s = t
         /\ \A s \in Senders : tx[s].slot = i \/ tx[s].granted = i =>
              rx.slot # i /\ i \notin Members(readyq) /\ i \notin Members(freeq)
         /\ rx.slot = i => i \notin Members(readyq) /\ i \notin Members(freeq)
         /\ i \in Members(freeq) => i \notin Members(readyq)
<1>1. PICK c : c = Content(freeq, readyq, tx, rx)
  OBVIOUS
<1>2. Holds(c, freeq, readyq, tx, rx) /\ Disjoint(PlaceNames, c)
  BY <1>1, ContentFacts, Zenon DEF IInv, SlotsPlaced
<1>3. i # None
  BY SlotNotNone
<1>4. /\ i \in c[<<"free", None>>] <=> i \in Members(freeq)
      /\ i \in c[<<"ready", None>>] <=> i \in Members(readyq)
      /\ i \in c[<<"receiver", None>>] <=> rx.slot = i
  BY <1>2, <1>3 DEF Holds
<1>5. ASSUME NEW s \in Senders
      PROVE  /\ i \in c[<<"given", s>>] <=> tx[s].granted = i
             /\ i \in c[<<"sender", s>>] <=> tx[s].slot = i
  <2>1. /\ c[<<"given", s>>] = {tx[s].granted} \ {None}
        /\ c[<<"sender", s>>] = {tx[s].slot} \ {None}
    BY <1>2, Zenon DEF Holds
  <2>2. QED
    BY <1>3, <2>1
<1>6. \A p, q \in PlaceNames : i \in c[p] /\ i \in c[q] => p = q
  BY <1>2 DEF Disjoint
<1>7. /\ <<"free", None>> # <<"ready", None>>
      /\ <<"free", None>> # <<"receiver", None>>
      /\ <<"ready", None>> # <<"receiver", None>>
      /\ \A s \in Senders :
           /\ <<"given", s>> # <<"free", None>>
           /\ <<"given", s>> # <<"ready", None>>
           /\ <<"given", s>> # <<"receiver", None>>
           /\ <<"sender", s>> # <<"free", None>>
           /\ <<"sender", s>> # <<"ready", None>>
           /\ <<"sender", s>> # <<"receiver", None>>
           /\ \A t \in Senders :
                /\ <<"sender", s>> # <<"given", t>>
                /\ <<"sender", s>> = <<"sender", t>> => s = t
                /\ <<"given", s>> = <<"given", t>> => s = t
  OBVIOUS
<1>8. QED
  BY <1>4, <1>5, <1>6, <1>7, PlaceFacts, Zenon

(* The ends that hold a slot and the ready queue share the N slots: while  *)
(* one of the slots is elsewhere there is room for one more sender.        *)
LEMMA RoomIf ==
  ASSUME IInv, NEW i \in Slots, i \notin Members(readyq),
         \A s \in Senders : tx[s].slot # i /\ tx[s].granted # i
  PROVE  Abstract!HasRoom
<1>1. /\ readyq \in Seq(Slots) /\ NoRepeats(readyq) /\ Len(readyq) \in Nat
      /\ tx \in [Senders -> SenderType] /\ N \in Nat
  <2>1. /\ readyq \in Seq(Slots) /\ NoRepeats(readyq)
        /\ tx \in [Senders -> SenderType]
    BY DEF IInv, Types, SlotsPlaced
  <2>2. Len(readyq) \in Nat /\ N \in Nat
    BY <2>1, ChannelAssumption
  <2>3. QED
    BY <2>1, <2>2
<1>2. Members(readyq) \subseteq Slots
  BY <1>1, ElementOfSeq DEF Members
<1>3. IsFiniteSet(Slots) /\ Cardinality(Slots) = N
  BY <1>1, FS_Interval DEF Slots
<1> DEFINE Ready == Members(readyq)
           Rest == (Slots \ Ready) \ {i}
<1>4. /\ IsFiniteSet(Ready) /\ Cardinality(Ready) = Len(readyq)
  <2>1. IsFiniteSet(Ready)
    BY <1>2, <1>3, FS_Subset
  <2>2. IsFiniteSet(1 .. Len(readyq)) /\ Cardinality(1 .. Len(readyq)) = Len(readyq)
    <3>1. PICK a \in Int, b \in Int : a = 1 /\ b = Len(readyq)
      <4>1. Len(readyq) \in Int /\ 1 \in Int
        BY <1>1
      <4>2. QED
        BY <4>1, Zenon
    <3>2. IsFiniteSet(a .. b) /\ Cardinality(a .. b) = IF a > b THEN 0 ELSE b - a + 1
      BY FS_Interval, Zenon
    <3>3. QED
      BY <1>1, <3>1, <3>2
  <2>3. readyq \in Surjection(1 .. Len(readyq), Ready)
    BY <1>1 DEF Surjection, Members
  <2>4. readyq \in Injection(1 .. Len(readyq), Ready)
    BY <1>1, <2>3 DEF Injection, IsInjective, Surjection, NoRepeats
  <2>5. QED
    BY <2>1, <2>2, <2>3, <2>4, FS_Surjection
<1>5. IsFiniteSet(Rest) /\ Cardinality(Rest) = N - Len(readyq) - 1
  <2>1. IsFiniteSet(Slots \ Ready)
    BY <1>3, FS_Subset
  <2>2. Cardinality(Slots \ Ready) = N - Len(readyq)
    <3>1. Slots \cap Ready = Ready
      BY <1>2
    <3>2. Cardinality(Slots \ Ready)
            = Cardinality(Slots) - Cardinality(Slots \cap Ready)
      BY <1>3, FS_Difference, Zenon
    <3>3. QED
      BY <1>1, <1>3, <1>4, <3>1, <3>2
  <2>3. i \in Slots \ Ready
    OBVIOUS
  <2>4. QED
    BY <2>1, <2>2, <2>3, FS_RemoveElement
<1>6. IsFiniteSet(Holding) /\ Cardinality(Holding) <= Cardinality(Rest)
  <2> DEFINE f == [s \in Holding |-> IF tx[s].slot # None THEN tx[s].slot
                                     ELSE tx[s].granted]
  <2>1. ASSUME NEW s \in Holding
        PROVE  /\ s \in Senders /\ f[s] \in Slots
               /\ tx[s].slot = f[s] \/ tx[s].granted = f[s]
    BY <1>1 DEF Holding, SenderType, SlotOrNone
  <2> HIDE DEF f
  <2>2. ASSUME NEW s \in Holding
        PROVE  f[s] \in Rest
    BY <2>1, HandsApart
  <2>3. ASSUME NEW s \in Holding, NEW t \in Holding, f[s] = f[t]
        PROVE  s = t
    BY <2>1, <2>3, HandsApart
  <2>4. f \in Injection(Holding, Rest)
    BY <2>2, <2>3 DEF f, Injection, IsInjective
  <2>5. QED
    BY <1>5, <2>4, FS_Injection
<1>7. Len(Inside) <= Len(readyq) /\ Len(Inside) \in Nat
  <2>1. CASE receiver_dropped
    <3>1. Inside = <<>> /\ Len(<<>>) = 0
      BY <2>1 DEF Inside
    <3>2. QED
      BY <1>1, <3>1
  <2>2. CASE ~ receiver_dropped
    <3>1. Inside = [k \in 1 .. Len(readyq) |-> slots[readyq[k]]]
      BY <2>2 DEF Inside
    <3>2. Len([k \in 1 .. Len(readyq) |-> slots[readyq[k]]]) = Len(readyq)
      BY <1>1
    <3>3. QED
      BY <1>1, <3>1, <3>2
  <2>3. QED
    BY <2>1, <2>2
<1>8. Cardinality(Holding) \in Nat
  BY <1>6, FS_CardinalityType
<1> HIDE DEF Ready, Rest
<1>9. Len(Inside) + Cardinality(Holding) < N
  BY <1>1, <1>5, <1>6, <1>7, <1>8
<1>10. QED
  BY <1>9 DEF Abstract!HasRoom, Abstract!Cardinality, Cardinality

-----------------------------------------------------------------------------
(* Steps that nobody outside sees.                                         *)

LEMMA InsideSame ==
  ASSUME readyq' = readyq, receiver_dropped' = receiver_dropped,
         receiver_dropped \/ \A i \in Members(readyq) : slots'[i] = slots[i]
  PROVE  Inside' = Inside
<1>1. CASE receiver_dropped
  BY <1>1 DEF Inside
<1>2. CASE ~ receiver_dropped
  <2>1. \A k \in 1 .. Len(readyq) : slots'[readyq[k]] = slots[readyq[k]]
    BY <1>2 DEF Members
  <2>2. QED
    BY <1>2, <2>1 DEF Inside
<1>3. QED
  BY <1>1, <1>2

LEMMA HoldingSame ==
  ASSUME \A s \in Senders :
           tx'[s].slot # None \/ tx'[s].granted # None
             <=> tx[s].slot # None \/ tx[s].granted # None
  PROVE  Holding' = Holding
  BY DEF Holding

LEMMA AcceptedSame ==
  ASSUME \A s \in Senders : tx'[s].sent = tx[s].sent
  PROVE  Accepted' = Accepted
  BY DEF Accepted

LEMMA HandedSame ==
  ASSUME slots' = slots, rx'.val = rx.val,
         rx'.pc = "read" <=> rx.pc = "read",
         rx.pc = "read" => rx'.slot = rx.slot
  PROVE  Handed' = Handed
  BY DEF Handed

LEMMA CargoKept ==
  ASSUME Cargo, slots' = slots, Members(readyq') \subseteq Members(readyq),
         rx'.val = rx.val, rx'.pc = "return" <=> rx.pc = "return",
         rx'.pc = "read" => rx.pc = "read" /\ rx'.slot = rx.slot,
         \A t \in Senders : tx'[t].pc = "push" =>
           /\ tx[t].pc = "push" /\ tx'[t].slot = tx[t].slot
           /\ tx'[t].sent = tx[t].sent
  PROVE  Cargo'
  BY DEF Cargo

(* A sender moves on, and keeps the room that it has or goes without.      *)
LEMMA SenderUnseen ==
  ASSUME IInv, Cargo, NEW s \in Senders,
         \A t \in Senders \ {s} : tx'[t] = tx[t],
         tx'[s].pc # "push", tx'[s].sent = tx[s].sent,
         tx'[s].slot # None \/ tx'[s].granted # None
           <=> tx[s].slot # None \/ tx[s].granted # None,
         UNCHANGED <<readyq, slots, receiver_dropped, waiting>>,
         rx'.pc = rx.pc, rx'.slot = rx.slot, rx'.val = rx.val
  PROVE  UNCHANGED Abstract!vars /\ Cargo'
<1>1. \A t \in Senders \ {s} : tx'[t] = tx[t]
  OBVIOUS
<1>2. Inside' = Inside
  BY InsideSame
<1>3. Handed' = Handed
  BY HandedSame
<1>4. Holding' = Holding
  BY <1>1, HoldingSame
<1>5. Accepted' = Accepted
  BY <1>1, AcceptedSame
<1>6. Cargo'
  BY <1>1, CargoKept
<1>7. QED
  BY <1>2, <1>3, <1>4, <1>5, <1>6 DEF Abstract!vars

LEMMA TrySendMaps ==
  ASSUME IInv, Cargo, NEW s \in Senders, TrySend(s) \/ TrySendIsClosed(s)
  PROVE  UNCHANGED Abstract!vars /\ Cargo'
<1>1. /\ \A t \in Senders \ {s} : tx'[t] = tx[t]
      /\ tx'[s].pc # "push" /\ tx'[s].sent = tx[s].sent
      /\ tx'[s].slot = tx[s].slot /\ tx'[s].granted = tx[s].granted
  BY DEF TrySend, TrySendIsClosed, IInv, Types, SenderType
<1>2. UNCHANGED <<readyq, slots, receiver_dropped, waiting, rx>>
  BY DEF TrySend, TrySendIsClosed, queues, line
<1>3. QED
  BY <1>1, <1>2, SenderUnseen

LEMMA QuietSendMaps ==
  ASSUME IInv, Cargo, NEW s \in Senders,
         SendClosed(s) \/ SendStillWaits(s) \/ CancelSend(s) \/ DropSender(s)
  PROVE  UNCHANGED Abstract!vars /\ Cargo'
<1>1. /\ \A t \in Senders \ {s} : tx'[t] = tx[t]
      /\ tx'[s].pc # "push" /\ tx'[s].sent = tx[s].sent
      /\ tx'[s].slot = tx[s].slot /\ tx'[s].granted = tx[s].granted
  BY DEF SendClosed, SendStillWaits, CancelSend, DropSender, Polled,
         IInv, Types, SenderType
<1>2. UNCHANGED <<readyq, slots, receiver_dropped, waiting, rx>>
  BY DEF SendClosed, SendStillWaits, CancelSend, DropSender, queues, line
<1>3. QED
  BY <1>1, <1>2, SenderUnseen

LEMMA CloneMaps ==
  ASSUME IInv, Cargo, NEW s \in Senders, NEW t \in Senders, Clone(s, t)
  PROVE  UNCHANGED Abstract!vars /\ Cargo'
<1>1. /\ \A u \in Senders \ {t} : tx'[u] = tx[u]
      /\ tx'[t].pc # "push" /\ tx'[t].sent = tx[t].sent
      /\ tx'[t].slot = tx[t].slot /\ tx'[t].granted = tx[t].granted
  BY DEF Clone, IInv, Types, SenderType
<1>2. UNCHANGED <<readyq, slots, receiver_dropped, waiting, rx>>
  BY DEF Clone, queues, line
<1>3. QED
  BY <1>1, <1>2, SenderUnseen

LEMMA WakeMaps ==
  ASSUME IInv, Cargo, NEW s \in Senders, Wake(s)
  PROVE  UNCHANGED Abstract!vars /\ Cargo'
<1>1. /\ \A t \in Senders \ {s} : tx'[t] = tx[t]
      /\ tx'[s].pc # "push" /\ tx'[s].sent = tx[s].sent
      /\ tx'[s].slot = tx[s].slot /\ tx'[s].granted = tx[s].granted
  BY DEF Wake, IInv, Types, SenderType
<1>2. UNCHANGED <<readyq, slots, receiver_dropped, waiting>>
  BY DEF Wake, queues, line
<1>3. rx'.pc = rx.pc /\ rx'.slot = rx.slot /\ rx'.val = rx.val
  <2>1. PICK w : w = (rx.woken \/ receiver_waker)
    OBVIOUS
  <2>2. rx' = [rx EXCEPT !.woken = w]
    BY <2>1, Zenon DEF Wake, WakeReceiver
  <2>3. QED
    BY <2>2 DEF IInv, Types, ReceiverType
<1>4. QED
  BY <1>1, <1>2, <1>3, SenderUnseen

(* A popped sender has its room already, or goes away.                     *)
LEMMA SendPoppedMaps ==
  ASSUME IInv, Cargo, NEW s \in Senders, SendPopped(s)
  PROVE  UNCHANGED Abstract!vars /\ Cargo'
<1>1. tx[s].pc = "pending" /\ tx[s].slot = None
  BY DEF SendPopped, Polled, IInv, Locals, SenderOK
<1>2. PICK g : g = tx[s].granted
  OBVIOUS
<1>3. /\ \A t \in Senders \ {s} : tx'[t] = tx[t]
      /\ tx'[s].pc # "push" /\ tx'[s].sent = tx[s].sent
      /\ tx'[s].slot = g /\ tx'[s].granted = None
  BY <1>2 DEF SendPopped, IInv, Types, SenderType
<1>4. UNCHANGED <<readyq, slots, receiver_dropped, waiting, rx>>
  BY DEF SendPopped, queues
<1>5. QED
  BY <1>1, <1>2, <1>3, <1>4, SenderUnseen

LEMMA WriteSlotMaps ==
  ASSUME IInv, Cargo, NEW s \in Senders, WriteSlot(s)
  PROVE  UNCHANGED Abstract!vars /\ Cargo'
<1>1. PICK i \in Slots : tx[s].slot = i
  BY DEF WriteSlot, IInv, Types, Locals, SenderOK, SenderType, SlotOrNone
<1>2. /\ \A t \in Senders \ {s} : tx'[t] = tx[t]
      /\ tx'[s].slot = i /\ tx'[s].granted = tx[s].granted
      /\ tx'[s].sent = tx[s].sent /\ tx[s].pc = "write"
  BY <1>1 DEF WriteSlot, IInv, Types, SenderType
<1>3. /\ slots' = [slots EXCEPT ![i] = <<s, tx[s].sent>>]
      /\ slots'[i] = <<s, tx[s].sent>>
      /\ \A j \in Slots \ {i} : slots'[j] = slots[j]
  BY <1>1 DEF WriteSlot, IInv, Types
<1>4. UNCHANGED <<readyq, receiver_dropped, waiting, rx>>
  BY DEF WriteSlot, line
<1>5. i \notin Members(readyq) /\ rx.slot # i
  BY <1>1, HandsApart
<1>6. \A j \in Members(readyq) : j \in Slots \ {i}
  BY <1>5, ElementOfSeq DEF Members, IInv, Types
<1>7. Inside' = Inside
  BY <1>3, <1>4, <1>6, InsideSame
<1>8. rx.pc = "read" => rx.slot \in Slots \ {i}
  BY <1>5 DEF IInv, Types, Locals, ReceiverOK, ReceiverType, SlotOrNone
<1>9. Handed' = Handed
  BY <1>3, <1>4, <1>8 DEF Handed
<1>10. Holding' = Holding
  <2>1. \A t \in Senders :
          tx'[t].slot = tx[t].slot /\ tx'[t].granted = tx[t].granted
    BY <1>1, <1>2
  <2>2. QED
    BY <2>1, HoldingSame
<1>11. Accepted' = Accepted
  BY <1>2, AcceptedSame
<1>12. Cargo'
  <2>1. \A j \in Members(readyq) : slots'[j] # None
    BY <1>3, <1>6 DEF Cargo
  <2>2. ASSUME NEW t \in Senders, tx'[t].pc = "push"
        PROVE  slots'[tx'[t].slot] = <<t, tx'[t].sent>>
    <3>1. CASE t = s
      BY <1>2, <1>3, <3>1
    <3>2. CASE t # s
      <4>1. tx'[t] = tx[t] /\ tx[t].pc = "push"
        BY <1>2, <2>2, <3>2
      <4>2. tx[t].slot \in Slots
        BY <4>1 DEF IInv, Types, Locals, SenderOK, SenderType, SlotOrNone
      <4>3. tx[t].slot # i
        BY <1>1, <3>2, HandsApart
      <4>4. QED
        BY <1>3, <4>1, <4>2, <4>3 DEF Cargo
    <3>3. QED
      BY <3>1, <3>2
  <2>3. rx.pc = "read" => slots'[rx.slot] # None
    BY <1>3, <1>8 DEF Cargo
  <2>4. QED
    BY <1>4, <2>1, <2>2, <2>3 DEF Cargo
<1>13. QED
  BY <1>4, <1>7, <1>9, <1>10, <1>11, <1>12 DEF Abstract!vars

-----------------------------------------------------------------------------
(* Senders get room, wait for it, and give it up.                          *)

LEMMA HeadOfLine ==
  ASSUME IInv
  PROVE  /\ list.head = None <=> waiting = <<>>
         /\ waiting # <<>> => /\ list.head = Head(waiting)
                              /\ list.head \in Senders
<1>1. waiting \in Seq(Senders) /\ Spells(list, waiting)
  BY DEF IInv, Types, Line
<1>2. CASE waiting = <<>>
  BY <1>1, <1>2 DEF Spells
<1>3. CASE waiting # <<>>
  <2>1. list.head = waiting[1]
    BY <1>1, <1>3 DEF Spells
  <2>2. Head(waiting) = waiting[1] /\ Head(waiting) \in Senders
    BY <1>1, <1>3, HeadTailProperties
  <2>3. QED
    BY <1>3, <2>1, <2>2, ChannelAssumption
<1>4. QED
  BY <1>2, <1>3

LEMMA SendSlotMaps ==
  ASSUME IInv, Cargo, NEW s \in Senders,
         SendSlot(s) \/ (TrySendSlot(s) /\ freeq # <<>>)
  PROVE  Abstract!Acquire(s) /\ Cargo'
<1>1. freeq # <<>> /\ tx[s].pc \in {"idle", "pending", "try_slot"} /\ ~ tx[s].link
  BY DEF SendSlot, TrySendSlot, Polled, IInv, Locals, SenderOK
<1>2. freeq \in Seq(Slots) /\ NoRepeats(freeq)
  BY DEF IInv, Types, SlotsPlaced
<1>3. PICK i \in Slots : /\ i \in Members(freeq) /\ i # None
                         /\ \/ SendSlot(s) /\ i = freeq[Len(freeq)]
                            \/ TrySendSlot(s) /\ i = Head(freeq)
  BY <1>1, <1>2, FrontFacts, TailFacts, SlotNotNone
<1>4. /\ \A t \in Senders \ {s} : tx'[t] = tx[t]
      /\ tx'[s].pc = "write" /\ tx'[s].sent = tx[s].sent /\ tx'[s].slot = i
  <2>1. CASE SendSlot(s) /\ i = freeq[Len(freeq)]
    BY <2>1 DEF SendSlot, IInv, Types, SenderType
  <2>2. CASE TrySendSlot(s) /\ i = Head(freeq)
    <3>1. tx' = [tx EXCEPT ![s].pc = "write", ![s].slot = i]
      BY <1>1, <2>2 DEF TrySendSlot
    <3>2. QED
      BY <3>1 DEF IInv, Types, SenderType
  <2>3. QED
    BY <1>3, <2>1, <2>2
<1>5. UNCHANGED <<readyq, slots, receiver_dropped, waiting, rx>>
  BY DEF SendSlot, TrySendSlot, line
<1>6. tx[s].slot = None /\ tx[s].granted = None
  BY <1>1 DEF IInv, Locals, SenderOK
<1>7. s \notin Holding /\ Holding' = Holding \cup {s}
  BY <1>3, <1>4, <1>6 DEF Holding
<1>8. waiting = <<>>
  BY <1>1 DEF IInv, Wakes
<1>9. Abstract!HasRoom
  BY <1>3, HandsApart, RoomIf
<1>10. Inside' = Inside /\ Handed' = Handed /\ Accepted' = Accepted
  BY <1>4, <1>5, InsideSame, HandedSame, AcceptedSame
<1>11. Cargo'
  BY <1>4, <1>5, CargoKept
<1>12. QED
  BY <1>5, <1>7, <1>8, <1>9, <1>10, <1>11 DEF Abstract!Acquire

LEMMA TrySendSlotMaps ==
  ASSUME IInv, Cargo, NEW s \in Senders, TrySendSlot(s)
  PROVE  (Abstract!Acquire(s) \/ UNCHANGED Abstract!vars) /\ Cargo'
<1>1. CASE freeq # <<>>
  BY <1>1, SendSlotMaps
<1>2. CASE freeq = <<>>
  <2>1. tx' = [tx EXCEPT ![s].pc = "idle"]
    BY <1>2 DEF TrySendSlot
  <2>2. /\ \A t \in Senders \ {s} : tx'[t] = tx[t]
        /\ tx'[s].pc # "push" /\ tx'[s].sent = tx[s].sent
        /\ tx'[s].slot = tx[s].slot /\ tx'[s].granted = tx[s].granted
    BY <2>1 DEF IInv, Types, SenderType
  <2>3. UNCHANGED <<readyq, slots, receiver_dropped, waiting, rx>>
    BY DEF TrySendSlot, line
  <2>4. QED
    BY <2>2, <2>3, SenderUnseen
<1>3. QED
  BY <1>1, <1>2

LEMMA SendWaitsMaps ==
  ASSUME IInv, Cargo, NEW s \in Senders, SendWaits(s)
  PROVE  Abstract!Wait(s) /\ Cargo'
<1>1. /\ \A t \in Senders \ {s} : tx'[t] = tx[t]
      /\ tx'[s].pc # "push" /\ tx'[s].sent = tx[s].sent
      /\ tx'[s].slot = tx[s].slot /\ tx'[s].granted = tx[s].granted
  BY DEF SendWaits, IInv, Types, SenderType
<1>2. /\ UNCHANGED <<readyq, slots, receiver_dropped, rx>>
      /\ waiting' = Append(waiting, s) /\ ~ receiver_dropped
  BY DEF SendWaits, queues
<1>3. \A k \in 1 .. Len(waiting) : waiting[k] # s
  BY DEF SendWaits, IInv, Line, Members
<1>4. Inside' = Inside /\ Handed' = Handed
  BY <1>2, InsideSame, HandedSame
<1>5. Holding' = Holding /\ Accepted' = Accepted
  BY <1>1, HoldingSame, AcceptedSame
<1>6. Cargo'
  BY <1>1, <1>2, CargoKept
<1>7. QED
  BY <1>2, <1>3, <1>4, <1>5, <1>6 DEF Abstract!Wait

LEMMA UnlinkMaps ==
  ASSUME IInv, Cargo, NEW s \in Senders, Unlink(s)
  PROVE  (Abstract!GiveUp(s) \/ UNCHANGED Abstract!vars) /\ Cargo'
<1>1. /\ \A t \in Senders \ {s} : tx'[t] = tx[t]
      /\ tx'[s].pc # "push" /\ tx'[s].sent = tx[s].sent
      /\ tx'[s].slot = tx[s].slot /\ tx'[s].granted = tx[s].granted
  BY DEF Unlink, IInv, Types, SenderType
<1>2. UNCHANGED <<readyq, slots, receiver_dropped, rx>>
  BY DEF Unlink, queues
<1>3. CASE UNCHANGED waiting
  BY <1>1, <1>2, <1>3, SenderUnseen
<1>4. CASE \E k \in 1 .. Len(waiting) :
             /\ waiting[k] = s
             /\ waiting' = SubSeq(waiting, 1, k - 1)
                             \o SubSeq(waiting, k + 1, Len(waiting))
  <2>1. Inside' = Inside /\ Handed' = Handed
    BY <1>2, InsideSame, HandedSame
  <2>2. Holding' = Holding /\ Accepted' = Accepted
    BY <1>1, HoldingSame, AcceptedSame
  <2>3. Cargo'
    BY <1>1, <1>2, CargoKept
  <2>4. Abstract!GiveUp(s)
    BY <1>2, <1>4, <2>1, <2>2 DEF Abstract!GiveUp
  <2>5. QED
    BY <2>3, <2>4
<1>5. QED
  BY <1>3, <1>4 DEF Unlink

LEMMA GiveBackMaps ==
  ASSUME IInv, Cargo, NEW s \in Senders, GiveBack(s)
  PROVE  (Abstract!GiveUp(s) \/ Abstract!Serve) /\ Cargo'
<1> DEFINE locals == [tx EXCEPT ![s].pc = "idle", ![s].granted = None]
<1>1. /\ tx[s].pc = "giveback" /\ tx[s].slot = None /\ tx[s].granted # None
      /\ return_free_slot(tx[s].granted, locals)
      /\ UNCHANGED <<readyq, slots, receiver_dropped, rx>>
  BY DEF GiveBack, IInv, Locals, SenderOK
<1>2. /\ locals \in [Senders -> SenderType]
      /\ \A t \in Senders \ {s} : locals[t] = tx[t]
      /\ locals[s].pc = "idle"
      /\ locals[s].slot = tx[s].slot /\ locals[s].granted = None
      /\ locals[s].sent = tx[s].sent
  BY ZenonT(60) DEF IInv, Types, SenderType, SlotOrNone
<1> HIDE DEF locals
<1>3. s \in Holding
  BY <1>1 DEF Holding
<1>4. Inside' = Inside /\ Handed' = Handed
  BY <1>1, InsideSame, HandedSame
<1>5. CASE list.head = None
  <2>1. tx' = locals /\ waiting' = waiting /\ waiting = <<>>
    BY <1>1, <1>5, HeadOfLine DEF return_free_slot, line
  <2>2. Holding' = Holding \ {s}
    BY <1>1, <1>2, <2>1 DEF Holding
  <2>3. Accepted' = Accepted
    BY <1>2, <2>1, AcceptedSame
  <2>4. Cargo'
    BY <1>1, <1>2, <2>1, CargoKept
  <2>5. QED
    BY <1>1, <1>3, <1>4, <2>1, <2>2, <2>3, <2>4 DEF Abstract!GiveUp
<1>6. CASE list.head # None
  <2>1. PICK h \in Senders : h = list.head /\ h = Head(waiting)
    BY <1>6, HeadOfLine
  <2>2. PICK g \in Slots : g = tx[s].granted /\ g # None
    BY <1>1 DEF IInv, Types, SenderType, SlotOrNone
  <2>3. /\ tx' = [locals EXCEPT ![h].granted = g, ![h].woken = TRUE]
        /\ waiting' = Tail(waiting) /\ waiting # <<>>
    BY <1>1, <1>6, <2>1, <2>2, HeadOfLine DEF return_free_slot
  <2>4. h # s
    <3>1. h \in Members(waiting)
      <4>1. waiting \in Seq(Senders) /\ NoRepeats(waiting)
        BY DEF IInv, Types, Line
      <4>2. QED
        BY <2>1, <2>3, <4>1, TailFacts
    <3>2. tx[h].link
      BY <3>1 DEF IInv, Line
    <3>3. QED
      BY <1>1, <3>2 DEF IInv, Locals, SenderOK
  <2>5. /\ \A t \in Senders \ {h} : tx'[t] = locals[t]
        /\ tx'[h].pc = tx[h].pc /\ tx'[h].slot = tx[h].slot
        /\ tx'[h].granted = g /\ tx'[h].sent = tx[h].sent
    BY <1>2, <2>3, <2>4 DEF SenderType
  <2>6. Holding' = (Holding \ {s}) \cup {h}
    <3>1. ASSUME NEW t \in Senders, t # s, t # h
          PROVE  tx'[t] = tx[t]
      BY <1>2, <2>5, <3>1
    <3>2. tx'[s].slot = None /\ tx'[s].granted = None
      BY <1>1, <1>2, <2>4, <2>5
    <3>3. QED
      BY <2>2, <2>4, <2>5, <3>1, <3>2 DEF Holding
  <2>7. ASSUME NEW t \in Senders
        PROVE  /\ tx'[t].sent = tx[t].sent
               /\ tx'[t].pc = "push" =>
                    tx[t].pc = "push" /\ tx'[t].slot = tx[t].slot
    BY <1>2, <2>5
  <2>8. Accepted' = Accepted
    BY <2>7, AcceptedSame
  <2>9. Cargo'
    BY <1>1, <2>7, CargoKept
  <2>10. QED
    BY <1>1, <1>3, <1>4, <2>1, <2>3, <2>6, <2>8, <2>9 DEF Abstract!Serve
<1>7. QED
  BY <1>5, <1>6

LEMMA PushReadyMaps ==
  ASSUME IInv, Cargo, NEW s \in Senders, PushReady(s)
  PROVE  Abstract!Put(s) /\ Cargo'
<1>1. PICK i \in Slots : i = tx[s].slot /\ i # None
  BY SlotNotNone
     DEF PushReady, IInv, Types, Locals, SenderOK, SenderType, SlotOrNone
<1>2. /\ readyq' = Append(readyq, i) /\ readyq \in Seq(Slots)
      /\ tx[s].pc = "push" /\ tx[s].granted = None /\ ~ tx[s].link
      /\ UNCHANGED <<slots, receiver_dropped, waiting, rx>>
  BY <1>1 DEF PushReady, line, IInv, Types, Locals, SenderOK
<1>3. /\ \A t \in Senders \ {s} : tx'[t] = tx[t]
      /\ tx'[s].pc = "wake" /\ tx'[s].sent = tx[s].sent + 1
      /\ tx'[s].slot = None /\ tx'[s].granted = tx[s].granted
  BY DEF PushReady, IInv, Types, SenderType
<1>4. slots[i] = <<s, tx[s].sent>>
  BY <1>1, <1>2 DEF Cargo
<1>5. s \in Holding /\ Holding' = Holding \ {s}
  BY <1>1, <1>2, <1>3 DEF Holding
<1>6. Accepted' = [Accepted EXCEPT ![s] = @ + 1]
  BY <1>3 DEF Accepted
<1>7. Accepted[s] = tx[s].sent
  BY DEF Accepted
<1>8. Handed' = Handed
  BY <1>2, HandedSame
<1>9. Inside' = IF ~ receiver_dropped THEN Append(Inside, <<s, Accepted[s]>>)
                ELSE Inside
  <2>1. CASE receiver_dropped
    BY <1>2, <2>1 DEF Inside
  <2>2. CASE ~ receiver_dropped
    <3>1. /\ Inside = [k \in 1 .. Len(readyq) |-> slots[readyq[k]]]
          /\ Inside' = [k \in 1 .. Len(readyq') |-> slots[readyq'[k]]]
      BY <1>2, <2>2 DEF Inside
    <3>2. /\ Len(readyq') = Len(readyq) + 1 /\ Len(readyq) \in Nat
          /\ \A k \in 1 .. Len(readyq) : readyq'[k] = readyq[k]
          /\ readyq'[Len(readyq) + 1] = i
      BY <1>2, AppendFacts
    <3>3. Inside \in Seq({slots[readyq[k]] : k \in 1 .. Len(readyq)})
          /\ Len(Inside) = Len(readyq)
      BY <3>1, <3>2
    <3>4. Inside' = Append(Inside, <<s, tx[s].sent>>)
      BY <1>4, <3>1, <3>2, <3>3
    <3>5. QED
      BY <1>7, <2>2, <3>4
  <2>3. QED
    BY <2>1, <2>2
<1>10. Cargo'
  <2>1. Members(readyq') = Members(readyq) \cup {i}
    BY <1>2, AppendFacts
  <2>2. slots[i] # None
    <3>1. tx[s].sent \in 0 .. MaxSent
      BY DEF IInv, Types, SenderType
    <3>2. <<s, tx[s].sent>> # None
      BY <3>1, NoneIsNoMessage
    <3>3. QED
      BY <1>4, <3>2
  <2>3. QED
    BY <1>2, <1>3, <2>1, <2>2 DEF Cargo
<1>11. QED
  BY <1>2, <1>5, <1>6, <1>8, <1>9, <1>10 DEF Abstract!Put

-----------------------------------------------------------------------------
(* The receiver takes messages and goes away.                              *)

(* A step of the receiver that neither takes nor hands over a message.     *)
LEMMA ReceiverUnseen ==
  ASSUME IInv, Cargo,
         UNCHANGED <<readyq, slots, receiver_dropped, waiting, tx>>,
         rx.pc \notin {"read", "return"}, rx'.pc \notin {"read", "return"},
         rx'.val = rx.val
  PROVE  UNCHANGED Abstract!vars /\ Cargo'
<1>1. Inside' = Inside
  BY InsideSame
<1>2. Handed' = Handed
  BY HandedSame
<1>3. Holding' = Holding /\ Accepted' = Accepted
  BY HoldingSame, AcceptedSame
<1>4. Cargo'
  BY CargoKept
<1>5. QED
  BY <1>1, <1>2, <1>3, <1>4 DEF Abstract!vars

LEMMA QuietReceiveMaps ==
  ASSUME IInv, Cargo, Register \/ RecvIsClosed \/ CancelRecv
  PROVE  UNCHANGED Abstract!vars /\ Cargo'
<1>1. /\ rx.pc \notin {"read", "return"} /\ rx'.pc \notin {"read", "return"}
      /\ rx'.val = rx.val
  BY DEF Register, RecvIsClosed, CancelRecv, IInv, Types, ReceiverType
<1>2. UNCHANGED <<readyq, slots, receiver_dropped, waiting, tx>>
  BY DEF Register, RecvIsClosed, CancelRecv, queues, line
<1>3. QED
  BY <1>1, <1>2, ReceiverUnseen

LEMMA PopReadyMaps ==
  ASSUME IInv, Cargo, PopReady
  PROVE  (Abstract!Take \/ UNCHANGED Abstract!vars) /\ Cargo'
<1>1. /\ rx.pc \in {"idle", "pop"} /\ ~ receiver_dropped
      /\ UNCHANGED <<slots, receiver_dropped, waiting, tx>>
  BY DEF PopReady, line, IInv, Locals, ReceiverOK
<1>2. CASE readyq = <<>>
  <2>1. rx'.pc = "closed" /\ rx'.val = rx.val /\ readyq' = readyq
    BY <1>2 DEF PopReady, IInv, Types, ReceiverType
  <2>2. QED
    BY <1>1, <2>1, ReceiverUnseen
<1>3. CASE readyq # <<>>
  <2>1. readyq \in Seq(Slots) /\ NoRepeats(readyq) /\ readyq' = Tail(readyq)
    BY <1>3 DEF PopReady, IInv, Types, SlotsPlaced
  <2>2. PICK i \in Slots : i = Head(readyq) /\ i \in Members(readyq)
    BY <1>3, <2>1, TailFacts
  <2>3. rx' = [rx EXCEPT !.pc = "read", !.slot = i]
    BY <1>3, <2>2 DEF PopReady
  <2>4. rx'.pc = "read" /\ rx'.slot = i /\ rx'.val = rx.val
    BY <2>3 DEF IInv, Types, ReceiverType
  <2>5. Handed = None /\ Handed' = slots[i]
    BY <1>1, <2>4 DEF Handed, Cargo
  <2>6. /\ Len(readyq') = Len(readyq) - 1 /\ Len(readyq) \in Nat \ {0}
        /\ \A k \in 1 .. Len(readyq) - 1 : readyq'[k] = readyq[k + 1]
        /\ readyq[1] = i /\ Members(readyq') \subseteq Members(readyq)
    BY <1>3, <2>1, <2>2, TailFacts, EmptySeq
  <2>7. Inside # <<>> /\ Head(Inside) = slots[i] /\ Inside' = Tail(Inside)
    <3>1. /\ Inside = [k \in 1 .. Len(readyq) |-> slots[readyq[k]]]
          /\ Inside' = [k \in 1 .. Len(readyq') |-> slots[readyq'[k]]]
      BY <1>1 DEF Inside
    <3>2. /\ Inside \in Seq({slots[readyq[k]] : k \in 1 .. Len(readyq)})
          /\ Len(Inside) = Len(readyq)
      BY <2>6, <3>1
    <3>3. Inside # <<>> /\ Head(Inside) = slots[i]
      BY <2>6, <3>1, <3>2
    <3>4. Inside' = Tail(Inside)
      BY <2>6, <3>1, <3>2
    <3>5. QED
      BY <3>3, <3>4
  <2>8. Holding' = Holding /\ Accepted' = Accepted
    BY <1>1, HoldingSame, AcceptedSame
  <2>9. Cargo'
    BY <1>1, <2>2, <2>4, <2>6 DEF Cargo
  <2>10. QED
    BY <1>1, <2>5, <2>7, <2>8, <2>9 DEF Abstract!Take
<1>4. QED
  BY <1>2, <1>3

LEMMA ReadSlotMaps ==
  ASSUME IInv, Cargo, ReadSlot
  PROVE  UNCHANGED Abstract!vars /\ Cargo'
<1>1. PICK i \in Slots : i = rx.slot
  BY DEF ReadSlot, IInv, Types, Locals, ReceiverOK, ReceiverType, SlotOrNone
<1>2. /\ rx.pc = "read" /\ rx'.pc = "return" /\ rx'.val = slots[i]
      /\ rx'.slot = i
  BY <1>1 DEF ReadSlot, IInv, Types, ReceiverType
<1>3. \A j \in Slots \ {i} : slots'[j] = slots[j]
  BY <1>1 DEF ReadSlot, IInv, Types
<1>4. UNCHANGED <<readyq, receiver_dropped, waiting, tx>>
  BY DEF ReadSlot, line
<1>5. \A j \in Members(readyq) : j \in Slots \ {i}
  <2>1. i \notin Members(readyq)
    BY <1>1, HandsApart
  <2>2. QED
    BY <2>1, ElementOfSeq DEF Members, IInv, Types
<1>6. Inside' = Inside
  BY <1>3, <1>4, <1>5, InsideSame
<1>7. Handed' = Handed
  BY <1>1, <1>2 DEF Handed
<1>8. Holding' = Holding /\ Accepted' = Accepted
  BY <1>4, HoldingSame, AcceptedSame
<1>9. Cargo'
  <2>1. ASSUME NEW t \in Senders, tx[t].pc = "push"
        PROVE  slots'[tx[t].slot] = <<t, tx[t].sent>>
    <3>1. tx[t].slot \in Slots
      BY <2>1 DEF IInv, Types, Locals, SenderOK, SenderType, SlotOrNone
    <3>2. tx[t].slot # i
      BY <1>1, <3>1, HandsApart
    <3>3. QED
      BY <1>3, <2>1, <3>1, <3>2 DEF Cargo
  <2>2. \A j \in Members(readyq) : slots'[j] # None
    BY <1>3, <1>5 DEF Cargo
  <2>3. rx'.val # None
    BY <1>1, <1>2 DEF Cargo
  <2>4. QED
    BY <1>2, <1>4, <2>1, <2>2, <2>3 DEF Cargo
<1>10. QED
  BY <1>4, <1>6, <1>7, <1>8, <1>9 DEF Abstract!vars

LEMMA ReturnSlotMaps ==
  ASSUME IInv, Cargo, ReturnSlot
  PROVE  Abstract!Done /\ Cargo'
<1>1. /\ rx.pc = "return" /\ return_free_slot(rx.slot, tx)
      /\ UNCHANGED <<readyq, slots, receiver_dropped>>
  BY DEF ReturnSlot
<1>2. PICK g \in Slots : g = rx.slot /\ g # None
  BY <1>1, SlotNotNone
     DEF IInv, Types, Locals, ReceiverOK, ReceiverType, SlotOrNone
<1>3. rx'.pc = "idle" /\ rx'.val = None
  BY DEF ReturnSlot, IInv, Types, ReceiverType
<1>4. Handed # None /\ Handed' = None
  BY <1>1, <1>3 DEF Handed, Cargo
<1>5. Inside' = Inside
  BY <1>1, InsideSame
<1>6. CASE list.head = None
  <2>1. tx' = tx /\ waiting' = waiting /\ waiting = <<>>
    BY <1>1, <1>6, HeadOfLine DEF return_free_slot, line
  <2>2. Holding' = Holding /\ Accepted' = Accepted
    BY <2>1, HoldingSame, AcceptedSame
  <2>3. Cargo'
    BY <1>1, <1>3, <2>1 DEF Cargo
  <2>4. QED
    BY <1>1, <1>4, <1>5, <2>1, <2>2, <2>3 DEF Abstract!Done
<1>7. CASE list.head # None
  <2>1. PICK h \in Senders : h = list.head /\ h = Head(waiting)
    BY <1>7, HeadOfLine
  <2>2. /\ tx' = [tx EXCEPT ![h].granted = g, ![h].woken = TRUE]
        /\ waiting' = Tail(waiting) /\ waiting # <<>>
    BY <1>1, <1>2, <1>7, <2>1, HeadOfLine DEF return_free_slot
  <2>3. /\ \A t \in Senders \ {h} : tx'[t] = tx[t]
        /\ tx'[h].pc = tx[h].pc /\ tx'[h].slot = tx[h].slot
        /\ tx'[h].granted = g /\ tx'[h].sent = tx[h].sent
    BY <2>2 DEF IInv, Types, SenderType
  <2>4. Holding' = Holding \cup {h}
    BY <1>2, <2>3 DEF Holding
  <2>5. Accepted' = Accepted
    BY <2>3, AcceptedSame
  <2>6. Abstract!HasRoom
    <3>1. g \notin Members(readyq)
      BY <1>2, HandsApart
    <3>2. \A s \in Senders : tx[s].slot # g /\ tx[s].granted # g
      BY <1>2, HandsApart
    <3>3. QED
      BY <3>1, <3>2, RoomIf
  <2>7. Cargo'
    BY <1>1, <1>3, <2>3 DEF Cargo
  <2>8. QED
    BY <1>1, <1>4, <1>5, <2>1, <2>2, <2>4, <2>5, <2>6, <2>7
       DEF Abstract!Done
<1>8. QED
  BY <1>6, <1>7

LEMMA DropReceiverMaps ==
  ASSUME IInv, Cargo, DropReceiver
  PROVE  Abstract!Close /\ Cargo'
<1>1. /\ rx.pc = "idle" /\ rx'.pc = "drain" /\ rx'.val = rx.val
      /\ rx'.slot = rx.slot
  BY DEF DropReceiver, IInv, Types, ReceiverType
<1>2. ~ receiver_dropped /\ receiver_dropped'
  BY <1>1 DEF DropReceiver, IInv, Locals, ReceiverOK
<1>3. UNCHANGED <<readyq, slots, waiting, tx>>
  BY DEF DropReceiver, queues, line
<1>4. Inside' = <<>>
  BY <1>2 DEF Inside
<1>5. Handed' = Handed
  BY <1>1, <1>3, HandedSame
<1>6. Holding' = Holding /\ Accepted' = Accepted
  BY <1>3, HoldingSame, AcceptedSame
<1>7. Cargo'
  BY <1>1, <1>3, CargoKept
<1>8. QED
  BY <1>2, <1>3, <1>4, <1>5, <1>6, <1>7 DEF Abstract!Close

LEMMA DrainMaps ==
  ASSUME IInv, Cargo, Drain
  PROVE  UNCHANGED Abstract!vars /\ Cargo'
<1>1. /\ rx.pc = "drain" /\ receiver_dropped
      /\ UNCHANGED <<receiver_dropped, waiting, tx>>
  BY DEF Drain, line, IInv, Locals, ReceiverOK
<1>2. CASE readyq = <<>>
  <2>1. /\ rx'.pc = "dismiss" /\ rx'.val = rx.val
        /\ UNCHANGED <<readyq, slots>>
    BY <1>2 DEF Drain, IInv, Types, ReceiverType
  <2>2. QED
    BY <1>1, <2>1, ReceiverUnseen
<1>3. CASE readyq # <<>>
  <2>1. readyq \in Seq(Slots) /\ NoRepeats(readyq) /\ rx' = rx
    BY <1>3 DEF Drain, IInv, Types, SlotsPlaced
  <2>2. PICK i \in Slots : i = readyq[Len(readyq)] /\ i \in Members(readyq)
    BY <1>3, <2>1, FrontFacts
  <2>3. Members(readyq') = Members(readyq) \ {i}
    BY <1>3, <2>1, <2>2, FrontFacts DEF Drain
  <2>4. \A j \in Slots \ {i} : slots'[j] = slots[j]
    BY <1>3, <2>2 DEF Drain, IInv, Types
  <2>5. Inside' = Inside
    BY <1>1 DEF Inside
  <2>6. Handed' = Handed
    BY <1>1, <2>1 DEF Handed
  <2>7. Holding' = Holding /\ Accepted' = Accepted
    BY <1>1, HoldingSame, AcceptedSame
  <2>8. Cargo'
    <3>1. ASSUME NEW t \in Senders, tx[t].pc = "push"
          PROVE  slots'[tx[t].slot] = <<t, tx[t].sent>>
      <4>1. tx[t].slot \in Slots
        BY <3>1 DEF IInv, Types, Locals, SenderOK, SenderType, SlotOrNone
      <4>2. tx[t].slot # i
        BY <2>2, <4>1, HandsApart
      <4>3. QED
        BY <2>4, <3>1, <4>1, <4>2 DEF Cargo
    <3>2. \A j \in Members(readyq') : slots'[j] # None
      <4>1. \A j \in Members(readyq) : j \in Slots
        BY <2>1, ElementOfSeq DEF Members
      <4>2. QED
        BY <2>3, <2>4, <4>1 DEF Cargo
    <3>3. QED
      BY <1>1, <2>1, <3>1, <3>2 DEF Cargo
  <2>9. QED
    BY <1>1, <2>5, <2>6, <2>7, <2>8 DEF Abstract!vars
<1>4. QED
  BY <1>2, <1>3

LEMMA DismissMaps ==
  ASSUME IInv, Cargo, Dismiss
  PROVE  (Abstract!Dismiss \/ UNCHANGED Abstract!vars) /\ Cargo'
<1>1. /\ rx.pc = "dismiss" /\ receiver_dropped
      /\ UNCHANGED <<readyq, slots, receiver_dropped, tx>>
  BY DEF Dismiss, queues, IInv, Locals, ReceiverOK
<1>2. rx'.pc \in {"gone", "dismiss_wake"} /\ rx'.val = rx.val
  BY DEF Dismiss, IInv, Types, ReceiverType
<1>3. CASE list.head = None
  <2>1. waiting' = waiting
    BY <1>3 DEF Dismiss, line
  <2>2. QED
    BY <1>1, <1>2, <2>1, ReceiverUnseen
<1>4. CASE list.head # None
  <2>1. waiting' = Tail(waiting) /\ waiting # <<>>
    BY <1>4, HeadOfLine DEF Dismiss
  <2>2. Inside' = Inside /\ Handed' = Handed
    BY <1>1, <1>2, InsideSame, HandedSame
  <2>3. Holding' = Holding /\ Accepted' = Accepted
    BY <1>1, HoldingSame, AcceptedSame
  <2>4. Cargo'
    BY <1>1, <1>2, CargoKept
  <2>5. QED
    BY <1>1, <2>1, <2>2, <2>3, <2>4 DEF Abstract!Dismiss
<1>5. QED
  BY <1>3, <1>4

LEMMA DismissWakeMaps ==
  ASSUME IInv, Cargo, DismissWake
  PROVE  UNCHANGED Abstract!vars /\ Cargo'
<1>1. PICK h \in Senders : h = rx.waker
  BY DEF DismissWake, IInv, Types, Locals, ReceiverOK, ReceiverType
<1>2. \A t \in Senders :
        /\ tx'[t].pc = tx[t].pc /\ tx'[t].slot = tx[t].slot
        /\ tx'[t].granted = tx[t].granted /\ tx'[t].sent = tx[t].sent
  BY <1>1 DEF DismissWake, IInv, Types, SenderType
<1>3. rx.pc = "dismiss_wake" /\ rx'.pc = "dismiss" /\ rx'.val = rx.val
  BY DEF DismissWake, IInv, Types, ReceiverType
<1>4. UNCHANGED <<readyq, slots, receiver_dropped, waiting>>
  BY DEF DismissWake, queues, line
<1>5. Inside' = Inside /\ Handed' = Handed
  BY <1>3, <1>4, InsideSame, HandedSame
<1>6. Holding' = Holding /\ Accepted' = Accepted
  BY <1>2, HoldingSame, AcceptedSame
<1>7. Cargo'
  BY <1>2, <1>3, <1>4, CargoKept
<1>8. QED
  BY <1>4, <1>5, <1>6, <1>7 DEF Abstract!vars

-----------------------------------------------------------------------------
(* The refinement.                                                         *)

LEMMA AbstractInit == Init => Abstract!Init /\ Cargo
<1> SUFFICES ASSUME Init PROVE Abstract!Init /\ Cargo
  OBVIOUS
<1>1. /\ readyq = <<>> /\ waiting = <<>> /\ ~ receiver_dropped
      /\ rx.pc = "idle" /\ rx.val = None
  BY DEF Init
<1>2. \A s \in Senders :
        /\ tx[s].slot = None /\ tx[s].granted = None /\ tx[s].sent = 0
        /\ tx[s].pc # "push"
  BY DEF Init, NewSender
<1>3. Inside = <<>>
  <2>1. Len(<<>>) = 0
    OBVIOUS
  <2>2. QED
    BY <1>1, <2>1 DEF Inside
<1>4. Handed = None /\ Holding = {}
  BY <1>1, <1>2 DEF Handed, Holding
<1>5. Accepted = [s \in Senders |-> 0]
  BY <1>2 DEF Accepted
<1>6. Cargo
  BY <1>1, <1>2 DEF Cargo, Members
<1>7. QED
  BY <1>1, <1>3, <1>4, <1>5, <1>6 DEF Abstract!Init

LEMMA SenderMaps ==
  ASSUME IInv, Cargo, NEW s \in Senders,
         \/ TrySend(s) \/ SendPoll(s) \/ CancelSend(s)
         \/ SenderGoesOn(s) \/ DropSender(s)
         \/ \E t \in Senders : Clone(s, t)
  PROVE  (Abstract!Next \/ UNCHANGED Abstract!vars) /\ Cargo'
<1>1. CASE TrySend(s) \/ CancelSend(s) \/ DropSender(s)
  BY <1>1, TrySendMaps, QuietSendMaps
<1>2. CASE SendPoll(s)
  <2>1. CASE SendClosed(s) \/ SendStillWaits(s)
    BY <2>1, QuietSendMaps
  <2>2. CASE SendPopped(s)
    BY <2>2, SendPoppedMaps
  <2>3. CASE SendWaits(s)
    BY <2>3, SendWaitsMaps DEF Abstract!Next
  <2>4. CASE SendSlot(s)
    BY <2>4, SendSlotMaps DEF Abstract!Next
  <2>5. QED
    BY <1>2, <2>1, <2>2, <2>3, <2>4 DEF SendPoll
<1>3. CASE SenderGoesOn(s)
  <2>1. CASE TrySendIsClosed(s)
    BY <2>1, TrySendMaps
  <2>2. CASE TrySendSlot(s)
    BY <2>2, TrySendSlotMaps DEF Abstract!Next
  <2>3. CASE Unlink(s)
    BY <2>3, UnlinkMaps DEF Abstract!Next
  <2>4. CASE GiveBack(s)
    BY <2>4, GiveBackMaps DEF Abstract!Next
  <2>5. CASE WriteSlot(s)
    BY <2>5, WriteSlotMaps
  <2>6. CASE PushReady(s)
    BY <2>6, PushReadyMaps DEF Abstract!Next
  <2>7. CASE Wake(s)
    BY <2>7, WakeMaps
  <2>8. QED
    BY <1>3, <2>1, <2>2, <2>3, <2>4, <2>5, <2>6, <2>7 DEF SenderGoesOn
<1>4. CASE \E t \in Senders : Clone(s, t)
  BY <1>4, CloneMaps
<1>5. QED
  BY <1>1, <1>2, <1>3, <1>4

LEMMA ReceiverMaps ==
  ASSUME IInv, Cargo,
         \/ Register \/ PopReady \/ CancelRecv \/ DropReceiver
         \/ ReceiverGoesOn
  PROVE  (Abstract!Next \/ UNCHANGED Abstract!vars) /\ Cargo'
<1>1. CASE Register \/ RecvIsClosed \/ CancelRecv
  BY <1>1, QuietReceiveMaps
<1>2. CASE PopReady
  BY <1>2, PopReadyMaps DEF Abstract!Next
<1>3. CASE DropReceiver
  BY <1>3, DropReceiverMaps DEF Abstract!Next
<1>4. CASE ReadSlot
  BY <1>4, ReadSlotMaps
<1>5. CASE ReturnSlot
  BY <1>5, ReturnSlotMaps DEF Abstract!Next
<1>6. CASE Drain
  BY <1>6, DrainMaps
<1>7. CASE Dismiss
  BY <1>7, DismissMaps DEF Abstract!Next
<1>8. CASE DismissWake
  BY <1>8, DismissWakeMaps
<1>9. QED
  BY <1>1, <1>2, <1>3, <1>4, <1>5, <1>6, <1>7, <1>8 DEF ReceiverGoesOn

LEMMA StutterMaps ==
  ASSUME Cargo, UNCHANGED vars
  PROVE  UNCHANGED Abstract!vars /\ Cargo'
<1>1. /\ UNCHANGED <<readyq, slots, receiver_dropped, waiting, tx, rx>>
  BY DEF vars, queues, line
<1>2. QED
  BY <1>1 DEF Abstract!vars, Inside, Handed, Holding, Accepted, Cargo

(* For every channel: whatever the tasks at its ends interleave, cancel    *)
(* and drop, each message that was accepted is received once and in the    *)
(* order of the acceptances, room is promised to at most N, and the        *)
(* senders that wait are served in the order in which they came, which is  *)
(* what channel.rs takes the wait queue for.                               *)
THEOREM ChannelIsBounded == Spec => ImplementsBoundedChannel
<1>1. IInv /\ Cargo /\ [Next]_vars
        => [Abstract!Next]_(Abstract!vars) /\ Cargo'
  <2> SUFFICES ASSUME IInv, Cargo, [Next]_vars
               PROVE  (Abstract!Next \/ UNCHANGED Abstract!vars) /\ Cargo'
    OBVIOUS
  <2>1. CASE \E s \in Senders :
               \/ TrySend(s) \/ SendPoll(s) \/ CancelSend(s)
               \/ SenderGoesOn(s) \/ DropSender(s)
               \/ \E t \in Senders : Clone(s, t)
    BY <2>1, SenderMaps
  <2>2. CASE \/ Register \/ PopReady \/ CancelRecv \/ DropReceiver
             \/ ReceiverGoesOn
    BY <2>2, ReceiverMaps
  <2>3. CASE UNCHANGED vars
    BY <2>3, StutterMaps
  <2>4. QED
    BY <2>1, <2>2, <2>3 DEF Next
<1>2. Spec => Abstract!Spec
  BY <1>1, AbstractInit, IInvAlways, PTL DEF Spec, Abstract!Spec
<1>3. QED
  BY <1>2 DEF ImplementsBoundedChannel
=============================================================================
