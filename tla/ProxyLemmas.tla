------------------------------ MODULE ProxyLemmas ------------------------------
(***************************************************************************)
(* What the operations the proxy is built from do: the lemmas the proofs   *)
(* about it cite.                                                          *)
(***************************************************************************)
EXTENDS ClientConnection, ServerConnection, Sequences, SequencesExt,
        SequenceTheorems, FiniteSetTheorems, WellFoundedInduction, TLAPS

--------------------------------------------------------------------------------
(* What the list operations -- emplace_back, erase, and the queue of accept()   *)
(* -- do to a list in which nothing occurs twice: to its length, to the set of  *)
(* its elements, and that nothing occurs twice after them.                      *)

(* The elements of a list are those at its positions. *)
LEMMA InToSet ==
  ASSUME NEW S, NEW s \in Seq(S)
  PROVE  /\ ToSet(s) \subseteq S
         /\ \A i \in 1..Len(s) : s[i] \in ToSet(s)
         /\ \A x : x \in ToSet(s) <=> \E i \in 1..Len(s) : x = s[i]
BY DEF ToSet

LEMMA EmptyList == ToSet(<<>>) = {} /\ IsInjective(<<>>) /\ Len(<<>>) = 0
BY DEF ToSet, IsInjective

(* emplace_back() of something new. *)
LEMMA AppendNew ==
  ASSUME NEW S, NEW s \in Seq(S), NEW x \in S, x \notin ToSet(s), IsInjective(s)
  PROVE  /\ Append(s, x) \in Seq(S)
         /\ Len(Append(s, x)) = Len(s) + 1
         /\ ToSet(Append(s, x)) = ToSet(s) \union {x}
         /\ IsInjective(Append(s, x))
<1>. DEFINE t == Append(s, x)
<1>1. /\ t \in Seq(S)
      /\ Len(t) = Len(s) + 1
      /\ \A i \in 1..Len(s) : t[i] = s[i]
      /\ t[Len(t)] = x
  OBVIOUS
<1>. HIDE DEF t
<1>2. Len(s) \in Nat
  OBVIOUS
<1>3. ToSet(t) = ToSet(s) \union {x}
  BY <1>1, <1>2 DEF ToSet
<1>4. IsInjective(t)
  <2>. SUFFICES ASSUME NEW i \in 1..Len(t), NEW j \in 1..Len(t), t[i] = t[j]
                PROVE  i = j
    BY <1>1 DEF IsInjective
  <2>1. \A k \in 1..Len(s) : t[k] # x
    BY <1>1, InToSet
  <2>2. CASE i \in 1..Len(s) /\ j \in 1..Len(s)
    BY <1>1, <2>2 DEF IsInjective
  <2>. QED  BY <1>1, <1>2, <2>1, <2>2
<1>. QED  BY <1>1, <1>3, <1>4 DEF t

(* erase() of the element at position i. *)
LEMMA EraseAt ==
  ASSUME NEW S, NEW s \in Seq(S), NEW i \in 1..Len(s), IsInjective(s)
  PROVE  /\ RemoveAt(s, i) \in Seq(S)
         /\ Len(RemoveAt(s, i)) = Len(s) - 1
         /\ ToSet(RemoveAt(s, i)) = ToSet(s) \ {s[i]}
         /\ IsInjective(RemoveAt(s, i))
<1>. DEFINE t == RemoveAt(s, i)
            Old(j) == IF j < i THEN j ELSE j + 1
<1>0. Len(s) \in Nat /\ i \in Nat
  OBVIOUS
<1>1. /\ t \in Seq(S)
      /\ Len(t) = Len(s) - 1
      /\ \A j \in 1..Len(t) : t[j] = s[Old(j)]
  <2>. DEFINE a == SubSeq(s, 1, i - 1)
              b == SubSeq(s, i + 1, Len(s))
  <2>1. /\ a \in Seq(S)
        /\ Len(a) = i - 1
        /\ \A j \in 1..(i - 1) : a[j] = s[j]
    BY <1>0
  <2>2. /\ b \in Seq(S)
        /\ Len(b) = Len(s) - i
        /\ \A j \in 1..(Len(s) - i) : b[j] = s[i + j]
    BY <1>0
  <2>3. t = a \o b
    BY DEF RemoveAt
  <2>. HIDE DEF a, b, t
  <2>4. t \in Seq(S) /\ Len(t) = Len(s) - 1
    <3>1. t \in Seq(S) /\ Len(t) = Len(a) + Len(b)
      BY <2>1, <2>2, <2>3, ConcatProperties
    <3>. QED  BY <1>0, <2>1, <2>2, <3>1
  <2>5. ASSUME NEW j \in 1..Len(t)
        PROVE  t[j] = s[Old(j)]
    <3>1. CASE j < i
      BY <1>0, <2>1, <2>2, <2>3, <2>4, <3>1
    <3>2. CASE j >= i
      <4>1. t[j] = b[j - Len(a)]
        BY <1>0, <2>1, <2>2, <2>3, <2>4, <3>2
      <4>. QED  BY <1>0, <2>1, <2>2, <2>4, <3>2, <4>1
    <3>. QED  BY <1>0, <2>4, <3>1, <3>2
  <2>. QED  BY <2>4, <2>5
<1>. HIDE DEF t
<1>2. \A j \in 1..Len(t) : Old(j) \in 1..Len(s) /\ Old(j) # i
  BY <1>0, <1>1
<1>3. \A j \in 1..Len(s) : j # i => \E k \in 1..Len(t) : j = Old(k)
  <2>. SUFFICES ASSUME NEW j \in 1..Len(s), j # i
                PROVE  \E k \in 1..Len(t) : j = Old(k)
    OBVIOUS
  <2>1. CASE j < i
    <3>1. j \in 1..Len(t) /\ j = Old(j)
      BY <1>0, <1>1, <2>1
    <3>. QED  BY <3>1
  <2>2. CASE j > i
    <3>1. (j - 1) \in 1..Len(t) /\ j = Old(j - 1)
      BY <1>0, <1>1, <2>2
    <3>. QED  BY <3>1
  <2>. QED  BY <1>0, <2>1, <2>2
<1>4. \A j, k \in 1..Len(s) : s[j] = s[k] => j = k
  BY DEF IsInjective
<1>. HIDE DEF Old
<1>5. ToSet(t) = ToSet(s) \ {s[i]}
  <2>1. ASSUME NEW x \in ToSet(t)
        PROVE  x \in ToSet(s) \ {s[i]}
    <3>1. PICK j \in 1..Len(t) : x = t[j]
      BY <1>1, InToSet
    <3>. QED  BY <1>1, <1>2, <1>4, <3>1, InToSet
  <2>2. ASSUME NEW x \in ToSet(s) \ {s[i]}
        PROVE  x \in ToSet(t)
    <3>1. PICK j \in 1..Len(s) : x = s[j]
      BY InToSet
    <3>2. PICK k \in 1..Len(t) : j = Old(k)
      BY <1>3, <2>2, <3>1
    <3>. QED  BY <1>1, <3>1, <3>2, InToSet
  <2>. QED  BY <2>1, <2>2
<1>6. IsInjective(t)
  <2>1. DOMAIN t = 1..Len(t)
    BY <1>1
  <2>. SUFFICES ASSUME NEW j \in DOMAIN t, NEW k \in DOMAIN t, t[j] = t[k]
                PROVE  j = k
    BY DEF IsInjective
  <2>2. j \in 1..Len(t) /\ k \in 1..Len(t)
    BY <2>1
  <2>3. Old(j) = Old(k)
    BY <1>1, <1>2, <1>4, <2>2
  <2>. QED  BY <1>0, <1>1, <2>2, <2>3 DEF Old
<1>. QED  BY <1>1, <1>5, <1>6 DEF t

(* accept() takes the first of the queue. *)
LEMMA TakeFirst ==
  ASSUME NEW S, NEW s \in Seq(S), s # <<>>, IsInjective(s)
  PROVE  /\ Head(s) \in ToSet(s)
         /\ Tail(s) \in Seq(S)
         /\ ToSet(Tail(s)) = ToSet(s) \ {Head(s)}
         /\ IsInjective(Tail(s))
<1>. DEFINE t == Tail(s)
<1>1. /\ t \in Seq(S)
      /\ Len(s) \in Nat /\ Len(s) >= 1
      /\ Len(t) = Len(s) - 1
      /\ \A j \in 1..Len(t) : t[j] = s[j + 1]
      /\ Head(s) = s[1]
  OBVIOUS
<1>. HIDE DEF t
<1>2. \A j, k \in 1..Len(s) : s[j] = s[k] => j = k
  BY DEF IsInjective
<1>3. ToSet(t) = ToSet(s) \ {Head(s)}
  <2>1. ASSUME NEW x \in ToSet(t)
        PROVE  x \in ToSet(s) \ {Head(s)}
    <3>1. PICK j \in 1..Len(t) : x = t[j]
      BY <1>1, InToSet
    <3>2. (j + 1) \in 1..Len(s) /\ x = s[j + 1] /\ 1 \in 1..Len(s) /\ j + 1 # 1
      BY <1>1, <3>1
    <3>. QED  BY <1>1, <1>2, <3>2, InToSet
  <2>2. ASSUME NEW x \in ToSet(s) \ {Head(s)}
        PROVE  x \in ToSet(t)
    <3>1. PICK j \in 1..Len(s) : x = s[j]
      BY InToSet
    <3>2. (j - 1) \in 1..Len(t) /\ x = t[j - 1]
      BY <1>1, <2>2, <3>1
    <3>. QED  BY <1>1, <3>2, InToSet
  <2>. QED  BY <2>1, <2>2
<1>4. IsInjective(t)
  <2>. SUFFICES ASSUME NEW j \in 1..Len(t), NEW k \in 1..Len(t), t[j] = t[k]
                PROVE  j = k
    BY <1>1 DEF IsInjective
  <2>1. (j + 1) \in 1..Len(s) /\ (k + 1) \in 1..Len(s) /\ s[j + 1] = s[k + 1]
    BY <1>1
  <2>2. j + 1 = k + 1
    BY <1>2, <2>1
  <2>. QED  BY <1>1, <2>2
<1>5. Head(s) \in ToSet(s)
  <2>1. 1 \in 1..Len(s)
    BY <1>1
  <2>. QED  BY <1>1, <2>1, InToSet
<1>. QED  BY <1>1, <1>3, <1>4, <1>5 DEF t

--------------------------------------------------------------------------------
(* What the operations of PollTable do to a table.                              *)

(* The heap's top is one of its elements: among the sets of the indexes     *)
(* below an element, one is contained in no other.                          *)
LEMMA TopIsFree ==
  ASSUME NEW table, table.free \in SUBSET Slots, table.free # {}
  PROVE  /\ TopFreeIndex(table) \in table.free
         /\ \A y \in table.free : TopFreeIndex(table) =< y
<1>. DEFINE I        == table.free
            Below(i) == {j \in I : j < i}
            order    == StrictSubsetOrdering(Slots)
            T        == {Below(i) : i \in I}
<1>1. I \subseteq Int /\ I \subseteq Slots /\ IsFiniteSet(Slots)
  <2>1. IsFiniteSet(Slots)
    BY MaxConnectionNumAssumption, FS_Interval DEF Slots
  <2>2. Slots \subseteq Int
    BY MaxConnectionNumAssumption DEF Slots
  <2>. QED  BY <2>1, <2>2
<1>2. T \subseteq FiniteSubsetsOf(Slots) /\ T # {}
  <2>1. ASSUME NEW i \in I
        PROVE  Below(i) \in SUBSET Slots /\ IsFiniteSet(Below(i))
    BY <1>1, FS_Subset
  <2>. QED  BY <2>1 DEF FiniteSubsetsOf
<1>3. \E B \in T : \A C \in T : <<C, B>> \notin order
  <2>. HIDE DEF T, order
  <2>1. IsWellFoundedOn(StrictSubsetOrdering(Slots), FiniteSubsetsOf(Slots))
    BY FS_StrictSubsetOrderingWellFounded
  <2>. QED  BY <1>2, <2>1, WFMin DEF order
<1>4. PICK x \in I : \A C \in T : <<C, Below(x)>> \notin order
  BY <1>3
<1>5. ASSUME NEW y \in I, y < x
      PROVE  FALSE
  <2>1. Below(y) \subseteq Below(x)
    BY <1>1, <1>5
  <2>2. y \in Below(x) /\ y \notin Below(y)
    BY <1>1, <1>5
  <2>3. <<Below(y), Below(x)>> \in order
    BY <1>1, <2>1, <2>2 DEF StrictSubsetOrdering
  <2>. QED  BY <1>4, <2>3
<1>6. \A y \in I : x =< y
  BY <1>1, <1>5
<1>. QED  BY <1>6 DEF TopFreeIndex, Min

(* Sets of indexes are finite. *)
LEMMA FreeIsFinite ==
  ASSUME NEW I \in SUBSET Slots
  PROVE  IsFiniteSet(I) /\ Cardinality(I) \in Nat
<1>1. IsFiniteSet(Slots)
  BY MaxConnectionNumAssumption, FS_Interval DEF Slots
<1>. QED  BY <1>1, FS_Subset, FS_CardinalityType

(* The table the constructor starts from: index 0 is on top of the heap. *)
LEMMA EmptyPollTableEffect ==
  ASSUME NEW Fds
  PROVE  /\ EmptyPollTable \in PollTables(Fds)
         /\ \A i \in Slots : EmptyPollTable.pollList[i] = IgnoredSlot
         /\ EmptyPollTable.size = 0
         /\ EmptyPollTable.free = Slots
         /\ EmptyPollTable.free # {}
         /\ TopFreeIndex(EmptyPollTable) = 0
         /\ Cardinality(EmptyPollTable.free) = MaxConnectionNum
<1>1. /\ EmptyPollTable \in PollTables(Fds)
      /\ \A i \in Slots : EmptyPollTable.pollList[i] = IgnoredSlot
      /\ EmptyPollTable.size = 0
      /\ EmptyPollTable.free = Slots
  BY DEF EmptyPollTable, PollTables, IgnoredSlot
<1>2. 0 \in Slots /\ \A i \in Slots : i \in Int /\ 0 =< i
  BY MaxConnectionNumAssumption DEF Slots
<1>3. TopFreeIndex(EmptyPollTable) = 0
  <2>. DEFINE x == TopFreeIndex(EmptyPollTable)
  <2>1. x \in Slots /\ \A y \in Slots : x =< y
    BY <1>1, <1>2, TopIsFree
  <2>. HIDE DEF x
  <2>2. x = 0
    BY <1>2, <2>1
  <2>. QED  BY <2>2 DEF x
<1>4. Cardinality(Slots) = MaxConnectionNum
  BY MaxConnectionNumAssumption, FS_Interval DEF Slots
<1>. QED  BY <1>1, <1>2, <1>3, <1>4

(* addConnectionFdInPollList() with a free index left: one slot, which was    *)
(* free, gets the descriptor and nothing of a former owner; no other slot     *)
(* changes.                                                                   *)
LEMMA AddEffect ==
  ASSUME NEW Fds, NEW table \in PollTables(Fds), table.free # {},
         NEW fd \in Fds, NEW events \in SUBSET Events
  PROVE  LET idx == TopFreeIndex(table)
             t   == AddConnectionFd(table, fd, events)
         IN  /\ idx \in Slots /\ idx \in table.free
             /\ t \in PollTables(Fds)
             /\ \A i \in Slots : t.pollList[i] =
                  IF i = idx THEN [fd |-> fd, events |-> events, revents |-> {}]
                             ELSE table.pollList[i]
             /\ t.size = table.size + 1
             /\ t.free = table.free \ {idx}
             /\ Cardinality(t.free) = Cardinality(table.free) - 1
<1>. DEFINE idx == TopFreeIndex(table)
            t   == AddConnectionFd(table, fd, events)
<1>1. table.free \in SUBSET Slots
  BY DEF PollTables
<1>2. idx \in Slots /\ idx \in table.free
  BY <1>1, TopIsFree
<1>. HIDE DEF idx
<1>3. t = [pollList |-> [table.pollList EXCEPT
                           ![idx] = [fd |-> fd, events |-> events, revents |-> {}]],
           size |-> table.size + 1, free |-> table.free \ {idx}]
  BY DEF AddConnectionFd, idx
<1>. HIDE DEF t
<1>4. t \in PollTables(Fds)
  BY <1>2, <1>3 DEF PollTables, Revents
<1>5. \A i \in Slots : t.pollList[i] =
        IF i = idx THEN [fd |-> fd, events |-> events, revents |-> {}] ELSE table.pollList[i]
  BY <1>2, <1>3 DEF PollTables
<1>6. t.size = table.size + 1 /\ t.free = table.free \ {idx}
  BY <1>3
<1>7. Cardinality(table.free \ {idx}) = Cardinality(table.free) - 1
  BY <1>1, <1>2, FreeIsFinite, FS_RemoveElement
<1>. QED  BY <1>2, <1>4, <1>5, <1>6, <1>7 DEF t, idx

(* removeConnectionFdFromPollList() of a slot that is taken. *)
LEMMA RemoveEffect ==
  ASSUME NEW Fds, NEW table \in PollTables(Fds), NEW idx \in Slots, idx \notin table.free
  PROVE  LET t == RemoveConnectionFd(table, idx)
         IN  /\ t \in PollTables(Fds)
             /\ \A i \in Slots : t.pollList[i] =
                  IF i = idx THEN IgnoredSlot ELSE table.pollList[i]
             /\ t.size = table.size - 1
             /\ t.free = table.free \union {idx}
             /\ Cardinality(t.free) = Cardinality(table.free) + 1
<1>. DEFINE t == RemoveConnectionFd(table, idx)
<1>1. t = [pollList |-> [table.pollList EXCEPT ![idx] = IgnoredSlot],
           size |-> table.size - 1, free |-> table.free \union {idx}]
  BY DEF RemoveConnectionFd
<1>. HIDE DEF t
<1>2. t \in PollTables(Fds)
  BY <1>1 DEF PollTables, IgnoredSlot
<1>3. \A i \in Slots : t.pollList[i] = IF i = idx THEN IgnoredSlot ELSE table.pollList[i]
  BY <1>1 DEF PollTables
<1>4. t.size = table.size - 1 /\ t.free = table.free \union {idx}
  BY <1>1
<1>5. table.free \in SUBSET Slots
  BY DEF PollTables
<1>6. Cardinality(table.free \union {idx}) = Cardinality(table.free) + 1
  BY <1>5, FreeIsFinite, FS_AddElement
<1>. QED  BY <1>2, <1>3, <1>4, <1>6 DEF t

(* Two tables whose slots have the same owners. *)
SameOwners(t, table) ==
  /\ \A i \in Slots : t.pollList[i].fd = table.pollList[i].fd
  /\ t.size = table.size
  /\ t.free = table.free

(* The assignments to events and revents leave the owners alone. *)
LEMMA SetEventsEffect ==
  ASSUME NEW Fds, NEW table \in PollTables(Fds),
         NEW idxs, NEW events \in SUBSET Events
  PROVE  LET t == SetEvents(table, idxs, events)
         IN  /\ t \in PollTables(Fds)
             /\ SameOwners(t, table)
             /\ \A i \in Slots : /\ t.pollList[i].revents = table.pollList[i].revents
                                /\ t.pollList[i].events =
                                     IF i \in idxs THEN events ELSE table.pollList[i].events
<1>. DEFINE slots == [i \in Slots |->
                        IF i \in idxs THEN [table.pollList[i] EXCEPT !.events = events]
                                      ELSE table.pollList[i]]
            t     == SetEvents(table, idxs, events)
<1>1. t = [pollList |-> slots, size |-> table.size, free |-> table.free]
  BY DEF SetEvents, PollTables
<1>. HIDE DEF t
<1>2. ASSUME NEW i \in Slots
      PROVE  /\ slots[i] \in [fd : Fds \union {IgnoredSocketFd},
                              events : SUBSET Events, revents : SUBSET Revents]
             /\ slots[i].fd = table.pollList[i].fd
             /\ slots[i].revents = table.pollList[i].revents
             /\ slots[i].events = IF i \in idxs THEN events ELSE table.pollList[i].events
  BY DEF PollTables
<1>. HIDE DEF slots
<1>3. slots = [i \in Slots |-> slots[i]]
  BY DEF slots
<1>4. t \in PollTables(Fds)
  BY <1>1, <1>2, <1>3 DEF PollTables
<1>. QED  BY <1>1, <1>2, <1>4 DEF t, SameOwners

(* What changes the slots alone. *)
LEMMA OtherSlots ==
  ASSUME NEW Fds, NEW table \in PollTables(Fds), NEW slots
  PROVE  [table EXCEPT !.pollList = slots] =
           [pollList |-> slots, size |-> table.size, free |-> table.free]
BY DEF PollTables

LEMMA ClearReventsEffect ==
  ASSUME NEW Fds, NEW table \in PollTables(Fds), NEW idx \in Slots
  PROVE  LET t == ClearRevents(table, idx)
         IN  /\ t \in PollTables(Fds)
             /\ SameOwners(t, table)
             /\ \A i \in Slots : /\ t.pollList[i].events = table.pollList[i].events
                                /\ t.pollList[i].revents =
                                     IF i = idx THEN {} ELSE table.pollList[i].revents
<1>. DEFINE slot == [table.pollList[idx] EXCEPT !.revents = {}]
            t    == ClearRevents(table, idx)
<1>1. t = [table EXCEPT !.pollList = [table.pollList EXCEPT ![idx] = slot]]
  BY DEF ClearRevents
<1>2. t = [pollList |-> [table.pollList EXCEPT ![idx] = slot],
           size |-> table.size, free |-> table.free]
  BY <1>1, OtherSlots
<1>3. /\ slot \in [fd : Fds \union {IgnoredSocketFd},
                   events : SUBSET Events, revents : SUBSET Revents]
      /\ slot.fd = table.pollList[idx].fd
      /\ slot.events = table.pollList[idx].events
      /\ slot.revents = {}
  BY DEF PollTables
<1>. HIDE DEF t, slot
<1>4. t \in PollTables(Fds)
  BY <1>2, <1>3 DEF PollTables
<1>5. \A i \in Slots : t.pollList[i] = IF i = idx THEN slot ELSE table.pollList[i]
  BY <1>2 DEF PollTables
<1>6. SameOwners(t, table)
  BY <1>2, <1>3, <1>5 DEF SameOwners
<1>. QED  BY <1>3, <1>4, <1>5, <1>6 DEF t

LEMMA WithReventsEffect ==
  ASSUME NEW Fds, NEW table \in PollTables(Fds), NEW revents \in [Slots -> SUBSET Revents]
  PROVE  LET t == WithRevents(table, revents)
         IN  /\ t \in PollTables(Fds)
             /\ SameOwners(t, table)
             /\ \A i \in Slots : /\ t.pollList[i].events = table.pollList[i].events
                                /\ t.pollList[i].revents = revents[i]
<1>. DEFINE slots == [i \in Slots |-> [table.pollList[i] EXCEPT !.revents = revents[i]]]
            t     == WithRevents(table, revents)
<1>1. t = [table EXCEPT !.pollList = slots]
  BY DEF WithRevents
<1>2. t = [pollList |-> slots, size |-> table.size, free |-> table.free]
  BY <1>1, OtherSlots
<1>3. ASSUME NEW i \in Slots
      PROVE  /\ slots[i] \in [fd : Fds \union {IgnoredSocketFd},
                              events : SUBSET Events, revents : SUBSET Revents]
             /\ slots[i].fd = table.pollList[i].fd
             /\ slots[i].events = table.pollList[i].events
             /\ slots[i].revents = revents[i]
  <2>1. /\ table.pollList[i] \in [fd : Fds \union {IgnoredSocketFd},
                                 events : SUBSET Events, revents : SUBSET Revents]
        /\ revents[i] \in SUBSET Revents
    BY DEF PollTables
  <2>. QED  BY <2>1
<1>4. slots = [i \in Slots |-> slots[i]]
  OBVIOUS
<1>. HIDE DEF t, slots
<1>5. t \in PollTables(Fds)
  BY <1>2, <1>3, <1>4 DEF PollTables
<1>. QED  BY <1>2, <1>3, <1>5 DEF t, SameOwners

--------------------------------------------------------------------------------
(* What the operations on the connection objects do to the fields the invariant *)
(* speaks of.                                                                   *)

(* The fields of a client connection that place it: its slot and its request. *)
SamePlace(d, c) == d.inPollListIdx = c.inPollListIdx /\ d.request = c.request

LEMMA NewClientEffect ==
  ASSUME NEW idx \in Slots
  PROVE  /\ NewClient(idx) \in ClientRecords
         /\ NewClient(idx).inPollListIdx = idx
         /\ NewClient(idx).connectionState = "WAITING_FOR_REQUEST"
BY MessagesAssumption DEF NewClient, ClientRecords, ClientConnectionStates

LEMMA NoClientEffect ==
  /\ NoClient \in ClientRecords
  /\ NoClient.connectionState = "WAITING_FOR_REQUEST"
<1>1. 0 \in Slots
  BY MaxConnectionNumAssumption DEF Slots
<1>. QED  BY <1>1, NewClientEffect DEF NoClient

LEMMA PartOfRequestEffect ==
  ASSUME NEW client \in ClientRecords, NEW n \in Nat, client.received + n =< ReqLen + 1
  PROVE  LET c == PartOfRequest(client, n)
         IN  /\ c \in ClientRecords
             /\ SamePlace(c, client)
             /\ c.connectionState = "RECEIVING_REQUEST"
<1>1. client.received + n \in 0..(ReqLen + 1)
  BY MessagesAssumption DEF ClientRecords
<1>2. "RECEIVING_REQUEST" \in ClientConnectionStates
  BY DEF ClientConnectionStates
<1>. QED  BY <1>1, <1>2 DEF PartOfRequest, ClientRecords, SamePlace

LEMMA WholeRequestEffect ==
  ASSUME NEW client \in ClientRecords, NEW request \in Requests
  PROVE  LET c == WholeRequest(client, request)
         IN  /\ c \in ClientRecords
             /\ c.inPollListIdx = client.inPollListIdx
             /\ c.request = request
             /\ c.connectionState = IF request.verdict = "WITHOUT_ERRORS"
                                    THEN "PROCESSING_REQUEST" ELSE "WRONG_REQUEST"
<1>1. ReqLen \in 0..(ReqLen + 1)
  BY MessagesAssumption
<1>2. {"PROCESSING_REQUEST", "WRONG_REQUEST"} \subseteq ClientConnectionStates
  BY DEF ClientConnectionStates
<1>. QED  BY <1>1, <1>2 DEF WholeRequest, ClientRecords

LEMMA InitializeAnswerSendingEffect ==
  ASSUME NEW client \in ClientRecords, NEW answer \in Answers
  PROVE  LET c == InitializeAnswerSending(client, answer)
         IN  /\ c \in ClientRecords
             /\ SamePlace(c, client)
             /\ c.connectionState = "RECEIVING_ANSWER"
<1>1. 0 \in 0..RespLen
  BY MessagesAssumption
<1>2. "RECEIVING_ANSWER" \in ClientConnectionStates
  BY DEF ClientConnectionStates
<1>. QED  BY <1>1, <1>2 DEF InitializeAnswerSending, ClientRecords, SamePlace

LEMMA AnswerPartSentEffect ==
  ASSUME NEW client \in ClientRecords, client.sendAnswerBuf \in Answers,
         NEW n \in Nat, n < LeftToSend(client)
  PROVE  LET c == AnswerPartSent(client, n)
         IN  /\ c \in ClientRecords
             /\ SamePlace(c, client)
             /\ c.connectionState = client.connectionState
<1>1. /\ client.sendAnswerOffset \in 0..RespLen
      /\ client.sendAnswerBuf.len \in 0..RespLen
      /\ RespLen \in Nat
  BY MessagesAssumption DEF ClientRecords, Answers
<1>2. client.sendAnswerOffset + n \in 0..RespLen
  BY <1>1 DEF LeftToSend
<1>. QED  BY <1>2 DEF AnswerPartSent, ClientRecords, SamePlace

--------------------------------------------------------------------------------

LEMMA NewServerEffect ==
  ASSUME NEW idx \in Slots, NEW request \in Requests \union {NoRequest}
  PROVE  /\ NewServer(idx, request) \in ServerRecords
         /\ NewServer(idx, request).inPollListIdx = idx
         /\ NewServer(idx, request).request = request
BY MessagesAssumption DEF NewServer, ServerRecords, ServerConnectionStates

LEMMA NoServerEffect == NoServer \in ServerRecords
<1>1. 0 \in Slots
  BY MaxConnectionNumAssumption DEF Slots
<1>. QED  BY <1>1, NewServerEffect DEF NoServer

LEMMA RequestSentEffect ==
  ASSUME NEW server \in ServerRecords, NEW n \in Nat,
         n =< ReqLen - server.sendRequestOffset
  PROVE  LET s == RequestSent(server, n)
         IN  s \in ServerRecords /\ SamePlace(s, server)
<1>1. server.sendRequestOffset \in 0..ReqLen /\ ReqLen \in Nat
  BY MessagesAssumption DEF ServerRecords
<1>2. server.sendRequestOffset + n \in 0..ReqLen
  BY <1>1
<1>. QED  BY <1>2 DEF RequestSent, ServerRecords, ServerConnectionStates, SamePlace

LEMMA AnswerReceivedEffect ==
  ASSUME NEW server \in ServerRecords, NEW n \in Nat, server.recvLen + n =< RespLen
  PROVE  LET s == AnswerReceived(server, n)
         IN  s \in ServerRecords /\ SamePlace(s, server)
<1>1. server.recvLen \in 0..RespLen /\ RespLen \in Nat
  BY MessagesAssumption DEF ServerRecords
<1>2. server.recvLen + n \in 0..RespLen
  BY <1>1
<1>. QED  BY <1>2 DEF AnswerReceived, ServerRecords, ServerConnectionStates, SamePlace

--------------------------------------------------------------------------------

(* The answers of the proxy itself. *)
LEMMA ErrorMessageIsAnswer ==
  ASSUME NEW status \in ErrorStatuses
  PROVE  ErrorMessage(status) \in Answers
BY MessagesAssumption DEF ErrorMessage, Answers, ParseResults

LEMMA GatewayTimeoutIsAnswer == GatewayTimeout \in Answers
BY ErrorMessageIsAnswer DEF GatewayTimeout, ErrorStatuses

LEMMA RefusalIsAnswer ==
  ASSUME NEW request \in Requests, request.verdict \in DOMAIN ErrorStatusOf
  PROVE  ErrorMessage(ErrorStatusOf[request.verdict]) \in Answers
<1>1. request.verdict \in {"ERROR_400", "ERROR_405", "ERROR_501"}
  BY DEF ErrorStatusOf
<1>2. ErrorStatusOf[request.verdict] \in ErrorStatuses
  BY <1>1 DEF ErrorStatusOf, ErrorStatuses
<1>. QED  BY <1>2, ErrorMessageIsAnswer

LEMMA OriginAnswerIsAnswer ==
  ASSUME NEW response \in ResponseRecords,
         NEW request \in Requests \union {NoRequest}, NEW len \in 0..RespLen
  PROVE  OriginAnswer(response, request, len) \in Answers
BY DEF OriginAnswer, Answers, ResponseRecords

================================================================================
