------------------------------- MODULE PollTable -------------------------------
(***************************************************************************)
(* The table of descriptors that Proxy hands to poll(): pollList,          *)
(* pollListSize and the heap of free indexes (Proxy.h:73-77), as one       *)
(* record, and the operations Proxy.cpp makes on it.                       *)
(*                                                                         *)
(* A descriptor is identified by the connection that owns it; the heap,    *)
(* of which only the smallest element is ever taken, is the set of the     *)
(* indexes it holds.                                                       *)
(***************************************************************************)
EXTENDS Integers, FiniteSets, FiniteSetsExt

CONSTANTS
  MaxConnectionNum,  (* MAX_CONNECTION_NUM: the number of slots              *)
  IgnoredSocketFd    (* IGNORED_SOCKET_FD_VAL: the descriptor of a free slot *)

ASSUME MaxConnectionNumAssumption == MaxConnectionNum \in Nat \ {0}

Slots == 0..(MaxConnectionNum - 1)

(* POLLERR stands for each of POLLHUP, POLLERR and POLLNVAL: the code tells *)
(* none of the three from another.                                          *)
Events  == {"POLLIN", "POLLOUT"}
Revents == Events \union {"POLLERR"}

(* What a table of the descriptors in Fds looks like. *)
PollTables(Fds) ==
  [pollList : [Slots -> [fd      : Fds \union {IgnoredSocketFd},
                         events  : SUBSET Events,
                         revents : SUBSET Revents]],
   size     : Int,
   free     : SUBSET Slots]

IgnoredSlot == [fd |-> IgnoredSocketFd, events |-> {}, revents |-> {}]

(* The table the constructor starts from: every slot ignored, every index free. *)
EmptyPollTable ==
  [pollList |-> [i \in Slots |-> IgnoredSlot], size |-> 0, free |-> Slots]

--------------------------------------------------------------------------------

(* freeIndexesInPollList.top() *)
TopFreeIndex(table) == Min(table.free)

AddConnectionFd(table, fd, events) ==
  LET idx == TopFreeIndex(table)
  IN  [pollList |-> [table.pollList EXCEPT
                       ![idx] = [fd |-> fd, events |-> events, revents |-> {}]],
       size     |-> table.size + 1,
       free     |-> table.free \ {idx}]

(* Mutant: the descriptor stays in its slot. *)
RemoveWithoutIgnoring(table, idx) ==
  [table EXCEPT !.size = @ - 1, !.free = @ \union {idx}]

(* Mutant: the index is not given back to the heap. *)
RemoveWithoutPush(table, idx) ==
  [table EXCEPT !.pollList[idx] = IgnoredSlot, !.size = @ - 1]

RemoveConnectionFd(table, idx) ==
  [pollList |-> [table.pollList EXCEPT ![idx] = IgnoredSlot],
   size     |-> table.size - 1,
   free     |-> table.free \union {idx}]

(* Mutant: |= instead of =. *)
AddEvents(table, idxs, events) ==
  [table EXCEPT !.pollList =
     [i \in Slots |-> IF i \in idxs THEN [@[i] EXCEPT !.events = @ \union events] ELSE @[i]]]

(* pollList[i].events = events, for every index i of idxs *)
SetEvents(table, idxs, events) ==
  [table EXCEPT !.pollList =
     [i \in Slots |-> IF i \in idxs THEN [@[i] EXCEPT !.events = events] ELSE @[i]]]

(* Mutant: the reset is forgotten. *)
KeepRevents(table, idx) == table

(* pollList[idx].revents = 0 *)
ClearRevents(table, idx) ==
  [table EXCEPT !.pollList[idx].revents = {}]

(* What poll() writes: the revents of every slot, and nothing else. *)
WithRevents(table, revents) ==
  [table EXCEPT !.pollList = [i \in Slots |-> [@[i] EXCEPT !.revents = revents[i]]]]

IsReadyForWrite(table, idx) == "POLLOUT" \in table.pollList[idx].revents

IsReadyForRead(table, idx) == "POLLIN" \in table.pollList[idx].revents

CheckConnectionSocketForErrors(table, idx) == "POLLERR" \in table.pollList[idx].revents

================================================================================
