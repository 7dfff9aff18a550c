-------------------------------- MODULE DList --------------------------------
(***************************************************************************)
(* The intrusive doubly linked list of ats/utils/dlist.h.                  *)
(*                                                                         *)
(* A list is a ring of list_head structures: a head, which is no entry,    *)
(* and the structures embedded in the entries.  The header checks nothing: *)
(* which calls are legal is up to the caller.  This module has the         *)
(* pointers (heap), what the callers believe to have put where (lists and  *)
(* stale), and one action per function, for any sequence of legal calls.   *)
(* AtsRegistry, whose lists are two of these, uses list_add_tail (Append)  *)
(* and list_del (RemoveAt).                                                *)
(***************************************************************************)
EXTENDS Naturals, Sequences, SequencesExt

CONSTANTS
  Heads,  \* list heads
  Nodes,  \* the list_head structures inside the entries
  NULL    \* the null pointer

Ptr == Heads \cup Nodes

ASSUME PointerAssumption == Heads \cap Nodes = {} /\ NULL \notin Ptr

VARIABLES
  heap,   \* the two fields of every structure: heap.next[p] and heap.prev[p]
  lists,  \* lists[h] is the sequence of entries the callers have put in h
  stale   \* heads emptied by list_splice, which leaves their pointers behind

vars == <<heap, lists, stale>>

-----------------------------------------------------------------------------
(* The functions on pointers *)

\* INIT_LIST_HEAD
Initialised(hp, p) == [next |-> [hp.next EXCEPT ![p] = p], prev |-> [hp.prev EXCEPT ![p] = p]]

\* Mutant: the way back to the new entry is not set.
AddedBetweenOneWay(hp, x, p, n) ==
  [next |-> [hp.next EXCEPT ![x] = n, ![p] = x], prev |-> [hp.prev EXCEPT ![x] = p]]

\* __list_add
AddedBetween(hp, x, p, n) ==
  [next |-> [hp.next EXCEPT ![x] = n, ![p] = x],
   prev |-> [hp.prev EXCEPT ![n] = x, ![x] = p]]

\* __list_del
Bridged(hp, p, n) == [next |-> [hp.next EXCEPT ![p] = n], prev |-> [hp.prev EXCEPT ![n] = p]]

\* The first half of list_del, list_del_init, list_move and list_move_tail.
Unlinked(hp, x) == Bridged(hp, hp.prev[x], hp.next[x])

\* list_add and list_add_tail
AddedFirst(hp, x, h) == AddedBetween(hp, x, h, hp.next[h])
AddedLast(hp, x, h) == AddedBetween(hp, x, hp.prev[h], h)

Cleared(hp, x) ==
  [next |-> [hp.next EXCEPT ![x] = NULL], prev |-> [hp.prev EXCEPT ![x] = NULL]]

ListEmpty(hp, h) == hp.next[h] = h

\* __list_splice: the ring of l goes between h and its first entry.
Spliced(hp, l, h) ==
  LET first == hp.next[l]
      last == hp.prev[l]
      at == hp.next[h]
  IN  [next |-> [hp.next EXCEPT ![h] = first, ![last] = at],
       prev |-> [hp.prev EXCEPT ![first] = h, ![at] = last]]

-----------------------------------------------------------------------------
(* What the callers know, from the lists ls *)

In(ls, h, x) == \E i \in DOMAIN ls[h] : ls[h][i] = x

Loose(ls, x) == \A h \in Heads : ~In(ls, h, x)

\* The sequence s without the entry x.
Without(s, x) ==
  IF \E i \in DOMAIN s : s[i] = x
  THEN RemoveAt(s, CHOOSE i \in DOMAIN s : s[i] = x)
  ELSE s

TakenOut(ls, x) == [h \in Heads |-> Without(ls[h], x)]

Usable(h) == h \in Heads \ stale

-----------------------------------------------------------------------------
\* The heads are defined with LIST_HEAD, the entries come from calloc.
Init ==
  /\ heap = [next |-> [p \in Ptr |-> IF p \in Heads THEN p ELSE NULL],
             prev |-> [p \in Ptr |-> IF p \in Heads THEN p ELSE NULL]]
  /\ lists = [h \in Heads |-> <<>>]
  /\ stale = {}

\* Only where nothing is lost: an empty head, a head that was emptied, an
\* entry of no list.
InitListHead(p) ==
  /\ IF p \in Heads THEN lists[p] = <<>> ELSE Loose(lists, p)
  /\ heap' = Initialised(heap, p)
  /\ stale' = stale \ {p}
  /\ UNCHANGED lists

ListAdd(x, h) ==
  /\ Loose(lists, x) /\ Usable(h)
  /\ heap' = AddedFirst(heap, x, h)
  /\ lists' = [lists EXCEPT ![h] = <<x>> \o @]
  /\ UNCHANGED stale

ListAddTail(x, h) ==
  /\ Loose(lists, x) /\ Usable(h)
  /\ heap' = AddedLast(heap, x, h)
  /\ lists' = [lists EXCEPT ![h] = Append(@, x)]
  /\ UNCHANGED stale

\* An entry may be deleted and moved when it is in a list, or alone in a ring
\* of its own as list_del_init leaves it.
Deletable(x) == ~Loose(lists, x) \/ heap.next[x] = x

ListDel(x) ==
  /\ Deletable(x)
  /\ heap' = Cleared(Unlinked(heap, x), x)
  /\ lists' = TakenOut(lists, x)
  /\ UNCHANGED stale

ListDelInit(x) ==
  /\ Deletable(x)
  /\ heap' = Initialised(Unlinked(heap, x), x)
  /\ lists' = TakenOut(lists, x)
  /\ UNCHANGED stale

ListMove(x, h) ==
  /\ Deletable(x) /\ Usable(h)
  /\ heap' = AddedFirst(Unlinked(heap, x), x, h)
  /\ lists' = [TakenOut(lists, x) EXCEPT ![h] = <<x>> \o @]
  /\ UNCHANGED stale

ListMoveTail(x, h) ==
  /\ Deletable(x) /\ Usable(h)
  /\ heap' = AddedLast(Unlinked(heap, x), x, h)
  /\ lists' = [TakenOut(lists, x) EXCEPT ![h] = Append(@, x)]
  /\ UNCHANGED stale

Joined(ls, l, h) == [ls EXCEPT ![l] = <<>>, ![h] = ls[l] \o @]

ListSplice(l, h) ==
  /\ Usable(l) /\ Usable(h) /\ l # h
  /\ \/ ~ListEmpty(heap, l) /\ heap' = Spliced(heap, l, h) /\ stale' = stale \cup {l}
     \/ ListEmpty(heap, l) /\ UNCHANGED <<heap, stale>>
  /\ lists' = Joined(lists, l, h)

\* Mutant: the emptied head is cleared as a deleted entry is.
ListSpliceInitClears(l, h) ==
  /\ Usable(l) /\ Usable(h) /\ l # h
  /\ \/ ~ListEmpty(heap, l) /\ heap' = Cleared(Spliced(heap, l, h), l)
     \/ ListEmpty(heap, l) /\ UNCHANGED heap
  /\ lists' = Joined(lists, l, h)
  /\ UNCHANGED stale

ListSpliceInit(l, h) ==
  /\ Usable(l) /\ Usable(h) /\ l # h
  /\ \/ ~ListEmpty(heap, l) /\ heap' = Initialised(Spliced(heap, l, h), l)
     \/ ListEmpty(heap, l) /\ UNCHANGED heap
  /\ lists' = Joined(lists, l, h)
  /\ UNCHANGED stale

Next ==
  \/ \E p \in Ptr : InitListHead(p)
  \/ \E x \in Nodes : ListDel(x) \/ ListDelInit(x)
  \/ \E x \in Nodes, h \in Heads :
       ListAdd(x, h) \/ ListAddTail(x, h) \/ ListMove(x, h) \/ ListMoveTail(x, h)
  \/ \E l, h \in Heads : ListSplice(l, h) \/ ListSpliceInit(l, h)

Spec == Init /\ [][Next]_vars

-----------------------------------------------------------------------------
(* Properties *)

Heap == [next: [Ptr -> Ptr \cup {NULL}], prev: [Ptr -> Ptr \cup {NULL}]]

Typed(hp, ls, st) ==
  /\ hp \in Heap
  /\ \A h \in Heads : hp.next[h] # NULL /\ hp.prev[h] # NULL
  /\ ls \in [Heads -> Seq(Nodes)]
  /\ st \subseteq Heads

\* The variables keep their types; the fields of a head are never null.
TypeOK == Typed(heap, lists, stale)

\* The ring of a list: the head at 0, its entries, and the head again.
Ring(h, s, i) == IF i \in 1 .. Len(s) THEN s[i] ELSE h

Rings(hp, h, s) ==
  \A i \in 0 .. Len(s) :
    /\ hp.next[Ring(h, s, i)] = Ring(h, s, i + 1)
    /\ hp.prev[Ring(h, s, i + 1)] = Ring(h, s, i)

\* After any sequence of legal calls, next walks each list from its head
\* through the entries its callers have put there, in their order, back to the
\* head, and prev walks the same way back: no call loses an entry, mixes two
\* lists, or leaves one direction behind the other.
Linked == \A h \in Heads \ stale : Rings(heap, h, lists[h])
=============================================================================
