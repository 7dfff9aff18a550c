----------------------------- MODULE DListLoops ------------------------------
(***************************************************************************)
(* The iteration macros of ats/utils/dlist.h over the lists of DList:      *)
(* list_for_each ("each"), list_for_each_prev ("prev") and                 *)
(* list_for_each_safe ("safe"); the two ..._entry macros walk like "each"  *)
(* and "safe" and only convert each pointer to its entry.  Between two     *)
(* steps of a loop runs its body, which may call anything as long as it    *)
(* leaves the list it walks alone; the body of a "safe" loop may also take *)
(* the current entry out.                                                  *)
(***************************************************************************)
EXTENDS DList

VARIABLE it   \* the loop that runs

Off == [kind |-> "off", head |-> NULL, pos |-> NULL, n |-> NULL, seen |-> <<>>, all |-> <<>>]

loopVars == <<vars, it>>

LoopInit == Init /\ it = Off

Running == it.kind # "off"

\* What a safe loop looks up before its body; nothing behind a null pointer.
Following(kind, p) == IF kind = "safe" /\ p # NULL THEN heap.next[p] ELSE NULL

\* seen and all record, for the properties, which entries the body has had
\* and which were there when the loop began, in the order of the loop.
Begin(kind, h) ==
  /\ ~Running /\ Usable(h)
  /\ LET first == IF kind = "prev" THEN heap.prev[h] ELSE heap.next[h] IN
       it' = [kind |-> kind, head |-> h, pos |-> first, seen |-> <<>>,
              n |-> Following(kind, first),
              all |-> IF kind = "prev" THEN Reverse(lists[h]) ELSE lists[h]]
  /\ UNCHANGED vars

\* Mutant: the safe loop looks for the next entry only after the body.
AdvanceLate(kind) ==
  IF kind = "prev" THEN heap.prev[it.pos] ELSE heap.next[it.pos]

\* Where a loop goes on after its body.
Advance(kind) ==
  IF kind = "safe" THEN it.n
  ELSE IF kind = "prev" THEN heap.prev[it.pos] ELSE heap.next[it.pos]

\* Mutant: the loop goes round without moving on.
VisitStays ==
  /\ Running /\ it.pos # it.head
  /\ it' = [it EXCEPT !.n = Following(it.kind, it.pos)]
  /\ UNCHANGED vars

Visit ==
  /\ Running /\ it.pos # it.head
  /\ LET to == Advance(it.kind) IN
       it' = [it EXCEPT !.pos = to, !.seen = Append(@, it.pos),
                        !.n = Following(it.kind, to)]
  /\ UNCHANGED vars

End ==
  /\ Running /\ it.pos = it.head
  /\ it' = Off
  /\ UNCHANGED vars

\* What the body of a running loop may do to the list it walks.
BodyKeeps ==
  \/ lists'[it.head] = lists[it.head] /\ it.head \notin stale'
  \/ it.kind = "safe" /\ lists'[it.head] = Without(lists[it.head], it.pos)

Call ==
  /\ Next
  /\ Running => it.pos # it.head /\ BodyKeeps
  /\ UNCHANGED it

Walk == Visit \/ End

LoopNext ==
  \/ \E kind \in {"each", "prev", "safe"}, h \in Heads : Begin(kind, h)
  \/ Walk
  \/ Call

\* A loop goes on after its body, which returns.
LoopSpec == LoopInit /\ [][LoopNext]_loopVars /\ WF_loopVars(Walk)

-----------------------------------------------------------------------------
(* Properties *)

\* A loop never follows a null pointer, gives its body the entries of the list
\* one by one in their order, and has given it all of them when it ends: for
\* list_for_each_safe also if the body removes, frees or moves away the
\* current entry.
LoopsVisitAll ==
  Running =>
    /\ it.pos # NULL
    /\ IsPrefix(it.seen, it.all)
    /\ it.pos = it.head => it.seen = it.all

\* Every loop ends.
LoopsEnd == Running ~> ~Running
=============================================================================
