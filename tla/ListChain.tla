----------------------------- MODULE ListChain -----------------------------
(***************************************************************************)
(* The intrusive doubly-linked list of libcommon                           *)
(* (src/lib/libcommon/common/list.h), which the ext2 server and its block  *)
(* lists use, and the Stack over it: pointers in the elements, a head and  *)
(* a tail.  pop_front and remove leave some pointers of the element they   *)
(* take out, and the tail of a list they emptied, as they were.            *)
(***************************************************************************)
EXTENDS Sequences, SequencesExt

CONSTANTS Elements, NULL

VARIABLES head, tail,      \* _head, _tail
          next, prev,      \* _next and _prev of every element
          listed,          \* history: the elements of the list in order
          last             \* history: the element taken out last

listVars == <<head, tail, next, prev, listed, last>>

empty == head = NULL

ListInit ==
  /\ head = NULL /\ tail = NULL
  /\ next = [e \in Elements |-> NULL]
  /\ prev = [e \in Elements |-> NULL]
  /\ listed = <<>> /\ last = NULL

Fresh(e) == e \notin ToSet(listed)

insert(e) ==
  /\ Fresh(e)
  /\ tail' = e
  /\ \/ /\ empty
        /\ head' = e
        /\ next' = [next EXCEPT ![e] = NULL]
        /\ prev' = [prev EXCEPT ![e] = NULL]
     \/ /\ ~empty
        /\ next' = [next EXCEPT ![e] = NULL, ![tail] = e]
        /\ prev' = [prev EXCEPT ![e] = tail]
        /\ UNCHANGED head
  /\ listed' = Append(listed, e)
  /\ UNCHANGED last

insert_front(e) ==
  /\ Fresh(e)
  /\ head' = e
  /\ \/ /\ empty
        /\ tail' = e
        /\ next' = [next EXCEPT ![e] = NULL]
        /\ prev' = [prev EXCEPT ![e] = NULL]
     \/ /\ ~empty
        /\ next' = [next EXCEPT ![e] = head]
        /\ prev' = [prev EXCEPT ![e] = NULL, ![head] = e]
        /\ UNCHANGED tail
  /\ listed' = <<e>> \o listed
  /\ UNCHANGED last

Unlink(f, e, v) == IF e = NULL THEN f ELSE [f EXCEPT ![e] = v]

remove(e) ==
  /\ ~Fresh(e)
  /\ \/ /\ e = head
        /\ head' = next[head]
        /\ prev' = Unlink(prev, next[head], NULL)
        /\ next' = [next EXCEPT ![e] = NULL]
        /\ UNCHANGED tail
     \/ /\ e # head /\ e = tail
        /\ tail' = prev[tail]
        /\ next' = Unlink(next, prev[tail], NULL)
        /\ prev' = [prev EXCEPT ![e] = NULL]
        /\ UNCHANGED head
     \/ /\ e \notin {head, tail}
        /\ next' = [next EXCEPT ![prev[e]] = next[e], ![e] = NULL]
        /\ prev' = [prev EXCEPT ![next[e]] = prev[e], ![e] = NULL]
        /\ UNCHANGED <<head, tail>>
  /\ listed' = SelectSeq(listed, LAMBDA x : x # e)
  /\ last' = e

\* A slip in pop_front: the new head keeps pointing back at the element popped.
pop_front_back ==
  /\ ~empty
  /\ head' = next[head]
  /\ next' = [next EXCEPT ![head] = NULL]
  /\ listed' = Tail(listed) /\ last' = head
  /\ UNCHANGED <<tail, prev>>

pop_front ==
  /\ ~empty
  /\ head' = next[head]
  /\ prev' = Unlink(prev, next[head], NULL)
  /\ next' = [next EXCEPT ![head] = NULL]
  /\ listed' = Tail(listed) /\ last' = head
  /\ UNCHANGED tail

\* Stack::pop takes the tail out.  Of an emptied stack it returns the stale tail and changes
\* nothing; of one that was never used it is remove(NULL), which asserts.
pop ==
  /\ tail # NULL
  /\ \/ ~empty /\ remove(tail)
     \/ empty /\ UNCHANGED listVars

ListNext == pop_front \/ pop \/ \E e \in Elements : insert(e) \/ insert_front(e) \/ remove(e)

\* Walking the list from its head, or back from its tail, meets exactly the elements that were
\* put in and not taken out, in order: a pointer left over from an earlier membership is never
\* followed.  In a list that has been emptied head() is NULL, but tail() and Stack::pop return the
\* element taken out last, whichever of the calls took it.
ListReadsBothWays ==
  LET n == Len(listed)
      nth(i) == IF i \in 1..n THEN listed[i] ELSE NULL
  IN /\ head = nth(1)
     /\ tail = IF n > 0 THEN nth(n) ELSE last
     /\ \A i \in 1..n : next[listed[i]] = nth(i + 1) /\ prev[listed[i]] = nth(i - 1)
=============================================================================
