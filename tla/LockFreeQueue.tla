--------------------------- MODULE LockFreeQueue ----------------------------
(***************************************************************************)
(* Lockfree::Queue (lib/libexo/exo/lockfree_queue.h): the linked queue of  *)
(* Michael and Scott, whose pop deletes the node it has unlinked.  Nodes   *)
(* come from the heap, which may hand out a deleted node again.  Every     *)
(* step is one access to shared memory.                                    *)
(***************************************************************************)
EXTENDS Integers, Sequences, FiniteSets

CONSTANTS
    Node,       \* the heap's nodes
    Null,
    Pusher, Popper,
    MaxItems    \* bound: calls of push; item n is that of the n-th call

VARIABLES
    Q_Head, Q_Tail,
    next, data,             \* fields of the nodes
    heap,                   \* nodes not allocated
    pushed,                 \* calls of push so far
    ppc, node, ptail, pnext,    \* push: position and locals
    cpc, head, tail, cnext, res \* pop: position and locals

queueVars == <<Q_Head, Q_Tail, next, data, heap, pushed>>
pushVars == <<ppc, node, ptail, pnext>>
popVars == <<cpc, head, tail, cnext, res>>
vars == <<queueVars, pushVars, popVars>>

NoItem == 0
Item == 1 .. MaxItems

Init ==
    \E dummy \in Node :
        /\ Q_Head = dummy /\ Q_Tail = dummy
        /\ next = [n \in Node |-> Null] /\ data = [n \in Node |-> NoItem]
        /\ heap = Node \ {dummy}
        /\ pushed = 0
        /\ ppc = [p \in Pusher |-> "idle"]
        /\ node = [p \in Pusher |-> Null]
        /\ ptail = [p \in Pusher |-> Null] /\ pnext = [p \in Pusher |-> Null]
        /\ cpc = [c \in Popper |-> "idle"]
        /\ head = [c \in Popper |-> Null] /\ tail = [c \in Popper |-> Null]
        /\ cnext = [c \in Popper |-> Null]
        /\ res = [c \in Popper |-> NoItem]

-----------------------------------------------------------------------------
(* push *)

PushAlloc(p) ==
    /\ ppc[p] = "idle" /\ pushed < MaxItems
    /\ \E n \in heap :
          /\ heap' = heap \ {n}
          /\ node' = [node EXCEPT ![p] = n]
          /\ next' = [next EXCEPT ![n] = Null]
          /\ data' = [data EXCEPT ![n] = pushed + 1]
    /\ pushed' = pushed + 1
    /\ ppc' = [ppc EXCEPT ![p] = "tail"]
    /\ UNCHANGED <<Q_Head, Q_Tail, ptail, pnext, popVars>>

(* assert(0) when the heap is empty: the process ends *)
PushNoMemory(p) ==
    /\ ppc[p] = "idle" /\ pushed < MaxItems /\ heap = {}
    /\ ppc' = [ppc EXCEPT ![p] = "abort"]
    /\ UNCHANGED <<queueVars, node, ptail, pnext, popVars>>

PushReadTail(p) ==
    /\ ppc[p] = "tail"
    /\ ptail' = [ptail EXCEPT ![p] = Q_Tail]
    /\ ppc' = [ppc EXCEPT ![p] = "next"]
    /\ UNCHANGED <<queueVars, node, pnext, popVars>>

PushReadNext(p) ==
    /\ ppc[p] = "next"
    /\ pnext' = [pnext EXCEPT ![p] = next[ptail[p]]]
    /\ ppc' = [ppc EXCEPT ![p] = "check"]
    /\ UNCHANGED <<queueVars, node, ptail, popVars>>

PushCheck(p) ==
    /\ ppc[p] = "check"
    /\ ppc' = [ppc EXCEPT ![p] = IF ptail[p] # Q_Tail THEN "tail"
                                 ELSE IF pnext[p] = Null THEN "link"
                                 ELSE "help"]
    /\ UNCHANGED <<queueVars, node, ptail, pnext, popVars>>

PushLink(p) ==
    /\ ppc[p] = "link"
    /\ IF next[ptail[p]] = Null
       THEN /\ next' = [next EXCEPT ![ptail[p]] = node[p]]
            /\ ppc' = [ppc EXCEPT ![p] = "swing"]
       ELSE ppc' = [ppc EXCEPT ![p] = "tail"] /\ UNCHANGED next
    /\ UNCHANGED <<Q_Head, Q_Tail, data, heap, pushed, node, ptail, pnext,
                   popVars>>

PushHelp(p) ==
    /\ ppc[p] = "help"
    /\ Q_Tail' = IF Q_Tail = ptail[p] THEN pnext[p] ELSE Q_Tail
    /\ ppc' = [ppc EXCEPT ![p] = "tail"]
    /\ UNCHANGED <<Q_Head, next, data, heap, pushed, node, ptail, pnext,
                   popVars>>

PushSwing(p) ==
    /\ ppc[p] = "swing"
    /\ Q_Tail' = IF Q_Tail = ptail[p] THEN node[p] ELSE Q_Tail
    /\ ppc' = [ppc EXCEPT ![p] = "idle"]
    /\ node' = [node EXCEPT ![p] = Null]
    /\ ptail' = [ptail EXCEPT ![p] = Null]
    /\ pnext' = [pnext EXCEPT ![p] = Null]
    /\ UNCHANGED <<Q_Head, next, data, heap, pushed, popVars>>

-----------------------------------------------------------------------------
(* pop; an empty queue ends the call with T() *)

PopReadHead(c) ==
    /\ cpc[c] = "idle"
    /\ head' = [head EXCEPT ![c] = Q_Head]
    /\ cpc' = [cpc EXCEPT ![c] = "tail"]
    /\ UNCHANGED <<queueVars, pushVars, tail, cnext, res>>

PopReadTail(c) ==
    /\ cpc[c] = "tail"
    /\ tail' = [tail EXCEPT ![c] = Q_Tail]
    /\ cpc' = [cpc EXCEPT ![c] = "next"]
    /\ UNCHANGED <<queueVars, pushVars, head, cnext, res>>

PopReadNext(c) ==
    /\ cpc[c] = "next"
    /\ cnext' = [cnext EXCEPT ![c] = next[head[c]]]
    /\ cpc' = [cpc EXCEPT ![c] = "check"]
    /\ UNCHANGED <<queueVars, pushVars, head, tail, res>>

PopCheck(c) ==
    /\ cpc[c] = "check"
    /\ cpc' = [cpc EXCEPT ![c] =
                 IF head[c] # Q_Head THEN "idle"
                 ELSE IF head[c] # tail[c] THEN "peek"
                 ELSE IF cnext[c] = Null THEN "idle"
                 ELSE "help"]
    /\ UNCHANGED <<queueVars, pushVars, head, tail, cnext, res>>

PopHelp(c) ==
    /\ cpc[c] = "help"
    /\ Q_Tail' = IF Q_Tail = tail[c] THEN cnext[c] ELSE Q_Tail
    /\ cpc' = [cpc EXCEPT ![c] = "idle"]
    /\ UNCHANGED <<Q_Head, next, data, heap, pushed, pushVars, head, tail,
                   cnext, res>>

(* assert(next != NULL), then the element is read *)
PopPeek(c) ==
    /\ cpc[c] = "peek"
    /\ cnext[c] # Null
    /\ res' = [res EXCEPT ![c] = data[cnext[c]]]
    /\ cpc' = [cpc EXCEPT ![c] = "swap"]
    /\ UNCHANGED <<queueVars, pushVars, head, tail, cnext>>

PopSwap(c) ==
    /\ cpc[c] = "swap"
    /\ IF Q_Head = head[c]
       THEN /\ Q_Head' = cnext[c]
            /\ cpc' = [cpc EXCEPT ![c] = "delete"]
            /\ UNCHANGED res
       ELSE /\ cpc' = [cpc EXCEPT ![c] = "idle"]
            /\ res' = [res EXCEPT ![c] = NoItem]
            /\ UNCHANGED Q_Head
    /\ UNCHANGED <<Q_Tail, next, data, heap, pushed, pushVars, head, tail,
                   cnext>>

(* Mutant: deletes the node that holds the element *)
PopDelete_next(c) ==
    /\ cpc[c] = "delete"
    /\ heap' = heap \cup {cnext[c]}
    /\ cpc' = [cpc EXCEPT ![c] = "idle"]
    /\ res' = [res EXCEPT ![c] = NoItem]
    /\ UNCHANGED <<Q_Head, Q_Tail, next, data, pushed, pushVars, head, tail,
                   cnext>>

PopDelete(c) ==
    /\ cpc[c] = "delete"
    /\ heap' = heap \cup {head[c]}
    /\ cpc' = [cpc EXCEPT ![c] = "idle"]
    /\ res' = [res EXCEPT ![c] = NoItem]
    /\ UNCHANGED <<Q_Head, Q_Tail, next, data, pushed, pushVars, head, tail,
                   cnext>>

-----------------------------------------------------------------------------
Running == \A p \in Pusher : ppc[p] # "abort"

Push(p) ==
    /\ Running
    /\ \/ PushAlloc(p) \/ PushNoMemory(p) \/ PushReadTail(p) \/ PushReadNext(p)
       \/ PushCheck(p) \/ PushLink(p) \/ PushHelp(p) \/ PushSwing(p)

Pop(c) ==
    /\ Running
    /\ \/ PopReadHead(c) \/ PopReadTail(c) \/ PopReadNext(c) \/ PopCheck(c)
       \/ PopHelp(c) \/ PopPeek(c) \/ PopSwap(c) \/ PopDelete(c)

Next == (\E p \in Pusher : Push(p)) \/ (\E c \in Popper : Pop(c))

Spec == Init /\ [][Next]_vars

-----------------------------------------------------------------------------
TypeOK ==
    /\ {Q_Head, Q_Tail} \subseteq Node
    /\ next \in [Node -> Node \cup {Null}]
    /\ data \in [Node -> {NoItem} \cup Item]
    /\ heap \subseteq Node
    /\ pushed \in 0 .. MaxItems
    /\ \A f \in {node, ptail, pnext} : f \in [Pusher -> Node \cup {Null}]
    /\ \A f \in {head, tail, cnext} : f \in [Popper -> Node \cup {Null}]
    /\ res \in [Popper -> {NoItem} \cup Item]

(* The linked elements, from the one after the dummy node *)
Linked ==
    LET chain[k \in 0 .. Cardinality(Node)] ==
            IF k = 0 THEN Q_Head
            ELSE IF chain[k - 1] = Null THEN Null ELSE next[chain[k - 1]]
        length == Cardinality({k \in 1 .. Cardinality(Node) : chain[k] # Null})
    IN  [k \in 1 .. length |-> data[chain[k]]]

(* The queue is a FIFO: an element enters when its node is linked and      *)
(* leaves when the head moves to that node, though its node is deleted     *)
(* only with the next element.                                             *)
Abstract == INSTANCE Fifo WITH
    Consumer <- Popper, None <- NoItem, Capacity <- MaxItems,
    queue <- Linked,
    held <- [c \in Popper |-> IF cpc[c] = "delete" THEN res[c] ELSE NoItem]
FifoSpec == Abstract!Spec

(* No node is used after it has been deleted.                              *)
NoUseAfterDelete ==
    /\ {Q_Head, Q_Tail} \cap heap = {}
    /\ \A p \in Pusher : ppc[p] \in {"next", "link"} => ptail[p] \notin heap
    /\ \A c \in Popper : /\ cpc[c] = "next" => head[c] \notin heap
                         /\ cpc[c] = "peek" => cnext[c] \notin heap \cup {Null}

(* When pop's compare-and-swap of the head succeeds, the element it peeked *)
(* at is still the first of the queue.                                     *)
PeekStillValid == \A c \in Popper :
    cpc[c] = "swap" /\ Q_Head = head[c] =>
        /\ next[head[c]] = cnext[c] /\ cnext[c] \notin heap
        /\ data[cnext[c]] = res[c]

(* Elements are still to be pushed or popped, which must end, unless the   *)
(* heap runs out, although a pusher ignores that its own swing of the tail *)
(* failed.                                                                 *)
Unfinished == Running /\ ~(pushed = MaxItems /\ Linked = <<>>)
=============================================================================
