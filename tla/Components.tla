----------------------------- MODULE Components -----------------------------
(***************************************************************************)
(* libcomponent (component/base.h, component.cc) with the components that  *)
(* use it: reference counts, loading, unloading and pairwise binding.      *)
(* Components are those of the x540 driver ("nic", "mem"), whose           *)
(* query_interface takes no reference, and block devices ("dummy",         *)
(* "nvme"), whose query_interface takes one.                               *)
(***************************************************************************)
EXTENDS Integers, Sequences, FiniteSets

CONSTANTS
    Comp,       \* components, a subset of {"nic", "mem", "dummy", "nvme"}
    Client,     \* threads of the program
    MaxRefs     \* bound: references on a component

ASSUME CompAssumption ==
    Comp \subseteq {"nic", "mem", "dummy", "nvme"} /\ MaxRefs \in Nat

VARIABLES
    ref_count,  \* _ref_count of each instance
    life,       \* "none", "loaded" or "unloaded" (deleted by unload)
    unloads,    \* calls of unload() on each
    refs,       \* references each client has on each component
    releasing,  \* the release_ref a client is in
    bound       \* result of the program's bind call, and the interfaces set

compVars == <<ref_count, life, unloads, refs, releasing, bound>>

Implicit == {"dummy", "nvme"}
Offers(x) == IF x \in Implicit THEN "IBlockDevice" ELSE IF x = "nic" THEN "INic" ELSE "IMem"
NotReleasing == [comp |-> "none", val |-> 0]

CompInit ==
    /\ ref_count = [x \in Comp |-> 0]
    /\ life = [x \in Comp |-> "none"]
    /\ unloads = [x \in Comp |-> 0]
    /\ refs = [u \in Client |-> [x \in Comp |-> 0]]
    /\ releasing = [u \in Client |-> NotReleasing]
    /\ bound = [result |-> "none", itf |-> [x \in Comp |-> "none"]]

Free(u) == releasing[u] = NotReleasing
Holds(u, x) == refs[u][x] > 0

(* load_component returns NULL without a trace, or an instance with one reference *)
load_component(u, x) ==
    /\ Free(u) /\ life[x] = "none"
    /\ life' = [life EXCEPT ![x] = "loaded"]
    /\ ref_count' = [ref_count EXCEPT ![x] = @ + 1]
    /\ refs' = [refs EXCEPT ![u][x] = @ + 1]
    /\ UNCHANGED <<unloads, releasing, bound>>

(* add_ref for another client, by one that has a reference *)
add_ref(u, v, x) ==
    /\ Free(u) /\ Holds(u, x) /\ ref_count[x] < MaxRefs
    /\ ref_count' = [ref_count EXCEPT ![x] = @ + 1]
    /\ refs' = [refs EXCEPT ![v][x] = @ + 1]
    /\ UNCHANGED <<life, unloads, releasing, bound>>

(* query_interface of the interface the component has *)
query_interface(u, x) == x \in Implicit /\ add_ref(u, u, x)

\* A slip in release_ref: the decrement is a read and a write of its own
release_ref_load(u, x) ==
    /\ Free(u) /\ Holds(u, x)
    /\ releasing' = [releasing EXCEPT ![u] = [comp |-> x, val |-> ref_count[x] - 1]]
    /\ refs' = [refs EXCEPT ![u][x] = @ - 1]
    /\ UNCHANGED <<ref_count, life, unloads, bound>>

(***************************************************************************)
(* release_ref: an atomic decrement, and then unload if it gave zero.      *)
(* Components that were bound are kept: the program never releases them.   *)
(***************************************************************************)
release_ref(u, x) ==
    /\ Free(u) /\ Holds(u, x)
    /\ bound.itf[x] = "none"
    /\ ref_count' = [ref_count EXCEPT ![x] = @ - 1]
    /\ releasing' = [releasing EXCEPT ![u] = [comp |-> x, val |-> ref_count[x] - 1]]
    /\ refs' = [refs EXCEPT ![u][x] = @ - 1]
    /\ UNCHANGED <<life, unloads, bound>>

unload(u) ==
    LET x == releasing[u].comp IN
    /\ ~Free(u)
    /\ releasing' = [releasing EXCEPT ![u] = NotReleasing]
    /\ IF releasing[u].val = 0
       THEN life' = [life EXCEPT ![x] = "unloaded"] /\ unloads' = [unloads EXCEPT ![x] = @ + 1]
       ELSE UNCHANGED <<life, unloads>>
    /\ UNCHANGED <<ref_count, refs, bound>>

-----------------------------------------------------------------------------
(* bind of one component: the x540 components want each other's interface *)
Wants(x) == IF x = "nic" THEN "IMem" ELSE IF x = "mem" THEN "INic" ELSE "nothing"
bind_one(x, y) == IF Wants(x) = "nothing" THEN 0 ELSE IF Wants(x) = Offers(y) THEN 0 ELSE -1

(* The ordered pairs in the order of the two loops *)
Pairs(list) ==
    LET n == Len(list)
        At(k) == <<list[((k - 1) \div n) + 1], list[((k - 1) % n) + 1]>>
    IN  SelectSeq([k \in 1 .. n * n |-> At(k)], LAMBDA p : p[1] # p[2])

(* The loops stop at the first failure; what they bound before stays *)
Done(pairs) ==
    LET bad == {k \in 1 .. Len(pairs) : bind_one(pairs[k][1], pairs[k][2]) = -1}
        first == CHOOSE k \in bad : \A j \in bad : k <= j
    IN  [ok |-> bad = {}, n |-> IF bad = {} THEN Len(pairs) ELSE first - 1]

bind(u, list) ==
    /\ Free(u) /\ bound.result = "none"
    /\ \A k \in 1 .. Len(list) : life[list[k]] = "loaded" /\ Holds(u, list[k])
    /\ LET pairs == Pairs(list)
           done == Done(pairs)
           Itf(x) == {Offers(pairs[k][2]) : k \in {j \in 1 .. done.n :
                          pairs[j][1] = x /\ Wants(x) = Offers(pairs[j][2])}}
       IN  bound' = [result |-> IF done.ok THEN "S_OK" ELSE "E_FAIL",
                     itf |-> [x \in Comp |-> IF Itf(x) = {} THEN "none"
                                             ELSE CHOOSE i \in Itf(x) : TRUE]]
    /\ UNCHANGED <<ref_count, life, unloads, refs, releasing>>

Lists == {s \in UNION {[1 .. n -> Comp] : n \in 2 .. 3} :
             \A j, k \in DOMAIN s : s[j] = s[k] => j = k}

CompNext ==
    \E u \in Client :
        \/ unload(u)
        \/ \E x \in Comp : load_component(u, x) \/ query_interface(u, x) \/ release_ref(u, x)
        \/ \E x \in Comp, v \in Client : add_ref(u, v, x)
        \/ \E list \in Lists : bind(u, list)

CompSpec == CompInit /\ [][CompNext]_compVars

-----------------------------------------------------------------------------
(***************************************************************************)
(* A component is unloaded once, never while a client has a reference, and *)
(* always when the last reference is gone and its release has returned;    *)
(* the assertion in release_ref holds.  Clients release in any order.      *)
(***************************************************************************)
UnloadedWithLastReference ==
    \A x \in Comp :
        LET busy == \E u \in Client : releasing[u].comp = x IN
        /\ unloads[x] <= 1
        /\ \A u \in Client : releasing[u].val >= 0 /\ (life[x] = "unloaded" => ~Holds(u, x))
        /\ life[x] = "loaded" /\ ~busy => \E u \in Client : Holds(u, x)

(***************************************************************************)
(* The inductive invariant (proved in LibexoProofs): _ref_count counts the *)
(* references the clients have, and a component without any is not yet     *)
(* loaded, is unloaded, or is about to be unloaded by the one client whose *)
(* release_ref has taken the count to zero.                                *)
(***************************************************************************)
Refs(x) == UNION {{u} \X (1 .. refs[u][x]) : u \in Client}
Last(u, x) == releasing[u].comp = x /\ releasing[u].val = 0

CompTypeOK ==
    /\ ref_count \in [Comp -> Nat] /\ refs \in [Client -> [Comp -> Nat]]
    /\ life \in [Comp -> {"none", "loaded", "unloaded"}] /\ unloads \in [Comp -> Nat]
    /\ releasing \in [Client -> [comp : Comp \cup {"none"}, val : Nat]]

CountInv == \A x \in Comp :
    IsFiniteSet(Refs(x)) /\ Cardinality(Refs(x)) = ref_count[x]

LifeInv == \A x \in Comp :
    /\ life[x] # "loaded" => ref_count[x] = 0 /\ \A u \in Client : ~Last(u, x)
    /\ life[x] = "loaded" /\ ref_count[x] = 0 => \E u \in Client : Last(u, x)
    /\ \A u, v \in Client : Last(u, x) => ref_count[x] = 0 /\ (Last(v, x) => u = v)
    /\ unloads[x] = IF life[x] = "unloaded" THEN 1 ELSE 0

CompInv == CompTypeOK /\ CountInv /\ LifeInv
=============================================================================
