---------------------------- MODULE LibexoProofs ----------------------------
(***************************************************************************)
(* The parts of Libexo, for every number of threads, consumers, waiters,   *)
(* clients and slots: Ticket_lock excludes and is fair for every set of    *)
(* threads smaller than the range of its 16-bit numbers, the circular      *)
(* buffer is a FIFO for as many items as its counters can hold, threads    *)
(* and waiters use what is there, and components go with their last        *)
(* reference.                                                              *)
(***************************************************************************)
EXTENDS Libexo, SyncProofs, FiniteSetTheorems

-----------------------------------------------------------------------------
(* The ticket lock.                                                        *)

(* Differences and successors of wrapping numbers.                         *)
LEMMA GapArith ==
    ASSUME NEW a \in Numbers, NEW b \in Numbers
    PROVE  /\ Gap(a, b) \in Numbers
           /\ Gap(a, b) = IF a >= b THEN a - b ELSE a - b + UShort
  BY TicketAssumption DEF Numbers, Gap

LEMMA GapSame == ASSUME NEW a \in Numbers PROVE Gap(a, a) = 0
  BY TicketAssumption DEF Numbers, Gap

LEMMA SuccArith ==
    ASSUME NEW a \in Numbers
    PROVE  /\ (a + 1) % UShort \in Numbers
           /\ (a + 1) % UShort = IF a = UShort - 1 THEN 0 ELSE a + 1
  BY TicketAssumption DEF Numbers

(* Threads that hold a number are finitely many, and fewer than UShort.      *)
LEMMA QueuedFinite ==
    /\ IsFiniteSet(Queued) /\ Cardinality(Queued) \in Nat
    /\ \A t \in Thread \ Queued : Cardinality(Queued) < UShort - 1
<1>1. Queued \in SUBSET Thread
  BY Zenon DEF Queued
<1>2. IsFiniteSet(Queued) /\ Cardinality(Queued) \in Nat
  BY <1>1, TicketAssumption, FS_Subset, FS_CardinalityType
<1>3. ASSUME NEW t \in Thread \ Queued PROVE Cardinality(Queued) < UShort - 1
  <2>1. Cardinality(Thread) \in Nat
    BY TicketAssumption, FS_CardinalityType
  <2>2. /\ IsFiniteSet(Thread \ {t})
        /\ Cardinality(Thread \ {t}) = Cardinality(Thread) - 1
    BY TicketAssumption, FS_RemoveElement
  <2>3. Queued \in SUBSET (Thread \ {t})
    BY <1>1, Zenon
  <2>4. Cardinality(Queued) <= Cardinality(Thread \ {t})
    BY <2>2, <2>3, FS_Subset
  <2> QED
    BY <1>2, <2>1, <2>2, <2>4, TicketAssumption
<1> QED
  BY <1>2, <1>3

(* Nobody holds a number of a new lock.                                    *)
LEMMA LockStarts == LockInit => LockInv
<1> SUFFICES ASSUME LockInit PROVE LockInv
  BY Zenon
<1>1. Queued = {}
  BY Zenon DEF LockInit, Queued
<1>2. LockTypeOK
  BY TicketAssumption DEF LockInit, LockTypeOK, Numbers
<1>3. Gap(users, ticket) = 0
  BY <1>2, GapArith DEF LockInit, LockTypeOK
<1> QED
  BY <1>1, <1>2, <1>3, FS_EmptySet DEF LockInv, LockInit

(* lock draws the number after the last one drawn.                         *)
LEMMA TakeTicketKeeps ==
    ASSUME NEW t \in Thread, LockInv, TakeTicket(t) PROVE LockInv'
<1>1. /\ users \in Numbers /\ ticket \in Numbers
      /\ lpc \in [Thread -> {"out", "wait", "in", "try"}]
      /\ me \in [Thread -> Numbers]
  BY Zenon DEF LockInv, LockTypeOK
<1>2. LockTypeOK'
  BY <1>1, SuccArith, Zenon DEF LockTypeOK, TakeTicket
<1>3. Queued' = Queued \cup {t} /\ t \in Thread \ Queued
  BY <1>1, Zenon DEF Queued, TakeTicket
<1>4. Cardinality(Queued') = Cardinality(Queued) + 1
  BY <1>3, QueuedFinite, FS_AddElement, Zenon
<1>5. Gap(users, ticket) < UShort - 1
  BY <1>3, QueuedFinite, Zenon DEF LockInv
<1>6. Gap(users', ticket') = Gap(users, ticket) + 1
  <2>1. users' \in Numbers /\ users' = IF users = UShort - 1 THEN 0 ELSE users + 1
    BY <1>1, SuccArith, Zenon DEF TakeTicket
  <2>2. ticket' = ticket
    BY Zenon DEF TakeTicket
  <2>3. /\ Gap(users', ticket) =
             IF users' >= ticket THEN users' - ticket ELSE users' - ticket + UShort
        /\ Gap(users, ticket) =
             IF users >= ticket THEN users - ticket ELSE users - ticket + UShort
    BY <1>1, <2>1, GapArith
  <2> QED
    BY <1>1, <1>5, <2>1, <2>2, <2>3, TicketAssumption DEF Numbers
<1>7. \A u \in Queued : me[u] # users
  <2> SUFFICES ASSUME NEW u \in Queued, me[u] = users PROVE FALSE
    BY Zenon
  <2>1. Gap(users, ticket) < Gap(users, ticket)
    BY Zenon DEF LockInv, Ahead
  <2>2. Gap(users, ticket) \in Numbers
    BY <1>1, GapArith
  <2> QED
    BY <2>1, <2>2 DEF Numbers
<1>8. me'[t] = users /\ \A u \in Queued : me'[u] = me[u]
  BY <1>1, <1>3 DEF TakeTicket, Queued
<1>9. \A u \in Queued' : Ahead(u)' < Gap(users', ticket')
  <2> SUFFICES ASSUME NEW u \in Queued' PROVE Gap(me'[u], ticket) < Gap(users, ticket) + 1
    BY <1>6 DEF Ahead, TakeTicket
  <2>1. Gap(users, ticket) \in Int
    BY <1>1, GapArith DEF Numbers
  <2>2. CASE u = t
    BY <1>8, <2>1, <2>2
  <2>3. CASE u \in Queued
    <3>1. Gap(me[u], ticket) < Gap(users, ticket)
      BY <2>3, Zenon DEF LockInv, Ahead
    <3>2. Gap(me[u], ticket) \in Int
      BY <1>1, <2>3, GapArith DEF Numbers, Queued
    <3> QED
      BY <1>8, <2>1, <2>3, <3>1, <3>2
  <2> QED
    BY <1>3, <2>2, <2>3
<1>10. \A u, v \in Queued' : me'[u] = me'[v] => u = v
  BY <1>3, <1>7, <1>8 DEF LockInv
<1>11. \A u \in Thread : lpc'[u] = "in" => me'[u] = ticket'
  BY <1>1, Zenon DEF LockInv, TakeTicket
<1> QED
  BY <1>2, <1>4, <1>6, <1>9, <1>10, <1>11, Zenon DEF LockInv

(* The thread whose number is shown enters.                                *)
LEMMA EnterKeeps == ASSUME NEW t \in Thread, LockInv, Enter(t) PROVE LockInv'
<1>1. LockTypeOK' /\ Queued' = Queued
  BY Zenon DEF LockInv, LockTypeOK, Queued, Enter
<1>2. \A u \in Thread : lpc'[u] = "in" => me'[u] = ticket'
  BY Zenon DEF LockInv, LockTypeOK, Enter
<1> QED
  BY <1>1, <1>2, Zenon DEF LockInv, Enter, Ahead, Gap

(* unlock takes the first number away.                                     *)
LEMMA UnlockKeeps == ASSUME NEW t \in Thread, LockInv, Unlock(t) PROVE LockInv'
<1>1. /\ users \in Numbers /\ ticket \in Numbers
      /\ lpc \in [Thread -> {"out", "wait", "in", "try"}]
      /\ me \in [Thread -> Numbers]
  BY Zenon DEF LockInv, LockTypeOK
<1>2. /\ ticket' \in Numbers
      /\ ticket' = IF ticket = UShort - 1 THEN 0 ELSE ticket + 1
  BY <1>1, SuccArith DEF Unlock
<1>3. LockTypeOK'
  BY <1>1, <1>2 DEF LockTypeOK, Unlock
<1>4. Queued' = Queued \ {t} /\ t \in Queued
  BY <1>1 DEF Queued, Unlock
<1>5. Cardinality(Queued') = Cardinality(Queued) - 1
  <2>1. IsFiniteSet(Queued)
    BY QueuedFinite
  <2> QED
    BY <1>4, <2>1, FS_RemoveElement, Zenon
<1>6. ASSUME NEW a \in Numbers, a # ticket
      PROVE  Gap(a, ticket') = Gap(a, ticket) - 1
  <2>1. /\ Gap(a, ticket') =
             IF a >= ticket' THEN a - ticket' ELSE a - ticket' + UShort
        /\ Gap(a, ticket) =
             IF a >= ticket THEN a - ticket ELSE a - ticket + UShort
    BY <1>1, <1>2, <1>6, GapArith, Zenon
  <2> QED
    BY <1>1, <1>2, <1>6, <2>1, TicketAssumption DEF Numbers
<1>7. me[t] = ticket
  BY Zenon DEF LockInv, Unlock
<1>8. users # ticket
  <2>1. Gap(ticket, ticket) = 0
    BY <1>1, GapSame
  <2>2. Gap(me[t], ticket) < Gap(users, ticket)
    BY <1>4, Zenon DEF LockInv, Ahead
  <2> QED
    BY <1>7, <2>1, <2>2
<1>9. Gap(users', ticket') = Gap(users, ticket) - 1
  BY <1>1, <1>6, <1>8 DEF Unlock
<1>10. \A u \in Queued' : me[u] # ticket /\ me[u] \in Numbers /\ u \in Queued
  BY <1>1, <1>4, <1>7 DEF LockInv, Queued
<1>11. \A u \in Queued' : Ahead(u)' < Gap(users', ticket')
  <2> SUFFICES ASSUME NEW u \in Queued'
               PROVE  Gap(me[u], ticket') < Gap(users, ticket) - 1
    BY <1>9, Zenon DEF Ahead, Unlock
  <2>1. Gap(me[u], ticket') = Gap(me[u], ticket) - 1
    BY <1>6, <1>10
  <2>2. Gap(me[u], ticket) < Gap(users, ticket)
    BY <1>10 DEF LockInv, Ahead
  <2>3. Gap(me[u], ticket) \in Numbers /\ Gap(users, ticket) \in Numbers
    BY <1>1, <1>10, GapArith
  <2> QED
    BY <2>1, <2>2, <2>3 DEF Numbers
<1>12. \A u, v \in Queued' : me'[u] = me'[v] => u = v
  BY <1>4 DEF LockInv, Unlock
<1>13. \A u \in Thread : lpc'[u] = "in" => me'[u] = ticket'
  <2>1. \A u \in Thread : u # t => lpc[u] # "in"
    BY <1>4, <1>7 DEF LockInv, Queued
  <2> QED
    BY <1>1, <2>1 DEF Unlock
<1> QED
  BY <1>3, <1>5, <1>9, <1>11, <1>12, <1>13, Zenon DEF LockInv

(* The first half of trylock reads a number without drawing it.            *)
LEMMA TryReadKeeps == ASSUME NEW t \in Thread, LockInv, TryRead(t) PROVE LockInv'
<1>1. LockTypeOK'
  BY Zenon DEF LockInv, LockTypeOK, TryRead
<1>2. Queued' = Queued /\ t \notin Queued
  BY Zenon DEF LockInv, LockTypeOK, Queued, TryRead
<1>3. \A u \in Queued : me'[u] = me[u]
  BY <1>2, Zenon DEF LockInv, LockTypeOK, Queued, TryRead
<1>4. \A u \in Thread : lpc'[u] = "in" => me'[u] = ticket'
  BY <1>2, Zenon DEF LockInv, LockTypeOK, Queued, TryRead
<1> QED
  BY <1>1, <1>2, <1>3, <1>4 DEF LockInv, TryRead, Ahead, Gap

(* trylock succeeds only when nobody holds a number.                       *)
LEMMA TrySwapEmpty ==
    ASSUME NEW t \in Thread, LockInv, users = ticket PROVE Queued = {}
<1>1. Gap(users, ticket) = 0
  BY GapArith DEF LockInv, LockTypeOK, Numbers
<1> QED
  BY <1>1, QueuedFinite, FS_EmptySet, Zenon DEF LockInv

LEMMA TrySwapKeeps == ASSUME NEW t \in Thread, LockInv, TrySwap(t) PROVE LockInv'
<1>1. CASE users = me[t] /\ ticket = me[t]
  <2>1. Queued = {}
    BY <1>1, TrySwapEmpty, Zenon
  <2>2. Queued' = {t}
    BY <1>1, <2>1 DEF LockInv, LockTypeOK, Queued, TrySwap
  <2>3. ticket \in Numbers /\ users' \in Numbers /\ me \in [Thread -> Numbers]
    BY <1>1, SuccArith, Zenon DEF LockInv, LockTypeOK, TrySwap
  <2>4. LockTypeOK'
    BY <1>1, <2>3, Zenon DEF LockInv, LockTypeOK, TrySwap
  <2>5. 1 < UShort
    <3>1. Cardinality({t}) = 1 /\ IsFiniteSet({t}) /\ {t} \in SUBSET Thread
      BY FS_Singleton, Zenon
    <3>2. Cardinality({t}) <= Cardinality(Thread) /\ Cardinality(Thread) \in Nat
      BY <3>1, TicketAssumption, FS_Subset, FS_CardinalityType
    <3> QED
      BY <3>1, <3>2, TicketAssumption
  <2>6. /\ users' = IF ticket = UShort - 1 THEN 0 ELSE ticket + 1
        /\ ticket' = ticket /\ me' = me
    BY <1>1, <2>3, SuccArith DEF TrySwap
  <2>7. Gap(users', ticket') = 1 /\ Gap(me[t], ticket') = 0
    <3>1. Gap(users', ticket) =
              IF users' >= ticket THEN users' - ticket ELSE users' - ticket + UShort
      BY <2>3, GapArith
    <3>2. Gap(users', ticket) = 1
      BY <2>3, <2>5, <2>6, <3>1, TicketAssumption DEF Numbers
    <3>3. Gap(me[t], ticket) = 0
      BY <1>1, <2>3, GapSame
    <3> QED
      BY <2>6, <3>2, <3>3
  <2>8. Cardinality(Queued') = 1
    BY <2>2, FS_Singleton
  <2>9. \A u \in Thread : lpc'[u] = "in" => u = t
    BY <2>2 DEF Queued
  <2> QED
    BY <1>1, <2>2, <2>4, <2>6, <2>7, <2>8, <2>9 DEF LockInv, Ahead
<1>2. CASE ~ (users = me[t] /\ ticket = me[t])
  <2>1. LockTypeOK' /\ Queued' = Queued
    BY <1>2 DEF LockInv, LockTypeOK, Queued, TrySwap
  <2>2. \A u \in Thread : lpc'[u] = "in" => me'[u] = ticket'
    BY <1>2 DEF LockInv, LockTypeOK, TrySwap
  <2> QED
    BY <1>2, <2>1, <2>2 DEF LockInv, TrySwap, Ahead, Gap
<1> QED
  BY <1>1, <1>2, Zenon

LEMMA LockStep == ASSUME LockInv, [LockNext]_lockVars PROVE LockInv'
<1>1. ASSUME NEW t \in Thread,
             \/ TakeTicket(t) \/ Enter(t) \/ Unlock(t) \/ TryRead(t)
             \/ TrySwap(t)
      PROVE  LockInv'
  BY <1>1, TakeTicketKeeps, EnterKeeps, UnlockKeeps, TryReadKeeps, TrySwapKeeps
<1>2. CASE UNCHANGED lockVars
  BY <1>2 DEF lockVars, LockInv, LockTypeOK, Queued, Ahead, Gap
<1> QED
  BY <1>1, <1>2 DEF LockNext

(* LockInv is an invariant of Ticket_lock.                                 *)
THEOREM LockInvariance == LockSpec => []LockInv
<1>1. LockInv /\ [LockNext]_lockVars => LockInv'
  BY Zenon, LockStep
<1> QED
  BY <1>1, LockStarts, PTL DEF LockSpec

(* Two threads never hold the lock together.                               *)
THEOREM Exclusion == LockSpec => []MutualExclusion
<1>1. LockInv => MutualExclusion
  BY Zenon DEF LockInv, MutualExclusion, Queued
<1> QED
  BY <1>1, LockInvariance, PTL

(* A waiting thread is overtaken neither by a later lock nor by a trylock. *)
THEOREM Fair == LockSpec => FirstComeFirstServed
<1> DEFINE Overtake == \A t, u \in Thread :
               lpc[t] = "wait" /\ lpc'[u] = "in" /\ lpc[u] # "in" /\ t # u =>
                   lpc[u] = "wait" /\ Ahead(u) < Ahead(t)
<1>1. LockInv /\ [LockNext]_lockVars => [Overtake]_lockVars
  <2> SUFFICES ASSUME LockInv, LockNext, NEW t \in Thread, NEW u \in Thread,
                      lpc[t] = "wait", lpc'[u] = "in", lpc[u] # "in", t # u
               PROVE  lpc[u] = "wait" /\ Ahead(u) < Ahead(t)
    BY DEF lockVars
  <2>1. Enter(u) \/ (TrySwap(u) /\ users = me[u] /\ ticket = me[u])
    BY DEF LockNext, TakeTicket, Enter, Unlock, TryRead, TrySwap, LockInv, LockTypeOK
  <2>2. t \in Queued
    BY Zenon DEF Queued
  <2>3. ~ (users = me[u] /\ ticket = me[u] /\ TrySwap(u))
    BY <2>2, TrySwapEmpty, Zenon
  <2>4. Enter(u)
    BY <2>1, <2>3
  <2>5. me[u] = ticket /\ lpc[u] = "wait" /\ u \in Queued
    BY <2>4 DEF Enter, Queued
  <2>6. me[t] # ticket
    BY <2>2, <2>5 DEF LockInv
  <2>7. me[t] \in Numbers /\ ticket \in Numbers
    BY Zenon DEF LockInv, LockTypeOK
  <2>8. Gap(me[t], ticket) =
            IF me[t] >= ticket THEN me[t] - ticket ELSE me[t] - ticket + UShort
    BY <2>7, GapArith
  <2>9. 0 < Gap(me[t], ticket)
    BY <2>6, <2>7, <2>8, TicketAssumption DEF Numbers
  <2>10. Gap(me[u], ticket) = 0
    BY <2>5, <2>7, GapSame
  <2> QED
    BY <2>5, <2>9, <2>10 DEF Ahead
<1> QED
  BY <1>1, LockInvariance, PTL DEF LockSpec, FirstComeFirstServed

-----------------------------------------------------------------------------

(* Components.  A reference count is the number of references the clients  *)
(* have; Tokens numbers the references f[u] of each client u.              *)
Tokens(f) == UNION {{u} \X (1 .. f[u]) : u \in Client}
Of(x) == [u \in Client |-> refs[u][x]]

LEMMA TokenIn ==
    ASSUME NEW f, NEW p
    PROVE  p \in Tokens(f) <=> \E u \in Client : \E i \in 1 .. f[u] : p = <<u, i>>
  BY DEF Tokens

LEMMA OneMore ==
    ASSUME NEW f \in [Client -> Nat], NEW g \in [Client -> Nat], NEW v \in Client,
           g[v] = f[v] + 1, \A u \in Client : u # v => g[u] = f[u]
    PROVE  /\ Tokens(g) = Tokens(f) \cup {<<v, g[v]>>} /\ <<v, g[v]>> \notin Tokens(f)
           /\ Tokens(f) = Tokens(g) \ {<<v, g[v]>>} /\ <<v, g[v]>> \in Tokens(g)
  <1>1. 1 .. g[v] = (1 .. f[v]) \cup {g[v]} /\ g[v] \notin 1 .. f[v]
    OBVIOUS
  <1>2. <<v, g[v]>> \notin Tokens(f)
    <2>1. SUFFICES ASSUME NEW u \in Client, NEW i \in 1 .. f[u], <<v, g[v]>> = <<u, i>>
                   PROVE  FALSE
      BY Zenon, TokenIn
    <2>2. u = v /\ i = g[v]
      BY <2>1, Zenon
    <2> QED
      BY Zenon, <1>1, <2>2
  <1>3. ASSUME NEW p PROVE p \in Tokens(g) <=> p \in Tokens(f) \/ p = <<v, g[v]>>
    <2>1. ASSUME NEW u \in Client, u # v
          PROVE  (\E i \in 1 .. g[u] : p = <<u, i>>) <=> (\E i \in 1 .. f[u] : p = <<u, i>>)
      BY Zenon, <2>1
    <2>2. (\E i \in 1 .. g[v] : p = <<v, i>>) <=>
              (\E i \in 1 .. f[v] : p = <<v, i>>) \/ p = <<v, g[v]>>
      BY Zenon, <1>1
    <2>3. ASSUME p \in Tokens(g) PROVE p \in Tokens(f) \/ p = <<v, g[v]>>
      <3>0. \E u \in Client : \E i \in 1 .. g[u] : p = <<u, i>>
        BY <2>3, TokenIn
      <3>1. PICK u \in Client : \E i \in 1 .. g[u] : p = <<u, i>>
        BY Zenon, <3>0
      <3>2. u # v => p \in Tokens(f)
        BY Zenon, <2>1, <3>1, TokenIn
      <3>3. u = v => p \in Tokens(f) \/ p = <<v, g[v]>>
        BY Zenon, <2>2, <3>1, TokenIn
      <3> QED
        BY Zenon, <3>2, <3>3
    <2>4. ASSUME p \in Tokens(f) PROVE p \in Tokens(g)
      <3>0. \E u \in Client : \E i \in 1 .. f[u] : p = <<u, i>>
        BY <2>4, TokenIn
      <3>1. PICK u \in Client : \E i \in 1 .. f[u] : p = <<u, i>>
        BY Zenon, <3>0
      <3>2. u # v => p \in Tokens(g)
        BY Zenon, <2>1, <3>1, TokenIn
      <3>3. u = v => p \in Tokens(g)
        BY Zenon, <2>2, <3>1, TokenIn
      <3> QED
        BY Zenon, <3>2, <3>3
    <2>5. ASSUME p = <<v, g[v]>> PROVE p \in Tokens(g)
      BY Zenon, <2>2, <2>5, TokenIn
    <2> QED
      BY Zenon, <2>3, <2>4, <2>5
  <1> QED
    BY Zenon, <1>2, <1>3

LEMMA Counts ==
    ASSUME NEW f \in [Client -> Nat], NEW g \in [Client -> Nat], NEW v \in Client,
           g[v] = f[v] + 1, \A u \in Client : u # v => g[u] = f[u],
           IsFiniteSet(Tokens(f)) \/ IsFiniteSet(Tokens(g))
    PROVE  /\ IsFiniteSet(Tokens(f)) /\ IsFiniteSet(Tokens(g))
           /\ Cardinality(Tokens(g)) = Cardinality(Tokens(f)) + 1
  <1>1. /\ Tokens(g) = Tokens(f) \cup {<<v, g[v]>>} /\ <<v, g[v]>> \notin Tokens(f)
        /\ Tokens(f) = Tokens(g) \ {<<v, g[v]>>}
    BY Zenon, OneMore
  <1>2. IsFiniteSet(Tokens(f))
    <2>1. CASE IsFiniteSet(Tokens(g))
      <3>1. IsFiniteSet(Tokens(g) \ {<<v, g[v]>>})
        BY Zenon, <2>1, FS_RemoveElement
      <3> QED
        BY Zenon, <1>1, <3>1
    <2> QED
      BY Zenon, <2>1
  <1>3. /\ IsFiniteSet(Tokens(f) \cup {<<v, g[v]>>})
        /\ Cardinality(Tokens(f) \cup {<<v, g[v]>>}) =
              IF <<v, g[v]>> \in Tokens(f) THEN Cardinality(Tokens(f)) ELSE Cardinality(Tokens(f)) + 1
    BY Zenon, <1>2, FS_AddElement
  <1> QED
    BY Zenon, <1>1, <1>2, <1>3

LEMMA RefsOf ==
    ASSUME NEW x
    PROVE  Refs(x) = Tokens(Of(x)) /\ Refs(x)' = Tokens(Of(x)')
  BY Zenon DEF Refs, Tokens, Of

(* The count of x, when one client's references on x go up or down by one  *)
LEMMA CountUp ==
    ASSUME CompTypeOK, CountInv, NEW v \in Client, NEW x \in Comp,
           refs' = [refs EXCEPT ![v][x] = @ + 1],
           ref_count' = [ref_count EXCEPT ![x] = @ + 1]
    PROVE  CountInv' /\ refs' \in [Client -> [Comp -> Nat]] /\ ref_count' \in [Comp -> Nat]
  <1>1. refs' \in [Client -> [Comp -> Nat]] /\ ref_count' \in [Comp -> Nat]
    BY DEF CompTypeOK
  <1>2. ASSUME NEW y \in Comp
        PROVE  IsFiniteSet(Refs(y)') /\ Cardinality(Refs(y)') = ref_count'[y]
    <2>0. IsFiniteSet(Tokens(Of(y))) /\ Cardinality(Tokens(Of(y))) = ref_count[y]
      BY Zenon, RefsOf DEF CountInv
    <2>1. CASE y = x
      <3>1. Of(x) \in [Client -> Nat] /\ Of(x)' \in [Client -> Nat]
        BY <1>1 DEF Of, CompTypeOK
      <3>2. Of(x)'[v] = Of(x)[v] + 1 /\ \A u \in Client : u # v => Of(x)'[u] = Of(x)[u]
        BY Zenon DEF Of, CompTypeOK
      <3>3. /\ IsFiniteSet(Tokens(Of(x)'))
            /\ Cardinality(Tokens(Of(x)')) = Cardinality(Tokens(Of(x))) + 1
        BY Zenon, <2>0, <2>1, <3>1, <3>2, Counts
      <3>4. ref_count'[x] = ref_count[x] + 1
        BY Zenon DEF CompTypeOK
      <3> QED
        BY Zenon, <2>0, <2>1, <3>3, <3>4, RefsOf
    <2>2. CASE y # x
      <3>1. Of(y)' = Of(y)
        BY <2>2 DEF Of, CompTypeOK
      <3>2. ref_count'[y] = ref_count[y]
        BY <2>2 DEF CompTypeOK
      <3> QED
        BY Zenon, <2>0, <3>1, <3>2, RefsOf
    <2> QED
      BY Zenon, <2>1, <2>2
  <1> QED
    BY Zenon, <1>1, <1>2 DEF CountInv

LEMMA CountDown ==
    ASSUME CompTypeOK, CountInv, NEW v \in Client, NEW x \in Comp, Holds(v, x),
           refs' = [refs EXCEPT ![v][x] = @ - 1],
           ref_count' = [ref_count EXCEPT ![x] = @ - 1]
    PROVE  /\ CountInv' /\ refs' \in [Client -> [Comp -> Nat]] /\ ref_count' \in [Comp -> Nat]
           /\ ref_count[x] > 0
  <1>1. refs' \in [Client -> [Comp -> Nat]]
    BY DEF CompTypeOK, Holds
  <1>2. Of(x) \in [Client -> Nat] /\ Of(x)' \in [Client -> Nat]
    BY <1>1 DEF Of, CompTypeOK
  <1>3. Of(x)[v] = Of(x)'[v] + 1 /\ \A u \in Client : u # v => Of(x)[u] = Of(x)'[u]
    BY DEF Of, CompTypeOK
  <1>4. IsFiniteSet(Tokens(Of(x))) /\ Cardinality(Tokens(Of(x))) = ref_count[x]
    BY Zenon, RefsOf DEF CountInv
  <1>5. /\ IsFiniteSet(Tokens(Of(x)'))
        /\ Cardinality(Tokens(Of(x))) = Cardinality(Tokens(Of(x)')) + 1
    BY Zenon, <1>2, <1>3, <1>4, Counts
  <1>6. Cardinality(Tokens(Of(x)')) \in Nat
    BY Zenon, <1>5, FS_CardinalityType
  <1>7. ref_count[x] \in Nat /\ ref_count[x] > 0 /\ Cardinality(Tokens(Of(x)')) = ref_count[x] - 1
    BY <1>4, <1>5, <1>6
  <1>8. ref_count' \in [Comp -> Nat]
    BY <1>7 DEF CompTypeOK
  <1>9. ASSUME NEW y \in Comp
        PROVE  IsFiniteSet(Refs(y)') /\ Cardinality(Refs(y)') = ref_count'[y]
    <2>1. CASE y = x
      <3>1. ref_count'[x] = ref_count[x] - 1
        BY Zenon DEF CompTypeOK
      <3> QED
        BY Zenon, <1>5, <1>7, <2>1, <3>1, RefsOf
    <2>2. CASE y # x
      <3>1. Of(y)' = Of(y)
        BY <2>2, Zenon DEF Of, CompTypeOK
      <3>2. ref_count'[y] = ref_count[y]
        BY <2>2 DEF CompTypeOK
      <3> QED
        BY Zenon, <3>1, <3>2, RefsOf DEF CountInv
    <2> QED
      BY Zenon, <2>1, <2>2
  <1> QED
    BY Zenon, <1>1, <1>7, <1>8, <1>9 DEF CountInv

LEMMA HoldersCount ==
    ASSUME CompTypeOK, CountInv, NEW x \in Comp
    PROVE  ref_count[x] = 0 <=> \A u \in Client : ~Holds(u, x)
  <1>1. ref_count[x] = 0 <=> Refs(x) = {}
    BY Zenon, FS_EmptySet DEF CountInv
  <1>2. Refs(x) = {} <=> \A u \in Client : 1 .. refs[u][x] = {}
    <2>1. ASSUME NEW u \in Client, NEW i \in 1 .. refs[u][x] PROVE <<u, i>> \in Refs(x)
      BY DEF Refs
    <2>2. ASSUME NEW p \in Refs(x) PROVE \E u \in Client : \E i \in 1 .. refs[u][x] : TRUE
      BY Zenon DEF Refs
    <2> QED
      BY Zenon, <2>1, <2>2
  <1>3. ASSUME NEW u \in Client PROVE 1 .. refs[u][x] = {} <=> ~Holds(u, x)
    <2>1. refs[u][x] \in Nat
      BY Zenon DEF CompTypeOK
    <2> QED
      BY <2>1 DEF Holds
  <1> QED
    BY Zenon, <1>1, <1>2, <1>3

LEMMA CompStarts == CompInit => CompInv
  <1> SUFFICES ASSUME CompInit PROVE CompInv
    BY Zenon
  <1>1. CompTypeOK
    BY Zenon DEF CompInit, CompTypeOK, NotReleasing
  <1>2. ASSUME NEW x \in Comp PROVE IsFiniteSet(Refs(x)) /\ Cardinality(Refs(x)) = ref_count[x]
    <2>1. \A u \in Client : 1 .. refs[u][x] = {}
      BY DEF CompInit
    <2>2. Refs(x) = {}
      BY <2>1, Zenon DEF Refs
    <2>3. ref_count[x] = 0
      BY Zenon DEF CompInit
    <2> QED
      BY Zenon, <2>2, <2>3, FS_EmptySet
  <1>3. ASSUME NEW u \in Client, NEW x \in Comp PROVE ~Last(u, x)
    BY CompAssumption, Zenon DEF CompInit, NotReleasing, Last
  <1>4. LifeInv
    BY <1>3, Zenon DEF CompInit, LifeInv
  <1> QED
    BY Zenon, <1>1, <1>2, <1>4 DEF CompInv, CountInv

(* The part of the invariant about one component                           *)
Lives(x) ==
    /\ life[x] # "loaded" => ref_count[x] = 0 /\ \A u \in Client : ~Last(u, x)
    /\ life[x] = "loaded" /\ ref_count[x] = 0 => \E u \in Client : Last(u, x)
    /\ \A u, v \in Client : Last(u, x) => ref_count[x] = 0 /\ (Last(v, x) => u = v)
    /\ unloads[x] = IF life[x] = "unloaded" THEN 1 ELSE 0

LEMMA LivesAll ==
    /\ LifeInv <=> \A x \in Comp : Lives(x)
    /\ LifeInv' <=> \A x \in Comp : Lives(x)'
  BY Zenon DEF LifeInv, Lives

LEMMA LivesOn ==
    ASSUME NEW x, Lives(x), life'[x] = life[x], ref_count'[x] = ref_count[x],
           unloads'[x] = unloads[x], \A u \in Client : Last(u, x)' <=> Last(u, x)
    PROVE  Lives(x)'
  BY Zenon DEF Lives

LEMMA LoadKeeps ==
    ASSUME CompInv, NEW u \in Client, NEW x \in Comp, load_component(u, x)
    PROVE  CompInv'
  <1>1. CountInv' /\ refs' \in [Client -> [Comp -> Nat]] /\ ref_count' \in [Comp -> Nat]
    BY Zenon, CountUp DEF CompInv, load_component
  <1>2. CompTypeOK'
    BY <1>1 DEF CompInv, CompTypeOK, load_component
  <1>3. \A w \in Client, y \in Comp : Last(w, y)' <=> Last(w, y)
    BY Zenon DEF Last, load_component
  <1>4. ASSUME NEW y \in Comp PROVE Lives(y)'
    <2>0. Lives(y)
      BY Zenon, LivesAll DEF CompInv
    <2>1. CASE y = x
      <3>1. life[x] = "none" /\ ref_count[x] = 0 /\ unloads[x] = 0 /\ \A w \in Client : ~Last(w, x)
        BY <2>0, <2>1 DEF load_component, Lives
      <3>2. life'[x] = "loaded" /\ ref_count'[x] = ref_count[x] + 1 /\ unloads'[x] = unloads[x]
        BY DEF load_component, CompInv, CompTypeOK
      <3>3. ref_count'[x] # 0
        BY <3>1, <3>2
      <3> QED
        BY <1>3, <2>1, <3>1, <3>2, <3>3 DEF Lives
    <2>2. CASE y # x
      <3>1. life'[y] = life[y] /\ ref_count'[y] = ref_count[y] /\ unloads'[y] = unloads[y]
        BY <2>2 DEF load_component, CompInv, CompTypeOK
      <3> QED
        BY Zenon, <1>3, <2>0, <3>1, LivesOn
    <2> QED
      BY Zenon, <2>1, <2>2
  <1> QED
    BY Zenon, <1>1, <1>2, <1>4, LivesAll DEF CompInv

LEMMA AddKeeps ==
    ASSUME CompInv, NEW u \in Client, NEW v \in Client, NEW x \in Comp, add_ref(u, v, x)
    PROVE  CompInv'
  <1>1. CountInv' /\ refs' \in [Client -> [Comp -> Nat]] /\ ref_count' \in [Comp -> Nat]
    BY Zenon, CountUp DEF CompInv, add_ref
  <1>2. CompTypeOK'
    BY <1>1 DEF CompInv, CompTypeOK, add_ref
  <1>3. \A w \in Client, y \in Comp : Last(w, y)' <=> Last(w, y)
    BY Zenon DEF Last, add_ref
  <1>4. ref_count[x] # 0
    BY Zenon, HoldersCount DEF add_ref, CompInv
  <1>5. ASSUME NEW y \in Comp PROVE Lives(y)'
    <2>0. Lives(y)
      BY Zenon, LivesAll DEF CompInv
    <2>1. CASE y = x
      <3>1. life[x] = "loaded" /\ unloads[x] = 0 /\ \A w \in Client : ~Last(w, x)
        BY <1>4, <2>0, <2>1 DEF Lives
      <3>2. life'[x] = life[x] /\ ref_count'[x] = ref_count[x] + 1 /\ unloads'[x] = unloads[x]
        BY DEF add_ref, CompInv, CompTypeOK
      <3>3. ref_count'[x] # 0
        BY <3>2 DEF CompInv, CompTypeOK
      <3> QED
        BY <1>3, <2>1, <3>1, <3>2, <3>3 DEF Lives
    <2>2. CASE y # x
      <3>1. life'[y] = life[y] /\ ref_count'[y] = ref_count[y] /\ unloads'[y] = unloads[y]
        BY <2>2, Zenon DEF add_ref, CompInv, CompTypeOK
      <3> QED
        BY Zenon, <1>3, <2>0, <3>1, LivesOn
    <2> QED
      BY Zenon, <2>1, <2>2
  <1> QED
    BY Zenon, <1>1, <1>2, <1>5, LivesAll DEF CompInv

LEMMA ReleaseKeeps ==
    ASSUME CompInv, NEW u \in Client, NEW x \in Comp, release_ref(u, x)
    PROVE  CompInv'
  <1>1. /\ CountInv' /\ refs' \in [Client -> [Comp -> Nat]] /\ ref_count' \in [Comp -> Nat]
        /\ ref_count[x] > 0
    BY Zenon, CountDown DEF CompInv, release_ref
  <1>0. ref_count[x] \in Nat /\ releasing \in [Client -> [comp : Comp \cup {"none"}, val : Nat]]
    BY Zenon DEF CompInv, CompTypeOK
  <1> DEFINE r == [comp |-> x, val |-> ref_count[x] - 1]
  <1>2. r \in [comp : Comp \cup {"none"}, val : Nat] /\ r.comp = x /\ r.val = ref_count[x] - 1
    BY <1>0, <1>1
  <1>3. releasing' = [releasing EXCEPT ![u] = r]
    BY Zenon DEF release_ref
  <1> HIDE DEF r
  <1>4. CompTypeOK'
    BY <1>0, <1>1, <1>2, <1>3 DEF CompInv, CompTypeOK, release_ref
  <1>5. \A w \in Client, y \in Comp : w # u => (Last(w, y)' <=> Last(w, y))
    BY Zenon, <1>0, <1>3 DEF Last
  <1>6. \A y \in Comp : ~Last(u, y)
    BY CompAssumption DEF release_ref, Free, NotReleasing, Last
  <1>7. \A y \in Comp : Last(u, y)' <=> y = x /\ ref_count[x] - 1 = 0
    BY Zenon, <1>0, <1>2, <1>3 DEF Last
  <1>8. ASSUME NEW y \in Comp PROVE Lives(y)'
    <2>0. Lives(y)
      BY Zenon, LivesAll DEF CompInv
    <2>1. CASE y = x
      <3>1. life[x] = "loaded" /\ unloads[x] = 0 /\ \A w \in Client : ~Last(w, x)
        BY <1>0, <1>1, <2>0, <2>1 DEF Lives
      <3>2. life'[x] = life[x] /\ ref_count'[x] = ref_count[x] - 1 /\ unloads'[x] = unloads[x]
        BY Zenon DEF release_ref, CompInv, CompTypeOK
      <3>3. \A w \in Client : Last(w, x)' <=> w = u /\ ref_count'[x] = 0
        BY Zenon, <1>5, <1>7, <3>1, <3>2
      <3> QED
        BY Zenon, <2>1, <3>1, <3>2, <3>3 DEF Lives
    <2>2. CASE y # x
      <3>1. life'[y] = life[y] /\ ref_count'[y] = ref_count[y] /\ unloads'[y] = unloads[y]
        BY <2>2, Zenon DEF release_ref, CompInv, CompTypeOK
      <3>2. \A w \in Client : Last(w, y)' <=> Last(w, y)
        BY Zenon, <1>5, <1>6, <1>7, <2>2
      <3> QED
        BY Zenon, <2>0, <3>1, <3>2, LivesOn
    <2> QED
      BY Zenon, <2>1, <2>2
  <1> QED
    BY Zenon, <1>1, <1>4, <1>8, LivesAll DEF CompInv

LEMMA UnloadKeeps ==
    ASSUME CompInv, NEW u \in Client, unload(u)
    PROVE  CompInv'
  <1>0. /\ releasing \in [Client -> [comp : Comp \cup {"none"}, val : Nat]]
        /\ releasing[u] \in [comp : Comp \cup {"none"}, val : Nat]
    BY DEF CompInv, CompTypeOK
  <1>1. releasing' = [releasing EXCEPT ![u] = NotReleasing] /\ UNCHANGED <<ref_count, refs>>
    BY Zenon DEF unload
  <1>2. NotReleasing \in [comp : Comp \cup {"none"}, val : Nat] /\ NotReleasing.comp = "none"
    BY DEF NotReleasing
  <1>3. CountInv'
    BY Zenon, <1>1 DEF CompInv, CountInv, Refs
  <1>4. \A w \in Client, y \in Comp : w # u => (Last(w, y)' <=> Last(w, y))
    BY Zenon, <1>0, <1>1 DEF Last
  <1>5. \A y \in Comp : ~Last(u, y)'
    <2>1. releasing'[u] = NotReleasing
      BY Zenon, <1>0, <1>1
    <2>2. "none" \notin Comp
      BY CompAssumption
    <2> QED
      BY Zenon, <1>2, <2>1, <2>2 DEF Last
  <1>6. CASE releasing[u].val = 0
    <2>0. releasing[u].comp \in Comp
      <3>1. releasing[u] # NotReleasing
        BY Zenon DEF unload, Free
      <3>2. releasing[u] = [comp |-> releasing[u].comp, val |-> 0]
        BY <1>0, <1>6
      <3> QED
        BY <1>0, <3>1, <3>2 DEF NotReleasing
    <2>1. PICK x \in Comp : x = releasing[u].comp
      BY Zenon, <2>0
    <2>2. life' = [life EXCEPT ![x] = "unloaded"] /\ unloads' = [unloads EXCEPT ![x] = @ + 1]
      BY Zenon, <1>6, <2>1 DEF unload
    <2>3. Last(u, x)
      BY Zenon, <1>6, <2>1 DEF Last
    <2>4. life[x] = "loaded" /\ unloads[x] = 0 /\ ref_count[x] = 0
      <3>1. Lives(x)
        BY Zenon, <2>1, LivesAll DEF CompInv
      <3> QED
        BY <2>3, <3>1 DEF Lives
    <2>5. CompTypeOK'
      BY <1>0, <1>1, <1>2, <2>1, <2>2 DEF CompInv, CompTypeOK
    <2>6. ASSUME NEW y \in Comp PROVE Lives(y)'
      <3>0. Lives(y)
        BY Zenon, LivesAll DEF CompInv
      <3>1. CASE y = x
        <4>1. life'[x] = "unloaded" /\ unloads'[x] = 1 /\ ref_count'[x] = 0
          BY <1>1, <2>1, <2>2, <2>4 DEF CompInv, CompTypeOK
        <4>2. \A w \in Client : ~Last(w, x)'
          BY Zenon, <1>4, <1>5, <2>1, <2>3, <3>0, <3>1 DEF Lives
        <4> QED
          BY <3>1, <4>1, <4>2, Zenon DEF Lives
      <3>2. CASE y # x
        <4>1. life'[y] = life[y] /\ ref_count'[y] = ref_count[y] /\ unloads'[y] = unloads[y]
          BY <1>1, <2>2, <3>2 DEF CompInv, CompTypeOK
        <4>2. ~Last(u, y)
          BY Zenon, <2>1, <3>2 DEF Last
        <4>3. \A w \in Client : Last(w, y)' <=> Last(w, y)
          BY Zenon, <1>4, <1>5, <4>2
        <4> QED
          BY Zenon, <3>0, <4>1, <4>3, LivesOn
      <3> QED
        BY Zenon, <3>1, <3>2
    <2> QED
      BY Zenon, <1>3, <2>5, <2>6, LivesAll DEF CompInv
  <1>7. CASE releasing[u].val # 0
    <2>1. UNCHANGED <<life, unloads>>
      BY Zenon, <1>7 DEF unload
    <2>2. CompTypeOK'
      BY <1>0, <1>1, <1>2, <2>1 DEF CompInv, CompTypeOK
    <2>3. \A w \in Client, y \in Comp : Last(w, y)' <=> Last(w, y)
      BY Zenon, <1>4, <1>5, <1>7 DEF Last
    <2>4. ASSUME NEW y \in Comp PROVE Lives(y)'
      <3>0. Lives(y)
        BY Zenon, LivesAll DEF CompInv
      <3>1. life'[y] = life[y] /\ ref_count'[y] = ref_count[y] /\ unloads'[y] = unloads[y]
        BY Zenon, <1>1, <2>1
      <3> QED
        BY Zenon, <2>3, <3>0, <3>1, LivesOn
    <2> QED
      BY Zenon, <1>3, <2>2, <2>4, LivesAll DEF CompInv
  <1> QED
    BY Zenon, <1>6, <1>7

LEMMA CompStep == ASSUME CompInv, [CompNext]_compVars PROVE CompInv'
  <1>0. ASSUME UNCHANGED <<ref_count, life, unloads, refs, releasing>> PROVE CompInv'
    <2>1. CompTypeOK'
      BY Zenon, <1>0 DEF CompInv, CompTypeOK
    <2>2. CountInv'
      BY Zenon, <1>0 DEF CompInv, CountInv, Refs
    <2>3. \A w \in Client, y \in Comp : Last(w, y)' <=> Last(w, y)
      BY Zenon, <1>0 DEF Last
    <2>4. ASSUME NEW y \in Comp PROVE Lives(y)'
      <3>1. life'[y] = life[y] /\ ref_count'[y] = ref_count[y] /\ unloads'[y] = unloads[y]
        BY Zenon, <1>0
      <3> QED
        BY Zenon, <2>3, <3>1, LivesOn, LivesAll DEF CompInv
    <2> QED
      BY Zenon, <2>1, <2>2, <2>4, LivesAll DEF CompInv
  <1>1. CASE \E u \in Client : unload(u)
    BY Zenon, <1>1, UnloadKeeps
  <1>2. CASE \E u \in Client, x \in Comp : load_component(u, x)
    BY Zenon, <1>2, LoadKeeps
  <1>3. CASE \E u \in Client, x \in Comp : query_interface(u, x)
    BY Zenon, <1>3, AddKeeps DEF query_interface
  <1>4. CASE \E u \in Client, x \in Comp : release_ref(u, x)
    BY Zenon, <1>4, ReleaseKeeps
  <1>5. CASE \E u \in Client, x \in Comp, v \in Client : add_ref(u, v, x)
    BY Zenon, <1>5, AddKeeps
  <1>6. CASE \E u \in Client, list \in Lists : bind(u, list)
    <2>1. UNCHANGED <<ref_count, life, unloads, refs, releasing>>
      BY Zenon, <1>6 DEF bind
    <2> QED
      BY Zenon, <1>0, <2>1
  <1>7. CASE UNCHANGED compVars
    BY Zenon, <1>0, <1>7 DEF compVars
  <1> QED
    BY Zenon, <1>1, <1>2, <1>3, <1>4, <1>5, <1>6, <1>7 DEF CompNext

LEMMA CompLifetimes == CompInv => UnloadedWithLastReference
  <1> SUFFICES ASSUME CompInv, NEW x \in Comp
               PROVE  /\ unloads[x] <= 1
                      /\ \A u \in Client : releasing[u].val >= 0 /\ (life[x] = "unloaded" => ~Holds(u, x))
                      /\ life[x] = "loaded" /\ ~(\E u \in Client : releasing[u].comp = x)
                            => \E u \in Client : Holds(u, x)
    BY Zenon DEF UnloadedWithLastReference
  <1>1. Lives(x)
    BY Zenon, LivesAll DEF CompInv
  <1>2. ref_count[x] = 0 <=> \A u \in Client : ~Holds(u, x)
    BY Zenon, HoldersCount DEF CompInv
  <1>3. unloads[x] <= 1
    BY <1>1 DEF Lives
  <1>4. \A u \in Client : releasing[u].val >= 0
    BY DEF CompInv, CompTypeOK
  <1>5. life[x] = "unloaded" => ref_count[x] = 0
    BY <1>1, Zenon DEF Lives
  <1>6. life[x] = "loaded" /\ ref_count[x] = 0 => \E u \in Client : releasing[u].comp = x
    BY Zenon, <1>1 DEF Lives, Last
  <1> QED
    BY Zenon, <1>2, <1>3, <1>4, <1>5, <1>6

-----------------------------------------------------------------------------
(* The whole: a step is one of a single part and leaves the others alone.  *)
LEMMA PartSteps ==
    ASSUME [LibexoNext]_libexoVars
    PROVE  /\ [LockNext]_lockVars /\ [SpmcNext]_spmcVars
           /\ [ThreadsNext]_threadVars /\ [CompNext]_compVars
  BY Zenon DEF LibexoNext, libexoVars

(* The parts keep their invariants side by side: the numbers of the ticket *)
(* lock, the counts and slots of the buffer, the states of threads and     *)
(* waiters and the references of components agree, for every number of     *)
(* each; those of the buffer until its 32-bit tail wraps.                  *)
THEOREM PartsAgree == LibexoSpec => []LibexoInv
  <1>1. LibexoInit => LibexoInv
    BY Zenon, LockStarts, StartSpmcInv, ThreadsStart, CompStarts DEF LibexoInit, LibexoInv
  <1>2. LibexoInv /\ [LibexoNext]_libexoVars => LibexoInv'
    BY Zenon, PartSteps, LockStep, NextSpmcInv, ThreadsStep, CompStep DEF LibexoInv
  <1> QED
    BY <1>1, <1>2, PTL DEF LibexoSpec

(* Nothing is used after it is gone or before it is there: no thread of    *)
(* Base_thread runs on a deleted object or before start, no wait of Event  *)
(* returns without a wake, and release_ref unloads a component once, with  *)
(* its last reference.                                                     *)
THEOREM LifetimesKept == LibexoSpec => []ObjectLifetimes
  <1>1. LibexoInit => ThreadsInv /\ CompInv
    BY Zenon, ThreadsStart, CompStarts DEF LibexoInit
  <1>2. ThreadsInv /\ CompInv /\ [LibexoNext]_libexoVars => ThreadsInv' /\ CompInv'
    BY Zenon, PartSteps, ThreadsStep, CompStep
  <1>3. ThreadsInv /\ CompInv => ObjectLifetimes
    BY Zenon, CompLifetimes DEF ThreadsInv, ObjectLifetimes
  <1> QED
    BY <1>1, <1>2, <1>3, PTL DEF LibexoSpec
=============================================================================
