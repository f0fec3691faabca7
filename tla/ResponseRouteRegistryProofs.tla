-------------------- MODULE ResponseRouteRegistryProofs --------------------
(***************************************************************************)
(* The safety of ResponseRouteRegistry for every set of threads and of     *)
(* transports, every width of the identifier and any number of             *)
(* registrations.                                                          *)
(***************************************************************************)
EXTENDS ResponseRouteRegistry, SequenceLemmas

HoldsMutex(t) == pc[t] \in {"scanning", "locking"}

\* The mutex excludes: at most one thread walks the table.
OneWalker == \A s, t \in Threads : HoldsMutex(s) /\ HoldsMutex(t) => s = t

\* Every entry was assigned, and a walk that stopped at an entry stopped at one
\* with its identifier.
EntriesAssigned ==
  /\ \A n \in 1 .. Len(routes) : <<routes[n].Id, routes[n].Route>> \in assigned
  /\ \A t \in Threads : pc[t] = "registering" => held[t] \in Transports
  /\ \A t \in Threads : pc[t] = "locking" => routes[cursor[t]].Id = id[t]

\* Until the counter wraps, it counts the registrations, and what it has given
\* out lies behind it: an identifier is either on its way into the table, with
\* one thread, or was assigned, to one transport.
NotWrapped == registrations < IdModulus

CounterAhead ==
  /\ registrations + 1 < IdModulus => nextId = registrations + 1
  /\ \A pair \in assigned : pair[1] \in 1 .. registrations
  /\ \A p, q \in assigned : p[1] = q[1] => p = q
  /\ \A t \in Threads : pc[t] = "registering" =>
       /\ id[t] \in 1 .. registrations
       /\ \A pair \in assigned : pair[1] # id[t]

\* An entry whose identifier was unregistered is gone.
EntriesLive ==
  /\ \A n \in 1 .. Len(routes) : routes[n].Id \in live
  /\ \A t \in Threads : HoldsMutex(t) /\ late[t] =>
       \A n \in 1 .. Len(routes) : routes[n].Id # id[t]

IInv ==
  /\ TypeOK
  /\ registrations \in Nat
  /\ OneWalker
  /\ EntriesAssigned
  /\ NothingOverlooked
  /\ NeverMisrouted
  /\ NotWrapped =>
       /\ CounterAhead
       /\ EntriesLive
       /\ IdsNeverShared
       /\ LiveRoutesKept
       /\ UnregisteredStaysSilent
-----------------------------------------------------------------------------
LEMMA InitInvariant == Init => IInv
<1>. SUFFICES ASSUME Init PROVE IInv
  OBVIOUS
<1>. USE DEF Init
<1>1. TypeOK /\ registrations \in Nat
  <2>1. routes \in Seq(Entry) /\ Len(routes) = 0
    BY EmptySeq
  <2>. QED
    BY <2>1, RouteAssumption DEF TypeOK, Ids, Phases
<1>2. Len(routes) = 0
  BY EmptySeq
<1>. QED
  BY <1>1, <1>2
     DEF IInv, OneWalker, EntriesAssigned, NothingOverlooked, NeverMisrouted,
         CounterAhead, EntriesLive, IdsNeverShared, LiveRoutesKept,
         UnregisteredStaysSilent, HoldsMutex

\* The counter moves on by one until it wraps.
LEMMA CounterStep ==
  ASSUME NEW n \in Nat
  PROVE  /\ n % IdModulus \in Ids
         /\ n < IdModulus => n % IdModulus = n
BY RouteAssumption DEF Ids

LEMMA RegisterTakeIdInvariant ==
  ASSUME IInv, NEW t \in Threads, NEW transport \in Transports,
         RegisterTakeId(t, transport)
  PROVE  IInv'
<1>. USE DEF RegisterTakeId, TakenId
<1>0. TypeOK /\ registrations \in Nat /\ nextId \in Nat /\ IdModulus \in Nat
  BY RouteAssumption DEF IInv, TypeOK, Ids
<1>1. (nextId + 1) % IdModulus \in Ids
  BY <1>0, CounterStep
<1>2. TypeOK' /\ registrations' \in Nat
  BY <1>0, <1>1 DEF TypeOK, Phases
<1>3. OneWalker'
  BY <1>0 DEF IInv, OneWalker, HoldsMutex, TypeOK
<1>4. EntriesAssigned'
  BY <1>0 DEF IInv, EntriesAssigned, TypeOK
<1>5. NothingOverlooked'
  BY <1>0 DEF IInv, NothingOverlooked, TypeOK
<1>6. NeverMisrouted'
  BY <1>0 DEF IInv, NeverMisrouted, TypeOK
<1>7. ASSUME NotWrapped'
      PROVE  /\ CounterAhead' /\ EntriesLive' /\ IdsNeverShared'
             /\ LiveRoutesKept' /\ UnregisteredStaysSilent'
  <2>1. /\ NotWrapped /\ nextId = registrations + 1
        /\ registrations' = registrations + 1
    BY <1>0, <1>7 DEF IInv, NotWrapped, CounterAhead
  <2>2. CounterAhead'
    <3>1. registrations' + 1 < IdModulus => nextId' = registrations' + 1
      BY <1>0, <2>1, CounterStep
    <3>2. /\ id'[t] = registrations' /\ pc'[t] = "registering"
          /\ \A s \in Threads : s # t => id'[s] = id[s] /\ pc'[s] = pc[s]
      BY <1>0, <2>1 DEF TypeOK
    <3>3. \A pair \in assigned : pair[1] \in 1 .. registrations
      BY <2>1 DEF IInv, CounterAhead
    <3>. QED
      BY <1>0, <2>1, <3>1, <3>2, <3>3 DEF IInv, CounterAhead
  <2>3. EntriesLive'
    BY <1>0, <2>1 DEF IInv, EntriesLive, HoldsMutex, TypeOK
  <2>4. IdsNeverShared'
    <3>1. \A n \in 1 .. Len(routes) : routes[n].Id \in 1 .. registrations
      BY <2>1 DEF IInv, EntriesAssigned, CounterAhead
    <3>2. \A s \in Threads : pc[s] = "registering" => id[s] \in 1 .. registrations
      BY <2>1 DEF IInv, CounterAhead
    <3>. QED
      BY <1>0, <2>1, <3>1, <3>2 DEF IInv, IdsNeverShared, TypeOK
  <2>5. LiveRoutesKept'
    BY <1>0, <2>1 DEF IInv, LiveRoutesKept, IsAlive, TypeOK
  <2>6. UnregisteredStaysSilent'
    BY <1>0, <2>1 DEF IInv, UnregisteredStaysSilent, TypeOK
  <2>. QED
    BY <2>2, <2>3, <2>4, <2>5, <2>6
<1>. QED
  BY <1>2, <1>3, <1>4, <1>5, <1>6, <1>7 DEF IInv

LEMMA RegisterStoreInvariant ==
  ASSUME IInv, NEW t \in Threads, RegisterStore(t)
  PROVE  IInv'
<1>0. TypeOK /\ registrations \in Nat
  BY DEF IInv
<1>. DEFINE new == [Id |-> id[t], Route |-> held[t]]
<1>1. new \in Entry /\ new.Id = id[t] /\ new.Route = held[t]
  BY <1>0 DEF IInv, EntriesAssigned, TypeOK, Entry, RegisterStore
<1>2. /\ routes' \in Seq(Entry)
      /\ Len(routes') = Len(routes) + 1
      /\ \A n \in 1 .. Len(routes) : routes'[n] = routes[n]
      /\ routes'[Len(routes) + 1] = new
      /\ Len(routes) \in Nat
  BY <1>0, <1>1, AppendProperties, LenProperties
     DEF TypeOK, RegisterStore, StoredId
<1>. HIDE DEF new
<1>3. \A s \in Threads : ~HoldsMutex(s)
  BY DEF RegisterStore, MutexIsFree, HoldsMutex
<1>4. /\ pc' = [pc EXCEPT ![t] = "idle"] /\ pc[t] = "registering"
      /\ held' = [held EXCEPT ![t] = NoTransport]
      /\ assigned' = assigned \cup {<<id[t], held[t]>>}
      /\ live' = live \cup {id[t]}
      /\ UNCHANGED <<nextId, owned, id, cursor, late, registrations>>
  BY DEF RegisterStore
<1>5. \A s \in Threads : ~HoldsMutex(s)'
  BY <1>0, <1>3, <1>4 DEF HoldsMutex, TypeOK
<1>6. TypeOK' /\ registrations' \in Nat
  <2>1. id[t] \in Ids /\ held[t] \in Transports
    BY <1>0, <1>4 DEF TypeOK, IInv, EntriesAssigned
  <2>. QED
    BY <1>0, <1>2, <1>4, <1>5, <2>1 DEF TypeOK, Phases, HoldsMutex
<1>7. OneWalker'
  BY <1>5 DEF OneWalker
<1>8. EntriesAssigned'
  <2>1. ASSUME NEW n \in 1 .. Len(routes')
        PROVE  <<routes'[n].Id, routes'[n].Route>> \in assigned'
    BY <1>1, <1>2, <1>4 DEF IInv, EntriesAssigned
  <2>. QED
    BY <1>0, <1>4, <1>5, <2>1 DEF IInv, EntriesAssigned, HoldsMutex, TypeOK
<1>9. NothingOverlooked'
  BY <1>5 DEF NothingOverlooked, HoldsMutex
<1>10. NeverMisrouted'
  BY <1>0, <1>4 DEF IInv, NeverMisrouted, TypeOK
<1>11. ASSUME NotWrapped'
       PROVE  /\ CounterAhead' /\ EntriesLive' /\ IdsNeverShared'
              /\ LiveRoutesKept' /\ UnregisteredStaysSilent'
  <2>1. NotWrapped
    BY <1>4, <1>11 DEF NotWrapped
  <2>2. CounterAhead'
    <3>1. /\ id[t] \in 1 .. registrations
          /\ \A pair \in assigned : pair[1] # id[t]
          /\ \A s \in Threads : pc[s] = "registering" /\ s # t => id[s] # id[t]
      BY <1>4, <2>1 DEF IInv, CounterAhead, IdsNeverShared, NotWrapped
    <3>2. \A p \in assigned' :
            p \in assigned \/ (p = <<id[t], held[t]>> /\ p[1] = id[t])
      <4>1. \A p \in assigned' : p \in assigned \/ p = <<id[t], held[t]>>
        BY <1>4
      <4>2. <<id[t], held[t]>>[1] = id[t]
        OBVIOUS
      <4>3. ASSUME NEW p \in assigned', p = <<id[t], held[t]>>
            PROVE  p[1] = id[t]
        BY <4>2, <4>3
      <4>. QED
        BY <4>1, <4>3
    <3>3. \A pair \in assigned' : pair[1] \in 1 .. registrations
      BY <2>1, <3>1, <3>2 DEF IInv, CounterAhead
    <3>4. \A p, q \in assigned' : p[1] = q[1] => p = q
      BY <2>1, <3>1, <3>2 DEF IInv, CounterAhead
    <3>5. \A s \in Threads : pc'[s] = "registering" =>
            /\ pc[s] = "registering" /\ s # t
            /\ id[s] \in 1 .. registrations
            /\ \A pair \in assigned' : pair[1] # id[s]
      BY <1>0, <1>4, <2>1, <3>1, <3>2 DEF IInv, CounterAhead, TypeOK
    <3>. QED
      BY <1>4, <2>1, <3>3, <3>4, <3>5 DEF IInv, CounterAhead
  <2>3. EntriesLive'
    BY <1>1, <1>2, <1>4, <1>5, <2>1 DEF IInv, EntriesLive
  <2>4. IdsNeverShared'
    <3>1. \A n \in 1 .. Len(routes) : routes[n].Id # id[t]
      BY <1>4, <2>1 DEF IInv, IdsNeverShared, NotWrapped
    <3>2. (\A m, n \in 1 .. Len(routes) : routes[m].Id = routes[n].Id => m = n)'
      BY <1>1, <1>2, <2>1, <3>1 DEF IInv, IdsNeverShared, NotWrapped
    <3>3. \A s \in Threads : pc'[s] = "registering" =>
            /\ pc[s] = "registering" /\ s # t
            /\ \A n \in 1 .. Len(routes') : routes'[n].Id # id[s]
      <4>. TAKE s \in Threads
      <4>. HAVE pc'[s] = "registering"
      <4>1. pc[s] = "registering" /\ s # t
        BY <1>0, <1>4 DEF TypeOK
      <4>2. id[s] # id[t] /\ \A n \in 1 .. Len(routes) : routes[n].Id # id[s]
        BY <1>4, <2>1, <4>1 DEF IInv, IdsNeverShared, NotWrapped
      <4>. QED
        BY <1>1, <1>2, <4>1, <4>2
    <3>. QED
      BY <1>4, <2>1, <3>2, <3>3 DEF IInv, IdsNeverShared
  <2>5. LiveRoutesKept'
    <3>. SUFFICES ASSUME NEW pair \in assigned', pair[1] \in live', IsAlive(pair[2])'
                  PROVE  \E n \in 1 .. Len(routes') :
                           routes'[n] = [Id |-> pair[1], Route |-> pair[2]]
      BY <1>2, LenProperties DEF LiveRoutesKept, ToSet
    <3>1. CASE pair = <<id[t], held[t]>>
      BY <1>2, <3>1 DEF new
    <3>2. CASE pair \in assigned
      <4>1. pair[1] # id[t] /\ pair[1] \in live
        BY <1>4, <2>1, <3>2 DEF IInv, CounterAhead
      <4>2. IsAlive(pair[2])
        BY <1>0, <1>4, <3>2, RouteAssumption DEF IsAlive, TypeOK
      <4>3. [Id |-> pair[1], Route |-> pair[2]] \in ToSet(routes)
        BY <2>1, <3>2, <4>1, <4>2 DEF IInv, LiveRoutesKept
      <4>4. routes \in Seq(Entry)
        BY <1>0 DEF TypeOK
      <4>5. PICK n \in 1 .. Len(routes) : routes[n] = [Id |-> pair[1], Route |-> pair[2]]
        BY <4>3, <4>4, LenProperties DEF ToSet
      <4>6. n \in 1 .. Len(routes') /\ routes'[n] = routes[n]
        BY <1>2, <4>4, LenProperties
      <4>. QED
        BY <4>5, <4>6
    <3>. QED
      BY <1>4, <3>1, <3>2
  <2>6. UnregisteredStaysSilent'
    BY <1>0, <1>4, <2>1 DEF IInv, UnregisteredStaysSilent, TypeOK
  <2>. QED
    BY <2>2, <2>3, <2>4, <2>5, <2>6
<1>. QED
  BY <1>6, <1>7, <1>8, <1>9, <1>10, <1>11 DEF IInv

\* An entry is taken out of the table, by a walk or by Unregister: what the
\* others say of the table stays true.
LEMMA ErasureKeepsEntries ==
  ASSUME TypeOK, NEW k \in 1 .. Len(routes), routes' = RemoveAt(routes, k)
  PROVE  /\ routes' \in Seq(Entry)
         /\ Len(routes') = Len(routes) - 1 /\ Len(routes) \in Nat
         /\ \A n \in 1 .. Len(routes') :
              routes'[n] = IF n < k THEN routes[n] ELSE routes[n + 1]
         /\ \A n \in 1 .. Len(routes') : \E m \in 1 .. Len(routes) : routes'[n] = routes[m]
         /\ \A entry \in ToSet(routes) : entry # routes[k] => entry \in ToSet(routes')
<1>1. routes \in Seq(Entry) /\ Len(routes) \in Nat
  BY LenProperties DEF TypeOK
<1>2. /\ routes' \in Seq(Entry) /\ Len(routes') = Len(routes) - 1
      /\ \A n \in 1 .. Len(routes) - 1 :
           routes'[n] = IF n < k THEN routes[n] ELSE routes[n + 1]
  BY <1>1, RemoveAtProperties
<1>3. \A entry \in ToSet(routes) : entry # routes[k] => entry \in ToSet(routes')
  BY <1>1, RemoveAtKeepsOthers
<1>4. \A n \in 1 .. Len(routes) - 1 : n \in 1 .. Len(routes) /\ n + 1 \in 1 .. Len(routes)
  BY <1>1
<1>5. ASSUME NEW n \in 1 .. Len(routes) - 1
      PROVE  \E m \in 1 .. Len(routes) : routes'[n] = routes[m]
  <2>1. CASE n < k
    BY <1>2, <1>4, <2>1
  <2>2. CASE ~(n < k)
    BY <1>2, <1>4, <2>2
  <2>. QED
    BY <2>1, <2>2
<1>. QED
  BY <1>1, <1>2, <1>3, <1>5

\* Until the counter wraps, identifiers are unique among the entries that are
\* left, too.
LEMMA ErasureKeepsIdsApart ==
  ASSUME TypeOK, IdsNeverShared, NotWrapped, UNCHANGED <<pc, id, registrations>>,
         NEW k \in 1 .. Len(routes), routes' = RemoveAt(routes, k)
  PROVE  /\ IdsNeverShared'
         /\ \A n \in 1 .. Len(routes') : routes'[n].Id # routes[k].Id
<1>. DEFINE from(n) == IF n < k THEN n ELSE n + 1
<1>1. \A n \in 1 .. Len(routes') : /\ from(n) \in 1 .. Len(routes) /\ from(n) # k
                                   /\ routes'[n] = routes[from(n)]
  BY ErasureKeepsEntries
<1>2. \A m, n \in 1 .. Len(routes') : from(m) = from(n) => m = n
  BY ErasureKeepsEntries
<1>. HIDE DEF from
<1>3. \A m, n \in 1 .. Len(routes) : routes[m].Id = routes[n].Id => m = n
  BY DEF IdsNeverShared, NotWrapped
<1>4. \A m, n \in 1 .. Len(routes') : routes'[m].Id = routes'[n].Id => m = n
  BY <1>1, <1>2, <1>3
<1>5. \A n \in 1 .. Len(routes') : routes'[n].Id # routes[k].Id
  BY <1>1, <1>3
<1>6. ASSUME NEW t \in Threads, pc'[t] = "registering", NEW n \in 1 .. Len(routes')
      PROVE  routes'[n].Id # id'[t]
  BY <1>1, <1>6 DEF IdsNeverShared, NotWrapped
<1>. QED
  BY <1>4, <1>5, <1>6 DEF IdsNeverShared, NotWrapped

LEMMA UnregisterInvariant ==
  ASSUME IInv, NEW i \in KnownIds, Unregister(i)
  PROVE  IInv'
<1>0. TypeOK /\ registrations \in Nat
  BY DEF IInv
<1>1. /\ live' = live \ {i}
      /\ UNCHANGED <<nextId, owned, pc, id, held, cursor, late, assigned, registrations>>
      /\ \A s \in Threads : ~HoldsMutex(s) /\ ~HoldsMutex(s)'
  BY DEF Unregister, callerVars, MutexIsFree, HoldsMutex
<1>2. \/ routes' = routes /\ \A n \in 1 .. Len(routes) : routes[n].Id # i
      \/ \E k \in 1 .. Len(routes) : routes[k].Id = i /\ routes' = RemoveAt(routes, k)
  <2>. DEFINE I == {n \in 1 .. Len(routes) : routes[n].Id = i}
  <2>1. routes' = IF \E n \in 1 .. Len(routes) : routes[n].Id = i
                  THEN RemoveAt(routes, IF I # {} THEN Min(I) ELSE 0) ELSE routes
    BY DEF Unregister, WithoutId, RemoveFirstMatch, SelectInSeq
  <2>2. CASE I = {}
    BY <2>1, <2>2
  <2>3. CASE I # {}
    <3>1. I \in SUBSET Nat
      BY <1>0, LenProperties DEF TypeOK
    <3>2. Min(I) \in I
      BY <3>1, <2>3, MinOfNaturals
    <3>3. routes' = RemoveAt(routes, Min(I))
      BY <2>1, <2>3
    <3>. HIDE DEF I
    <3>4. \A k \in I : k \in 1 .. Len(routes) /\ routes[k].Id = i
      BY DEF I
    <3>. QED
      BY <3>2, <3>3, <3>4
  <2>. QED
    BY <2>2, <2>3
<1>3. /\ routes' \in Seq(Entry)
      /\ \A n \in 1 .. Len(routes') : \E m \in 1 .. Len(routes) : routes'[n] = routes[m]
      /\ \A entry \in ToSet(routes) : entry.Id # i => entry \in ToSet(routes')
  <2>1. CASE routes' = routes
    BY <1>0, <2>1 DEF TypeOK
  <2>2. CASE \E k \in 1 .. Len(routes) : routes[k].Id = i /\ routes' = RemoveAt(routes, k)
    BY <1>0, <2>2, ErasureKeepsEntries
  <2>. QED
    BY <1>2, <2>1, <2>2
<1>4. TypeOK' /\ registrations' \in Nat
  BY <1>0, <1>1, <1>3 DEF TypeOK, HoldsMutex
<1>5. OneWalker'
  BY <1>1 DEF OneWalker
<1>6. EntriesAssigned'
  BY <1>1, <1>3 DEF IInv, EntriesAssigned, HoldsMutex
<1>7. NothingOverlooked'
  BY <1>1 DEF NothingOverlooked, HoldsMutex
<1>8. NeverMisrouted'
  BY <1>1 DEF IInv, NeverMisrouted
<1>9. ASSUME NotWrapped'
      PROVE  /\ CounterAhead' /\ EntriesLive' /\ IdsNeverShared'
             /\ LiveRoutesKept' /\ UnregisteredStaysSilent'
  <2>1. /\ NotWrapped /\ CounterAhead /\ EntriesLive /\ IdsNeverShared
        /\ LiveRoutesKept /\ UnregisteredStaysSilent
    BY <1>1, <1>9 DEF IInv, NotWrapped
  <2>2. CounterAhead' /\ UnregisteredStaysSilent'
    BY <1>1, <2>1 DEF CounterAhead, UnregisteredStaysSilent
  <2>3. /\ IdsNeverShared'
        /\ \A n \in 1 .. Len(routes') : routes'[n].Id # i
    <3>1. CASE routes' = routes /\ \A n \in 1 .. Len(routes) : routes[n].Id # i
      BY <1>1, <2>1, <3>1 DEF IdsNeverShared
    <3>2. CASE \E k \in 1 .. Len(routes) : routes[k].Id = i /\ routes' = RemoveAt(routes, k)
      BY <1>0, <1>1, <2>1, <3>2, ErasureKeepsIdsApart
    <3>. QED
      BY <1>2, <3>1, <3>2
  <2>4. EntriesLive'
    BY <1>1, <1>3, <2>1, <2>3 DEF EntriesLive
  <2>5. LiveRoutesKept'
    <3>. SUFFICES ASSUME NEW pair \in assigned, pair[1] \in live, pair[1] # i,
                         IsAlive(pair[2])
                  PROVE  [Id |-> pair[1], Route |-> pair[2]] \in ToSet(routes')
      BY <1>1 DEF LiveRoutesKept, IsAlive
    <3>1. [Id |-> pair[1], Route |-> pair[2]] \in ToSet(routes)
      BY <2>1 DEF LiveRoutesKept
    <3>. QED
      BY <1>3, <3>1
  <2>. QED
    BY <2>2, <2>3, <2>4, <2>5
<1>. QED
  BY <1>4, <1>5, <1>6, <1>7, <1>8, <1>9 DEF IInv

LEMMA RouteBeginInvariant ==
  ASSUME IInv, NEW t \in Threads, NEW i \in KnownIds, RouteBegin(t, i)
  PROVE  IInv'
<1>0. TypeOK /\ registrations \in Nat
  BY DEF IInv
<1>1. /\ pc' = [pc EXCEPT ![t] = "scanning"] /\ pc[t] = "idle"
      /\ id' = [id EXCEPT ![t] = i]
      /\ cursor' = [cursor EXCEPT ![t] = 1]
      /\ late' = [late EXCEPT ![t] = i \notin live]
      /\ UNCHANGED <<routes, nextId, owned, held, assigned, live, registrations>>
      /\ \A s \in Threads : ~HoldsMutex(s)
  BY DEF RouteBegin, MutexIsFree, HoldsMutex
<1>2. \A s \in Threads : s # t =>
        /\ pc'[s] = pc[s] /\ id'[s] = id[s]
        /\ cursor'[s] = cursor[s] /\ late'[s] = late[s]
  BY <1>0, <1>1 DEF TypeOK
<1>3. /\ pc'[t] = "scanning" /\ id'[t] = i /\ cursor'[t] = 1
      /\ late'[t] = (i \notin live)
  BY <1>0, <1>1 DEF TypeOK
<1>4. TypeOK' /\ registrations' \in Nat
  <2>1. i \in Ids
    BY <1>0 DEF KnownIds, TypeOK
  <2>2. \A s \in Threads :
          /\ pc'[s] = "scanning" => cursor'[s] \in 1 .. Len(routes) + 1
          /\ pc'[s] = "locking" => cursor'[s] \in 1 .. Len(routes)
    <3>1. Len(routes) \in Nat
      BY <1>0, LenProperties DEF TypeOK
    <3>. QED
      BY <1>1, <1>2, <1>3, <3>1 DEF HoldsMutex
  <2>3. /\ pc' \in [Threads -> Phases] /\ id' \in [Threads -> Ids]
        /\ cursor' \in [Threads -> Nat] /\ late' \in [Threads -> BOOLEAN]
    BY <1>0, <1>1, <2>1 DEF TypeOK, Phases
  <2>. QED
    BY <1>0, <1>1, <2>2, <2>3 DEF TypeOK
<1>5. OneWalker'
  BY <1>1, <1>2 DEF OneWalker, HoldsMutex
<1>6. EntriesAssigned'
  BY <1>1, <1>2, <1>3 DEF IInv, EntriesAssigned
<1>7. NothingOverlooked'
  <2>1. DOMAIN routes = 1 .. Len(routes)
    BY <1>0, LenProperties DEF TypeOK
  <2>2. \A s \in Threads : pc'[s] = "scanning" => s = t
    BY <1>1, <1>2 DEF HoldsMutex
  <2>. QED
    BY <1>1, <1>3, <2>1, <2>2 DEF NothingOverlooked
<1>8. NeverMisrouted'
  BY <1>1, <1>2, <1>3 DEF IInv, NeverMisrouted
<1>9. ASSUME NotWrapped'
      PROVE  /\ CounterAhead' /\ EntriesLive' /\ IdsNeverShared'
             /\ LiveRoutesKept' /\ UnregisteredStaysSilent'
  <2>1. /\ NotWrapped /\ CounterAhead /\ EntriesLive /\ IdsNeverShared
        /\ LiveRoutesKept /\ UnregisteredStaysSilent
    BY <1>1, <1>9 DEF IInv, NotWrapped
  <2>2. \A s \in Threads : pc'[s] = "registering" =>
          s # t /\ pc[s] = "registering" /\ id'[s] = id[s]
    BY <1>2, <1>3
  <2>3. CounterAhead'
    BY <1>1, <2>1, <2>2 DEF CounterAhead
  <2>4. EntriesLive'
    <3>1. \A s \in Threads : HoldsMutex(s)' => s = t
      BY <1>1, <1>2 DEF HoldsMutex
    <3>2. late'[t] => i \notin live
      BY <1>3
    <3>3. \A n \in 1 .. Len(routes) : /\ routes[n].Id \in live
                                      /\ late'[t] => routes[n].Id # i
      BY <2>1, <3>2 DEF EntriesLive
    <3>4. ASSUME NEW s \in Threads, HoldsMutex(s)', late'[s], NEW n \in 1 .. Len(routes)
          PROVE  routes[n].Id # id'[s]
      BY <1>3, <3>1, <3>3, <3>4
    <3>. QED
      BY <1>1, <3>3, <3>4 DEF EntriesLive
  <2>5. IdsNeverShared'
    BY <1>1, <2>1, <2>2 DEF IdsNeverShared
  <2>6. LiveRoutesKept'
    BY <1>1, <2>1 DEF LiveRoutesKept, IsAlive
  <2>7. UnregisteredStaysSilent'
    BY <1>2, <1>3, <2>1 DEF UnregisteredStaysSilent
  <2>. QED
    BY <2>1, <2>3, <2>4, <2>5, <2>6, <2>7
<1>. QED
  BY <1>4, <1>5, <1>6, <1>7, <1>8, <1>9 DEF IInv

\* A step of the thread that walks: nobody else holds the mutex.
LEMMA ScanPruneInvariant ==
  ASSUME IInv, NEW t \in Threads, ScanPrune(t)
  PROVE  IInv'
<1>. DEFINE k == cursor[t]
<1>0. TypeOK /\ registrations \in Nat
  BY DEF IInv
<1>1. /\ pc[t] = "scanning" /\ k \in 1 .. Len(routes) /\ k \in Nat
      /\ Expired(routes[k])
      /\ routes' = RemoveAt(routes, k)
      /\ cursor' = cursor
      /\ UNCHANGED <<nextId, owned, pc, id, held, late, assigned, live, registrations>>
  <2>1. cursor' = cursor
    BY <1>0 DEF ScanPrune, AfterErase, TypeOK
  <2>2. /\ pc[t] = "scanning" /\ k <= Len(routes)
        /\ k \in 1 .. Len(routes) + 1 /\ Len(routes) \in Nat
    BY <1>0, LenProperties DEF ScanPrune, Visiting, TypeOK
  <2>. QED
    BY <2>1, <2>2 DEF ScanPrune
<1>. HIDE DEF k
<1>2. \A s \in Threads : HoldsMutex(s) => s = t
  BY <1>1 DEF IInv, OneWalker, HoldsMutex
<1>3. /\ routes' \in Seq(Entry)
      /\ Len(routes') = Len(routes) - 1 /\ Len(routes) \in Nat
      /\ \A n \in 1 .. Len(routes') :
           routes'[n] = IF n < k THEN routes[n] ELSE routes[n + 1]
      /\ \A n \in 1 .. Len(routes') : \E m \in 1 .. Len(routes) : routes'[n] = routes[m]
      /\ \A entry \in ToSet(routes) : entry # routes[k] => entry \in ToSet(routes')
  BY <1>0, <1>1, ErasureKeepsEntries
<1>4. TypeOK' /\ registrations' \in Nat
  <2>1. \A s \in Threads :
          /\ pc'[s] = "scanning" => cursor'[s] \in 1 .. Len(routes') + 1
          /\ pc'[s] = "locking" => cursor'[s] \in 1 .. Len(routes')
    BY <1>1, <1>2, <1>3 DEF HoldsMutex, k
  <2>. QED
    BY <1>0, <1>1, <1>3, <2>1 DEF TypeOK
<1>5. OneWalker'
  BY <1>1 DEF IInv, OneWalker, HoldsMutex
<1>6. EntriesAssigned'
  <2>1. \A s \in Threads : pc[s] # "locking"
    BY <1>1, <1>2 DEF HoldsMutex
  <2>. QED
    BY <1>1, <1>3, <2>1 DEF IInv, EntriesAssigned
<1>7. NothingOverlooked'
  <2>. SUFFICES ASSUME NEW n \in 1 .. Len(routes'), n < k
                PROVE  routes'[n].Id # id[t]
    <3>1. DOMAIN routes' = 1 .. Len(routes')
      BY <1>3, LenProperties
    <3>2. \A s \in Threads : pc'[s] = "scanning" => s = t
      BY <1>1, <1>2 DEF HoldsMutex
    <3>. QED
      BY <1>1, <3>1, <3>2 DEF NothingOverlooked, k
  <2>1. routes'[n] = routes[n] /\ n \in 1 .. Len(routes)
    BY <1>3
  <2>2. 1 .. Len(routes) = DOMAIN routes
    BY <1>0, LenProperties DEF TypeOK
  <2>. QED
    BY <1>1, <2>1, <2>2 DEF IInv, NothingOverlooked, k
<1>8. NeverMisrouted'
  BY <1>1 DEF IInv, NeverMisrouted
<1>9. ASSUME NotWrapped'
      PROVE  /\ CounterAhead' /\ EntriesLive' /\ IdsNeverShared'
             /\ LiveRoutesKept' /\ UnregisteredStaysSilent'
  <2>1. /\ NotWrapped /\ CounterAhead /\ EntriesLive /\ IdsNeverShared
        /\ LiveRoutesKept /\ UnregisteredStaysSilent
    BY <1>1, <1>9 DEF IInv, NotWrapped
  <2>2. CounterAhead' /\ UnregisteredStaysSilent'
    BY <1>1, <2>1 DEF CounterAhead, UnregisteredStaysSilent
  <2>3. IdsNeverShared'
    BY <1>0, <1>1, <2>1, ErasureKeepsIdsApart
  <2>4. EntriesLive'
    <3>1. \A n \in 1 .. Len(routes) : /\ routes[n].Id \in live
                                      /\ late[t] => routes[n].Id # id[t]
      BY <1>1, <2>1 DEF EntriesLive, HoldsMutex
    <3>2. \A n \in 1 .. Len(routes') : /\ routes'[n].Id \in live
                                       /\ late[t] => routes'[n].Id # id[t]
      BY <1>3, <3>1
    <3>. QED
      <4>1. \A s \in Threads : HoldsMutex(s)' => s = t
        BY <1>1, <1>2 DEF HoldsMutex
      <4>2. ASSUME NEW s \in Threads, HoldsMutex(s)', late'[s], NEW n \in 1 .. Len(routes')
            PROVE  routes'[n].Id # id'[s]
        BY <1>1, <3>2, <4>1, <4>2
      <4>. QED
        BY <1>1, <3>2, <4>2 DEF EntriesLive
  <2>5. LiveRoutesKept'
    <3>. SUFFICES ASSUME NEW pair \in assigned, pair[1] \in live, IsAlive(pair[2])
                  PROVE  [Id |-> pair[1], Route |-> pair[2]] \in ToSet(routes')
      BY <1>1 DEF LiveRoutesKept, IsAlive
    <3>1. [Id |-> pair[1], Route |-> pair[2]] \in ToSet(routes)
      BY <2>1 DEF LiveRoutesKept
    <3>2. [Id |-> pair[1], Route |-> pair[2]] # routes[k]
      BY <1>1 DEF Expired
    <3>. QED
      BY <1>3, <3>1, <3>2
  <2>. QED
    BY <2>2, <2>3, <2>4, <2>5
<1>. QED
  BY <1>4, <1>5, <1>6, <1>7, <1>8, <1>9 DEF IInv

\* What a thread does that leaves the table, the counter and the history alone
\* leaves alone what is said of them.
LEMMA QuietStep ==
  ASSUME IInv, TypeOK', NotWrapped',
         UNCHANGED <<routes, nextId, assigned, live, registrations>>,
         \A s \in Threads : pc'[s] = "registering" =>
           pc[s] = "registering" /\ id'[s] = id[s],
         \A transport \in Transports : IsAlive(transport)' => IsAlive(transport)
  PROVE  CounterAhead' /\ IdsNeverShared' /\ LiveRoutesKept'
<1>1. NotWrapped /\ CounterAhead /\ IdsNeverShared /\ LiveRoutesKept
  BY DEF IInv, NotWrapped
<1>2. \A pair \in assigned : pair[2] \in Transports
  BY DEF IInv, TypeOK
<1>3. CounterAhead'
  BY <1>1 DEF CounterAhead
<1>4. IdsNeverShared'
  BY <1>1 DEF IdsNeverShared
<1>5. LiveRoutesKept'
  BY <1>1, <1>2 DEF LiveRoutesKept
<1>. QED
  BY <1>3, <1>4, <1>5

LEMMA ScanMatchInvariant ==
  ASSUME IInv, NEW t \in Threads, ScanMatch(t)
  PROVE  IInv'
<1>0. TypeOK /\ registrations \in Nat
  BY DEF IInv
<1>1. /\ pc' = [pc EXCEPT ![t] = "locking"] /\ pc[t] = "scanning"
      /\ cursor[t] \in 1 .. Len(routes) /\ routes[cursor[t]].Id = id[t]
      /\ UNCHANGED <<routes, nextId, owned, id, held, cursor, late, assigned, live,
                     registrations>>
  <2>1. cursor[t] \in 1 .. Len(routes) + 1 /\ cursor[t] <= Len(routes) /\ Len(routes) \in Nat
    BY <1>0, LenProperties DEF ScanMatch, Visiting, TypeOK
  <2>. QED
    BY <2>1 DEF ScanMatch, Visiting
<1>2. pc'[t] = "locking" /\ \A s \in Threads : s # t => pc'[s] = pc[s]
  BY <1>0, <1>1 DEF TypeOK
<1>3. TypeOK' /\ registrations' \in Nat
  <2>1. pc' \in [Threads -> Phases]
    BY <1>0, <1>1 DEF TypeOK, Phases
  <2>. QED
    BY <1>0, <1>1, <1>2, <2>1 DEF TypeOK
<1>4. OneWalker' /\ \A s \in Threads : HoldsMutex(s)' => HoldsMutex(s)
  BY <1>1, <1>2 DEF IInv, OneWalker, HoldsMutex
<1>5. EntriesAssigned'
  BY <1>1, <1>2 DEF IInv, EntriesAssigned
<1>6. NothingOverlooked'
  BY <1>1, <1>2 DEF IInv, NothingOverlooked
<1>7. NeverMisrouted'
  BY <1>1, <1>2 DEF IInv, NeverMisrouted
<1>8. ASSUME NotWrapped'
      PROVE  /\ CounterAhead' /\ EntriesLive' /\ IdsNeverShared'
             /\ LiveRoutesKept' /\ UnregisteredStaysSilent'
  <2>1. NotWrapped
    BY <1>1, <1>8 DEF NotWrapped
  <2>2. CounterAhead' /\ IdsNeverShared' /\ LiveRoutesKept'
    BY <1>1, <1>2, <1>3, <1>8, QuietStep DEF IsAlive
  <2>3. EntriesLive'
    BY <1>1, <1>4, <2>1 DEF IInv, EntriesLive
  <2>4. UnregisteredStaysSilent'
    BY <1>1, <1>2, <2>1 DEF IInv, UnregisteredStaysSilent
  <2>. QED
    BY <2>2, <2>3, <2>4
<1>. QED
  BY <1>3, <1>4, <1>5, <1>6, <1>7, <1>8 DEF IInv

LEMMA ScanNextInvariant ==
  ASSUME IInv, NEW t \in Threads, ScanNext(t)
  PROVE  IInv'
<1>0. TypeOK /\ registrations \in Nat
  BY DEF IInv
<1>1. /\ cursor' = [cursor EXCEPT ![t] = cursor[t] + 1] /\ pc[t] = "scanning"
      /\ cursor[t] \in 1 .. Len(routes) /\ routes[cursor[t]].Id # id[t]
      /\ Len(routes) \in Nat
      /\ UNCHANGED <<routes, nextId, owned, pc, id, held, late, assigned, live,
                     registrations>>
  <2>1. cursor[t] \in 1 .. Len(routes) + 1 /\ cursor[t] <= Len(routes) /\ Len(routes) \in Nat
    BY <1>0, LenProperties DEF ScanNext, Visiting, TypeOK
  <2>. QED
    BY <2>1 DEF ScanNext, Visiting, AfterMismatch
<1>2. /\ cursor'[t] = cursor[t] + 1 /\ cursor'[t] \in 1 .. Len(routes) + 1
      /\ \A s \in Threads : s # t => cursor'[s] = cursor[s]
  BY <1>0, <1>1 DEF TypeOK
<1>3. TypeOK' /\ registrations' \in Nat
  <2>1. cursor' \in [Threads -> Nat]
    BY <1>0, <1>1 DEF TypeOK
  <2>2. \A s \in Threads :
          /\ pc'[s] = "scanning" => cursor'[s] \in 1 .. Len(routes) + 1
          /\ pc'[s] = "locking" => cursor'[s] \in 1 .. Len(routes)
    BY <1>0, <1>1, <1>2 DEF TypeOK
  <2>. QED
    BY <1>0, <1>1, <2>1, <2>2 DEF TypeOK
<1>4. OneWalker'
  BY <1>1 DEF IInv, OneWalker, HoldsMutex
<1>5. EntriesAssigned'
  BY <1>1, <1>2 DEF IInv, EntriesAssigned
<1>6. NothingOverlooked'
  <2>. SUFFICES ASSUME NEW s \in Threads, pc[s] = "scanning",
                       NEW n \in 1 .. Len(routes), n < cursor'[s]
                PROVE  routes[n].Id # id[s]
    <3>1. DOMAIN routes = 1 .. Len(routes)
      BY <1>0, LenProperties DEF TypeOK
    <3>. QED
      BY <1>1, <3>1 DEF NothingOverlooked
  <2>1. \A m \in 1 .. Len(routes) : m < cursor[s] => routes[m].Id # id[s]
    <3>1. DOMAIN routes = 1 .. Len(routes)
      BY <1>0, LenProperties DEF TypeOK
    <3>. QED
      BY <3>1 DEF IInv, NothingOverlooked
  <2>2. CASE s # t
    BY <1>2, <2>1, <2>2
  <2>3. CASE s = t
    <3>1. n < cursor[t] \/ n = cursor[t]
      BY <1>1, <1>2, <2>3
    <3>. QED
      BY <1>1, <2>1, <2>3, <3>1
  <2>. QED
    BY <2>2, <2>3
<1>7. NeverMisrouted'
  BY <1>1 DEF IInv, NeverMisrouted
<1>8. ASSUME NotWrapped'
      PROVE  /\ CounterAhead' /\ EntriesLive' /\ IdsNeverShared'
             /\ LiveRoutesKept' /\ UnregisteredStaysSilent'
  <2>1. NotWrapped
    BY <1>1, <1>8 DEF NotWrapped
  <2>2. CounterAhead' /\ IdsNeverShared' /\ LiveRoutesKept'
    BY <1>1, <1>3, <1>8, QuietStep DEF IsAlive
  <2>3. EntriesLive'
    BY <1>1, <2>1 DEF IInv, EntriesLive, HoldsMutex
  <2>4. UnregisteredStaysSilent'
    BY <1>1, <2>1 DEF IInv, UnregisteredStaysSilent
  <2>. QED
    BY <2>2, <2>3, <2>4
<1>. QED
  BY <1>3, <1>4, <1>5, <1>6, <1>7, <1>8 DEF IInv

LEMMA ScanEndInvariant ==
  ASSUME IInv, NEW t \in Threads, ScanEnd(t)
  PROVE  IInv'
<1>0. TypeOK /\ registrations \in Nat
  BY DEF IInv
<1>1. /\ pc' = [pc EXCEPT ![t] = "idle"]
      /\ UNCHANGED <<routes, nextId, owned, id, held, cursor, late, assigned, live,
                     registrations>>
  BY DEF ScanEnd
<1>2. pc'[t] = "idle" /\ \A s \in Threads : s # t => pc'[s] = pc[s]
  BY <1>0, <1>1 DEF TypeOK
<1>3. TypeOK' /\ registrations' \in Nat
  <2>1. pc' \in [Threads -> Phases]
    BY <1>0, <1>1 DEF TypeOK, Phases
  <2>. QED
    BY <1>0, <1>1, <1>2, <2>1 DEF TypeOK
<1>4. OneWalker' /\ \A s \in Threads : HoldsMutex(s)' => HoldsMutex(s)
  BY <1>1, <1>2 DEF IInv, OneWalker, HoldsMutex
<1>5. EntriesAssigned'
  BY <1>1, <1>2 DEF IInv, EntriesAssigned
<1>6. NothingOverlooked' /\ NeverMisrouted'
  BY <1>1, <1>2 DEF IInv, NothingOverlooked, NeverMisrouted
<1>7. ASSUME NotWrapped'
      PROVE  /\ CounterAhead' /\ EntriesLive' /\ IdsNeverShared'
             /\ LiveRoutesKept' /\ UnregisteredStaysSilent'
  <2>1. NotWrapped
    BY <1>1, <1>7 DEF NotWrapped
  <2>2. CounterAhead' /\ IdsNeverShared' /\ LiveRoutesKept'
    BY <1>1, <1>2, <1>3, <1>7, QuietStep DEF IsAlive
  <2>3. EntriesLive' /\ UnregisteredStaysSilent'
    BY <1>1, <1>2, <1>4, <2>1 DEF IInv, EntriesLive, UnregisteredStaysSilent
  <2>. QED
    BY <2>2, <2>3
<1>. QED
  BY <1>3, <1>4, <1>5, <1>6, <1>7 DEF IInv

\* The entry at the iterator is the one the walk stopped at, so the transport
\* that is locked is one the identifier was assigned to, and alive before.
LEMMA ResolveLockInvariant ==
  ASSUME IInv, NEW t \in Threads, ResolveLock(t)
  PROVE  IInv'
<1>. DEFINE found == routes[cursor[t]]
<1>0. TypeOK /\ registrations \in Nat
  BY DEF IInv
<1>1. /\ pc[t] = "locking"
      /\ UNCHANGED <<routes, nextId, owned, id, cursor, late, assigned, live,
                     registrations>>
      /\ \/ /\ pc' = [pc EXCEPT ![t] = "idle"]
            /\ held' = held
         \/ /\ pc' = [pc EXCEPT ![t] = "sending"]
            /\ held' = [held EXCEPT ![t] = found.Route]
            /\ IsAlive(found.Route)
  BY DEF ResolveLock, Expired
<1>2. /\ cursor[t] \in 1 .. Len(routes)
      /\ found.Id = id[t]
      /\ <<id[t], found.Route>> \in assigned
      /\ found.Route \in Transports
  BY <1>0, <1>1 DEF IInv, TypeOK, EntriesAssigned
<1>. HIDE DEF found
<1>3. /\ pc'[t] \in {"idle", "sending"}
      /\ pc'[t] = "sending" => held'[t] = found.Route
      /\ \A s \in Threads : s # t => pc'[s] = pc[s] /\ held'[s] = held[s]
  BY <1>0, <1>1 DEF TypeOK
<1>4. TypeOK' /\ registrations' \in Nat
  <2>1. pc' \in [Threads -> Phases] /\ held' \in [Threads -> Transports \cup {NoTransport}]
    BY <1>0, <1>1, <1>2 DEF TypeOK, Phases
  <2>. QED
    BY <1>0, <1>1, <1>3, <2>1 DEF TypeOK
<1>5. OneWalker' /\ \A s \in Threads : HoldsMutex(s)' => HoldsMutex(s)
  BY <1>3 DEF IInv, OneWalker, HoldsMutex
<1>6. EntriesAssigned'
  BY <1>1, <1>3 DEF IInv, EntriesAssigned
<1>7. NothingOverlooked'
  BY <1>1, <1>3 DEF IInv, NothingOverlooked
<1>8. NeverMisrouted'
  BY <1>1, <1>2, <1>3 DEF IInv, NeverMisrouted
<1>9. ASSUME NotWrapped'
      PROVE  /\ CounterAhead' /\ EntriesLive' /\ IdsNeverShared'
             /\ LiveRoutesKept' /\ UnregisteredStaysSilent'
  <2>1. NotWrapped
    BY <1>1, <1>9 DEF NotWrapped
  <2>2. \A transport \in Transports : IsAlive(transport)' => IsAlive(transport)
    <3>. SUFFICES ASSUME NEW transport \in Transports, IsAlive(transport)'
                  PROVE  IsAlive(transport)
      OBVIOUS
    <3>1. CASE transport \in owned
      BY <3>1 DEF IsAlive
    <3>2. CASE \E s \in Threads : held'[s] = transport
      BY <1>0, <1>1, <3>2 DEF IsAlive, TypeOK
    <3>. QED
      BY <1>1, <3>1, <3>2 DEF IsAlive
  <2>3. CounterAhead' /\ IdsNeverShared' /\ LiveRoutesKept'
    BY <1>1, <1>3, <1>4, <1>9, <2>2, QuietStep
  <2>4. EntriesLive'
    BY <1>1, <1>5, <2>1 DEF IInv, EntriesLive
  <2>5. UnregisteredStaysSilent'
    <3>1. late[t] => FALSE
      BY <1>1, <1>2, <2>1 DEF IInv, EntriesLive, HoldsMutex, found
    <3>. QED
      BY <1>1, <1>3, <2>1, <3>1 DEF IInv, UnregisteredStaysSilent
  <2>. QED
    BY <2>3, <2>4, <2>5
<1>. QED
  BY <1>4, <1>5, <1>6, <1>7, <1>8, <1>9 DEF IInv

LEMMA SendReturnInvariant ==
  ASSUME IInv, NEW t \in Threads, SendReturn(t)
  PROVE  IInv'
<1>0. TypeOK /\ registrations \in Nat
  BY DEF IInv
<1>1. /\ pc' = [pc EXCEPT ![t] = "idle"]
      /\ held' = [held EXCEPT ![t] = NoTransport]
      /\ UNCHANGED <<routes, nextId, owned, id, cursor, late, assigned, live,
                     registrations>>
  BY DEF SendReturn
<1>2. /\ pc'[t] = "idle" /\ held'[t] = NoTransport
      /\ \A s \in Threads : s # t => pc'[s] = pc[s] /\ held'[s] = held[s]
  BY <1>0, <1>1 DEF TypeOK
<1>3. TypeOK' /\ registrations' \in Nat
  <2>1. pc' \in [Threads -> Phases] /\ held' \in [Threads -> Transports \cup {NoTransport}]
    BY <1>0, <1>1 DEF TypeOK, Phases
  <2>. QED
    BY <1>0, <1>1, <1>2, <2>1 DEF TypeOK
<1>4. OneWalker' /\ \A s \in Threads : HoldsMutex(s)' => HoldsMutex(s)
  BY <1>1, <1>2 DEF IInv, OneWalker, HoldsMutex
<1>5. EntriesAssigned'
  BY <1>1, <1>2 DEF IInv, EntriesAssigned
<1>6. NothingOverlooked' /\ NeverMisrouted'
  BY <1>1, <1>2 DEF IInv, NothingOverlooked, NeverMisrouted
<1>7. ASSUME NotWrapped'
      PROVE  /\ CounterAhead' /\ EntriesLive' /\ IdsNeverShared'
             /\ LiveRoutesKept' /\ UnregisteredStaysSilent'
  <2>1. NotWrapped
    BY <1>1, <1>7 DEF NotWrapped
  <2>2. \A transport \in Transports : IsAlive(transport)' => IsAlive(transport)
    BY <1>1, <1>2, RouteAssumption DEF IsAlive
  <2>3. CounterAhead' /\ IdsNeverShared' /\ LiveRoutesKept'
    BY <1>1, <1>2, <1>3, <1>7, <2>2, QuietStep
  <2>4. EntriesLive' /\ UnregisteredStaysSilent'
    BY <1>1, <1>2, <1>4, <2>1 DEF IInv, EntriesLive, UnregisteredStaysSilent
  <2>. QED
    BY <2>3, <2>4
<1>. QED
  BY <1>3, <1>4, <1>5, <1>6, <1>7 DEF IInv

LEMMA DropOwnerInvariant ==
  ASSUME IInv, NEW transport \in Transports, DropOwner(transport)
  PROVE  IInv'
<1>1. /\ owned' = owned \ {transport}
      /\ UNCHANGED <<routes, nextId, pc, id, held, cursor, late, assigned, live,
                     registrations>>
  BY DEF DropOwner, callerVars
<1>2. TypeOK' /\ registrations' \in Nat
  BY <1>1 DEF IInv, TypeOK
<1>3. OneWalker' /\ EntriesAssigned' /\ NothingOverlooked' /\ NeverMisrouted'
  BY <1>1 DEF IInv, OneWalker, EntriesAssigned, NothingOverlooked, NeverMisrouted,
              HoldsMutex
<1>4. ASSUME NotWrapped'
      PROVE  /\ CounterAhead' /\ EntriesLive' /\ IdsNeverShared'
             /\ LiveRoutesKept' /\ UnregisteredStaysSilent'
  <2>1. NotWrapped
    BY <1>1, <1>4 DEF NotWrapped
  <2>2. \A other \in Transports : IsAlive(other)' => IsAlive(other)
    BY <1>1 DEF IsAlive
  <2>3. CounterAhead' /\ IdsNeverShared' /\ LiveRoutesKept'
    BY <1>1, <1>2, <1>4, <2>2, QuietStep
  <2>4. EntriesLive' /\ UnregisteredStaysSilent'
    BY <1>1, <2>1 DEF IInv, EntriesLive, UnregisteredStaysSilent, HoldsMutex
  <2>. QED
    BY <2>3, <2>4
<1>. QED
  BY <1>2, <1>3, <1>4 DEF IInv

-----------------------------------------------------------------------------
LEMMA NextInvariant == IInv /\ [Next]_vars => IInv'
<1>. SUFFICES ASSUME IInv, [Next]_vars PROVE IInv'
  OBVIOUS
<1>1. ASSUME NEW t \in Threads, NEW transport \in Transports,
             RegisterTakeId(t, transport)
      PROVE  IInv'
  BY <1>1, RegisterTakeIdInvariant
<1>2. ASSUME NEW t \in Threads, RegisterStore(t) PROVE IInv'
  BY <1>2, RegisterStoreInvariant
<1>3. ASSUME NEW t \in Threads, NEW i \in KnownIds, RouteBegin(t, i) PROVE IInv'
  BY <1>3, RouteBeginInvariant
<1>4. ASSUME NEW t \in Threads, Walk(t) PROVE IInv'
  BY <1>4, ScanPruneInvariant, ScanMatchInvariant, ScanNextInvariant,
     ScanEndInvariant DEF Walk
<1>5. ASSUME NEW t \in Threads, ResolveLock(t) PROVE IInv'
  BY <1>5, ResolveLockInvariant
<1>6. ASSUME NEW t \in Threads, SendReturn(t) PROVE IInv'
  BY <1>6, SendReturnInvariant
<1>7. ASSUME NEW i \in KnownIds, Unregister(i) PROVE IInv'
  BY <1>7, UnregisterInvariant
<1>8. ASSUME NEW transport \in Transports, DropOwner(transport) PROVE IInv'
  BY <1>8, DropOwnerInvariant
<1>9. CASE UNCHANGED vars
  BY <1>9
     DEF vars, IInv, TypeOK, OneWalker, EntriesAssigned, NothingOverlooked,
         NeverMisrouted, NotWrapped, CounterAhead, EntriesLive, IdsNeverShared,
         LiveRoutesKept, UnregisteredStaysSilent, HoldsMutex, IsAlive
<1>. QED
  BY <1>1, <1>2, <1>3, <1>4, <1>5, <1>6, <1>7, <1>8, <1>9 DEF Next

\* The inductive invariant holds in every state the registry reaches.
THEOREM InvariantHolds == Spec => []IInv
BY InitInvariant, NextInvariant, PTL DEF Spec

\* Every variable keeps its type, and an iterator of a walk stays inside the
\* table or right behind it, whatever registrations come and go.
THEOREM TypeCorrect == Spec => []TypeOK
<1>. IInv => TypeOK
  BY DEF IInv
<1>. QED
  BY InvariantHolds, PTL

\* Two registrations never get the same identifier before the counter wraps, at
\* any interleaving of the unlocked counter with the locked table.
THEOREM IdsAreUnique == Spec => []IdsNeverShared
<1>. IInv => IdsNeverShared
  BY DEF IInv, IdsNeverShared, NotWrapped
<1>. QED
  BY InvariantHolds, PTL

\* Resolve's walk, which erases while it goes, passes no entry that matches.
THEOREM WalkIsComplete == Spec => []NothingOverlooked
<1>. IInv => NothingOverlooked
  BY DEF IInv
<1>. QED
  BY InvariantHolds, PTL

\* A response reaches only a transport its route identifier was assigned to;
\* this needs no bound on the registrations.
THEOREM ResponsesStayOnRoute == Spec => []NeverMisrouted
<1>. IInv => NeverMisrouted
  BY DEF IInv
<1>. QED
  BY InvariantHolds, PTL

\* Until the counter wraps, pruning loses no route that is still good.
THEOREM PruningIsSafe == Spec => [](NotWrapped => LiveRoutesKept)
<1>. IInv => (NotWrapped => LiveRoutesKept)
  BY DEF IInv
<1>. QED
  BY InvariantHolds, PTL

\* Until the counter wraps, a Route that begins after Unregister has returned
\* reaches no transport.
THEOREM UnregisterSilences == Spec => [](NotWrapped => UnregisteredStaysSilent)
<1>. IInv => (NotWrapped => UnregisteredStaysSilent)
  BY DEF IInv
<1>. QED
  BY InvariantHolds, PTL

-----------------------------------------------------------------------------
(* Why a walk ends: what it has before it gets less.                       *)

\* How many steps a walk has left at most: entries not yet visited, the end of
\* the table, and the lock.
StepsLeft(t) ==
  CASE pc[t] = "scanning" -> (Len(routes) - cursor[t]) + 3
    [] pc[t] = "locking" -> 1
    [] OTHER -> 0

\* There is something left exactly while the thread has the mutex.
WalkMeasured == \A t \in Threads : StepsLeft(t) \in Nat /\ (HoldsMutex(t) <=> StepsLeft(t) > 0)

\* While a thread has the mutex a step either leaves its walk where it is or
\* brings it nearer to its end, and it is the thread itself that may take one.
WalkShortens ==
  [][\A t \in Threads : HoldsMutex(t) =>
       \/ pc'[t] = pc[t] /\ cursor'[t] = cursor[t] /\ routes' = routes
       \/ StepsLeft(t)' < StepsLeft(t)]_vars

LEMMA WalkStep ==
  ASSUME IInv, NEW t \in Threads, Walk(t) \/ ResolveLock(t)
  PROVE  StepsLeft(t)' < StepsLeft(t)
<1>0. /\ routes \in Seq(Entry) /\ Len(routes) \in Nat /\ cursor[t] \in Nat
      /\ pc \in [Threads -> Phases] /\ cursor \in [Threads -> Nat]
      /\ pc[t] = "scanning" => cursor[t] \in 1 .. Len(routes) + 1
  BY LenProperties DEF IInv, TypeOK
<1>1. CASE ScanPrune(t)
  <2>1. /\ pc[t] = "scanning" /\ cursor[t] <= Len(routes) /\ pc' = pc
        /\ routes' = RemoveAt(routes, cursor[t])
        /\ cursor' = [cursor EXCEPT ![t] = cursor[t]]
    BY <1>1 DEF ScanPrune, Visiting, AfterErase
  <2>2. Len(routes') = Len(routes) - 1
    BY <1>0, <2>1, RemoveAtProperties
  <2>. QED
    BY <1>0, <2>1, <2>2 DEF StepsLeft
<1>2. CASE ScanMatch(t)
  <2>1. pc[t] = "scanning" /\ cursor[t] <= Len(routes) /\ pc'[t] = "locking"
    BY <1>0, <1>2 DEF ScanMatch, Visiting
  <2>. QED
    BY <1>0, <2>1 DEF StepsLeft
<1>3. CASE ScanNext(t)
  <2>1. /\ pc[t] = "scanning" /\ pc' = pc /\ routes' = routes
        /\ cursor'[t] = cursor[t] + 1
    BY <1>0, <1>3 DEF ScanNext, Visiting, AfterMismatch
  <2>. QED
    BY <1>0, <2>1 DEF StepsLeft
<1>4. CASE ScanEnd(t)
  <2>1. pc[t] = "scanning" /\ pc'[t] = "idle"
    BY <1>0, <1>4 DEF ScanEnd
  <2>. QED
    BY <1>0, <2>1 DEF StepsLeft
<1>5. CASE ResolveLock(t)
  <2>1. pc[t] = "locking" /\ pc'[t] \in {"idle", "sending"}
    BY <1>0, <1>5 DEF ResolveLock
  <2>. QED
    BY <2>1 DEF StepsLeft
<1>. QED
  BY <1>1, <1>2, <1>3, <1>4, <1>5 DEF Walk

LEMMA OthersLeaveWalkAlone ==
  ASSUME IInv, NEW t \in Threads, HoldsMutex(t), [Next]_vars
  PROVE  \/ Walk(t) \/ ResolveLock(t)
         \/ pc'[t] = pc[t] /\ cursor'[t] = cursor[t] /\ routes' = routes
<1>0. /\ pc \in [Threads -> Phases] /\ cursor \in [Threads -> Nat]
      /\ pc[t] \in {"scanning", "locking"} /\ ~MutexIsFree
      /\ \A s \in Threads : HoldsMutex(s) => s = t
  BY DEF IInv, TypeOK, OneWalker, HoldsMutex, MutexIsFree
<1>1. ASSUME NEW s \in Threads, NEW transport \in Transports, RegisterTakeId(s, transport)
      PROVE  pc'[t] = pc[t] /\ cursor'[t] = cursor[t] /\ routes' = routes
  BY <1>0, <1>1 DEF RegisterTakeId
<1>2. ASSUME NEW s \in Threads, Walk(s) \/ ResolveLock(s)
      PROVE  s = t
  BY <1>0, <1>2 DEF Walk, ScanPrune, ScanMatch, ScanNext, ScanEnd, Visiting, ResolveLock,
                    HoldsMutex
<1>3. ASSUME NEW s \in Threads, SendReturn(s)
      PROVE  pc'[t] = pc[t] /\ cursor'[t] = cursor[t] /\ routes' = routes
  BY <1>0, <1>3 DEF SendReturn
<1>4. ASSUME NEW transport \in Transports, DropOwner(transport)
      PROVE  pc'[t] = pc[t] /\ cursor'[t] = cursor[t] /\ routes' = routes
  BY <1>4 DEF DropOwner, callerVars
<1>5. CASE UNCHANGED vars
  BY <1>5 DEF vars
<1>. QED
  BY <1>0, <1>1, <1>2, <1>3, <1>4, <1>5
     DEF Next, RegisterStore, RouteBegin, Unregister

\* A walk gets nearer to its end with each of its steps, and nothing else moves
\* it back or changes the table under it, since Register, Unregister and other
\* walks wait for the mutex (Resolve).
THEOREM WalkGetsNearer == Spec => WalkShortens
<1>1. ASSUME IInv, [Next]_vars
      PROVE  \A t \in Threads : HoldsMutex(t) =>
               \/ pc'[t] = pc[t] /\ cursor'[t] = cursor[t] /\ routes' = routes
               \/ StepsLeft(t)' < StepsLeft(t)
  BY <1>1, OthersLeaveWalkAlone, WalkStep
<1>. QED
  BY <1>1, InvariantHolds, PTL DEF Spec, WalkShortens

\* No walk runs away: what it has left is a number, whatever was registered
\* before it took the mutex, and it is 0 when the mutex is given back.
THEOREM WalkIsBounded == Spec => []WalkMeasured
<1>1. ASSUME IInv, NEW t \in Threads
      PROVE  StepsLeft(t) \in Nat /\ (HoldsMutex(t) <=> StepsLeft(t) > 0)
  <2>1. /\ Len(routes) \in Nat /\ cursor[t] \in Nat
        /\ pc[t] = "scanning" => cursor[t] <= Len(routes) + 1
    BY <1>1, LenProperties DEF IInv, TypeOK
  <2>. QED
    BY <2>1 DEF StepsLeft, HoldsMutex
<1>2. IInv => WalkMeasured
  BY <1>1 DEF WalkMeasured
<1>. QED
  BY <1>2, InvariantHolds, PTL

=============================================================================
