------------------------ MODULE ResponseRouteRegistry -----------------------
(***************************************************************************)
(* CommandResponseRouteRegistry (src/ESPressio_CommandResponseRoute.hpp):  *)
(* the process-wide table that maps a route identifier to a transport it   *)
(* owns only weakly, and through which a response travels back.            *)
(*                                                                         *)
(* Register takes its identifier from an atomic counter before it takes    *)
(* the mutex, so it is two steps.  Resolve walks the table under the mutex *)
(* and asks each weak pointer in turn; owners drop their transports        *)
(* without the mutex, so every visit of an entry is a step.  The response  *)
(* is sent after the mutex is released, by a thread that shares ownership  *)
(* of the transport for the duration of the call.                          *)
(***************************************************************************)
EXTENDS Naturals, SequencesExt

CONSTANTS
  Threads,          \* threads that call the registry
  Transports,       \* the objects that implement ICommandResponseRoute
  NoTransport,      \* the null shared_ptr
  IdModulus,        \* 2^32 in the code: the width of CommandTransportRouteId
  MaxRegistrations  \* bound: number of calls of Register in a behaviour

ASSUME RouteAssumption ==
  /\ IdModulus \in Nat \ {0, 1}
  /\ MaxRegistrations \in Nat
  /\ NoTransport \notin Transports

VARIABLES
  routes,      \* _routes, a sequence of entries
  nextId,      \* _nextId
  owned,       \* transports whose application still holds its shared_ptr
  pc,          \* per thread: what it is doing in the registry
  id,          \* per thread: the identifier it registers or resolves
  held,        \* per thread: the shared_ptr on its stack
  cursor,      \* per thread: the iterator of its walk
  late,        \* history, per thread: was its identifier already unregistered
               \* when it called Route
  assigned,    \* history: the pairs <<identifier, transport>> Register returned
  live,        \* history: identifiers returned by Register, not unregistered
  registrations

vars == <<routes, nextId, owned, pc, id, held, cursor, late, assigned, live,
          registrations>>
callerVars == <<pc, id, held, cursor, late>>

Ids    == 0 .. (IdModulus - 1)
Entry  == [Id : Ids, Route : Transports]
Phases == {"idle", "registering", "scanning", "locking", "sending"}

-----------------------------------------------------------------------------
\* A transport lives as long as somebody shares ownership of it.
IsAlive(transport) ==
  transport \in owned \/ \E t \in Threads : held[t] = transport

Expired(entry) == ~IsAlive(entry.Route)

\* The mutex is held by the thread that walks the table.
MutexIsFree == \A t \in Threads : pc[t] \notin {"scanning", "locking"}

\* Mutant: the identifier is the number of entries plus one.
TakenId_FromSize == Len(routes) + 1

TakenId == nextId

\* Mutant: every registration of the same transport goes with it.
WithoutId_WholeTransport(i) ==
  SelectSeq(routes, LAMBDA entry : [Id |-> i, Route |-> entry.Route] \notin ToSet(routes))

\* Mutant: Unregister leaves the entry for Resolve to prune.
WithoutId_LeftToPruning(i) == routes

WithoutId(i) == RemoveFirstMatch(routes, LAMBDA entry : entry.Id = i)

-----------------------------------------------------------------------------
Init ==
  /\ routes = <<>>
  /\ nextId = 1
  /\ owned = Transports
  /\ pc = [t \in Threads |-> "idle"]
  /\ id = [t \in Threads |-> 0]
  /\ held = [t \in Threads |-> NoTransport]
  /\ cursor = [t \in Threads |-> 0]
  /\ late = [t \in Threads |-> FALSE]
  /\ assigned = {}
  /\ live = {}
  /\ registrations = 0

(***************************************************************************)
(* Register of a transport the caller owns.  (A null transport is refused  *)
(* with the identifier 0 and changes nothing.)                             *)
(***************************************************************************)
RegisterTakeId(t, transport) ==
  /\ pc[t] = "idle"
  /\ transport \in owned
  /\ registrations < MaxRegistrations
  /\ registrations' = registrations + 1
  /\ pc' = [pc EXCEPT ![t] = "registering"]
  /\ id' = [id EXCEPT ![t] = TakenId]
  /\ held' = [held EXCEPT ![t] = transport]
  /\ nextId' = (nextId + 1) % IdModulus
  /\ UNCHANGED <<routes, owned, cursor, late, assigned, live>>

\* Mutant: the counter is read a second time, under the mutex.
StoredId_ReadsCounter(t) == (nextId + IdModulus - 1) % IdModulus

StoredId(t) == id[t]

RegisterStore(t) ==
  /\ pc[t] = "registering"
  /\ MutexIsFree
  /\ routes' = Append(routes, [Id |-> StoredId(t), Route |-> held[t]])
  /\ assigned' = assigned \cup {<<id[t], held[t]>>}
  /\ live' = live \cup {id[t]}
  /\ pc' = [pc EXCEPT ![t] = "idle"]
  /\ held' = [held EXCEPT ![t] = NoTransport]
  /\ UNCHANGED <<nextId, owned, id, cursor, late, registrations>>

\* Unregister of an identifier some Register returned (0 is ignored).
Unregister(i) ==
  /\ i # 0
  /\ MutexIsFree
  /\ routes' = WithoutId(i)
  /\ live' = live \ {i}
  /\ UNCHANGED <<nextId, owned, callerVars, assigned, registrations>>

\* Route of a non-local origin that names an identifier some Register
\* returned; the mutex is taken and the walk begins.
RouteBegin(t, i) ==
  /\ pc[t] = "idle"
  /\ i # 0
  /\ MutexIsFree
  /\ pc' = [pc EXCEPT ![t] = "scanning"]
  /\ id' = [id EXCEPT ![t] = i]
  /\ cursor' = [cursor EXCEPT ![t] = 1]
  /\ late' = [late EXCEPT ![t] = i \notin live]
  /\ UNCHANGED <<routes, nextId, owned, held, assigned, live, registrations>>

Visiting(t) == pc[t] = "scanning" /\ cursor[t] <= Len(routes)

\* Mutant: the iterator moves on after an erase, and the next entry is skipped.
AfterErase_MovesOn(c) == c + 1

AfterErase(c) == c

\* An expired entry is erased, and the walk goes on with the one behind it.
ScanPrune(t) ==
  /\ Visiting(t)
  /\ Expired(routes[cursor[t]])
  /\ routes' = RemoveAt(routes, cursor[t])
  /\ cursor' = [cursor EXCEPT ![t] = AfterErase(@)]
  /\ UNCHANGED <<nextId, owned, pc, id, held, late, assigned, live, registrations>>

ScanMatch(t) ==
  /\ Visiting(t)
  /\ ~Expired(routes[cursor[t]])
  /\ routes[cursor[t]].Id = id[t]
  /\ pc' = [pc EXCEPT ![t] = "locking"]
  /\ UNCHANGED <<routes, nextId, owned, id, held, cursor, late, assigned, live,
                 registrations>>

\* Mutant: the iterator stays where it is on an entry that does not match.
AfterMismatch_Stays(c) == c

AfterMismatch(c) == c + 1

ScanNext(t) ==
  /\ Visiting(t)
  /\ ~Expired(routes[cursor[t]])
  /\ routes[cursor[t]].Id # id[t]
  /\ cursor' = [cursor EXCEPT ![t] = AfterMismatch(@)]
  /\ UNCHANGED <<routes, nextId, owned, pc, id, held, late, assigned, live,
                 registrations>>

\* The walk ends without a match: Route returns false.
ScanEnd(t) ==
  /\ pc[t] = "scanning"
  /\ cursor[t] > Len(routes)
  /\ pc' = [pc EXCEPT ![t] = "idle"]
  /\ UNCHANGED <<routes, nextId, owned, id, held, cursor, late, assigned, live,
                 registrations>>

\* weak_ptr::lock, and the mutex is released.  The owner may have let go
\* between the test of expired() and here; then the pointer is null, the entry
\* stays in the table and Route returns false.
ResolveLock(t) ==
  /\ pc[t] = "locking"
  /\ IF Expired(routes[cursor[t]])
     THEN /\ pc' = [pc EXCEPT ![t] = "idle"]
          /\ held' = held
     ELSE /\ pc' = [pc EXCEPT ![t] = "sending"]
          /\ held' = [held EXCEPT ![t] = routes[cursor[t]].Route]
  /\ UNCHANGED <<routes, nextId, owned, id, cursor, late, assigned, live,
                 registrations>>

\* SendCommandResponse returns or throws, and the thread's share of the
\* transport is given up; it may have been the last one.
SendReturn(t) ==
  /\ pc[t] = "sending"
  /\ pc' = [pc EXCEPT ![t] = "idle"]
  /\ held' = [held EXCEPT ![t] = NoTransport]
  /\ UNCHANGED <<routes, nextId, owned, id, cursor, late, assigned, live,
                 registrations>>

\* The application lets go of a transport, with or without unregistering it.
DropOwner(transport) ==
  /\ transport \in owned
  /\ owned' = owned \ {transport}
  /\ UNCHANGED <<routes, nextId, callerVars, assigned, live, registrations>>

-----------------------------------------------------------------------------
KnownIds == {pair[1] : pair \in assigned}

Walk(t) == ScanPrune(t) \/ ScanMatch(t) \/ ScanNext(t) \/ ScanEnd(t)

Next ==
  \/ \E t \in Threads :
       \/ \E transport \in Transports : RegisterTakeId(t, transport)
       \/ RegisterStore(t)
       \/ \E i \in KnownIds : RouteBegin(t, i)
       \/ Walk(t)
       \/ ResolveLock(t)
       \/ SendReturn(t)
  \/ \E i \in KnownIds : Unregister(i)
  \/ \E transport \in Transports : DropOwner(transport)

Spec == Init /\ [][Next]_vars

\* A thread that holds the mutex keeps running.
FairSpec == Spec /\ \A t \in Threads : WF_vars(Walk(t)) /\ WF_vars(ResolveLock(t))

-----------------------------------------------------------------------------
\* Every variable holds a value of its type; an iterator never runs past the
\* end of the table.
TypeOK ==
  /\ routes \in Seq(Entry)
  /\ nextId \in Ids
  /\ owned \subseteq Transports
  /\ pc \in [Threads -> Phases]
  /\ id \in [Threads -> Ids]
  /\ held \in [Threads -> Transports \cup {NoTransport}]
  /\ cursor \in [Threads -> Nat]
  /\ late \in [Threads -> BOOLEAN]
  /\ assigned \subseteq Ids \X Transports
  /\ live \subseteq Ids
  /\ \A t \in Threads :
       /\ pc[t] = "scanning" => cursor[t] \in 1 .. Len(routes) + 1
       /\ pc[t] = "locking" => cursor[t] \in 1 .. Len(routes)

\* While fewer than IdModulus registrations were made, two registrations never
\* share an identifier, not even two that run at the same time.
IdsNeverShared ==
  registrations < IdModulus =>
    /\ \A m, n \in 1 .. Len(routes) : routes[m].Id = routes[n].Id => m = n
    /\ \A s, t \in Threads :
         pc[s] = "registering" /\ pc[t] = "registering" /\ id[s] = id[t] => s = t
    /\ \A t \in Threads : pc[t] = "registering" => \A n \in 1 .. Len(routes) : routes[n].Id # id[t]

\* A walk erases expired entries and nothing else: a registration that was not
\* unregistered keeps its entry as long as its transport lives.
LiveRoutesKept ==
  \A pair \in assigned :
    pair[1] \in live /\ IsAlive(pair[2])
      => [Id |-> pair[1], Route |-> pair[2]] \in ToSet(routes)

\* A walk overlooks nothing: what it has passed does not hold its identifier.
\* So Route only gives up when no live entry has the identifier it looks for.
NothingOverlooked ==
  \A t \in Threads : pc[t] = "scanning" =>
    \A n \in DOMAIN routes : n < cursor[t] => routes[n].Id # id[t]

\* A response is handed only to the transport its route identifier was
\* assigned to, however registrations come and go during the walk.
NeverMisrouted ==
  \A t \in Threads : pc[t] = "sending" => <<id[t], held[t]>> \in assigned

\* A Route that starts after Unregister has returned hands out no transport.
\* (One that is already sending may still deliver.)
UnregisteredStaysSilent ==
  \A t \in Threads : pc[t] = "sending" => ~late[t]

\* A thread that walks the table gives the mutex back.
WalkTerminates ==
  \A t \in Threads : pc[t] = "scanning" ~> pc[t] \in {"idle", "sending"}

=============================================================================
