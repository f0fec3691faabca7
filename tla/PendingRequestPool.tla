------------------------- MODULE PendingRequestPool -------------------------
(***************************************************************************)
(* The pool of outstanding requests, CommandPendingRequestPool<Capacity>   *)
(* (src/ESPressio_CommandPendingRequests.hpp): what the requesting side    *)
(* keeps between sending a command and learning its outcome.               *)
(*                                                                         *)
(* Add, Complete and the collecting half of Expire run under the pool's    *)
(* mutex, so each is one step.  Expire then leaves the mutex and calls     *)
(* back once per collected entry; between two callbacks, and from inside   *)
(* one, any thread may call the pool again, so every callback is a step    *)
(* of its own.  An "expirer" is one activation of Expire: a thread's call, *)
(* or a call made from inside another activation's callback.               *)
(***************************************************************************)
EXTENDS Naturals, FiniteSetsExt

CONSTANTS
  Capacity,         \* the template argument: number of slots
  RequestIds,       \* correlation identifiers callers use (0 is a legal one)
  Destinations,     \* endpoint addresses
  NoDestination,    \* the address of a default-constructed entry
  Expirers,         \* activations of Expire that may be in progress at once
  CountModulus,     \* 2^16 in the code: the width of ResponseCount
  CallbackMayThrow, \* whether an expiry callback may leave by an exception
  MaxTime,          \* bound: the clock stops here, deadlines lie below it
  MaxRequests       \* bound: number of successful Adds in a behaviour

ASSUME PoolAssumption ==
  /\ Capacity \in Nat
  /\ RequestIds \subseteq Nat
  /\ CountModulus \in Nat \ {0}
  /\ CallbackMayThrow \in BOOLEAN
  /\ MaxTime \in Nat
  /\ MaxRequests \in Nat

VARIABLES
  entries,  \* _entries, one record per slot
  expired,  \* per activation of Expire, its snapshot of the entries it took
  clock,    \* the time callers read before they call Expire
  reply,    \* the CommandPendingStatus of the last Add or Complete
  issued,   \* history: number of successful Adds, the last ticket handed out
  outcome   \* history: what became of the request behind each ticket

vars == <<entries, expired, clock, reply, issued, outcome>>

Slots    == 1 .. Capacity
Times    == 0 .. MaxTime
Tickets  == 1 .. MaxRequests
Modes    == {"Single", "Multiple"}
Statuses == {"Success", "DuplicateRequestId", "CapacityExhausted", "NotFound"}
Outcomes == {"unused", "pending", "completed", "expired", "reported", "dropped"}

(***************************************************************************)
(* Ticket is a history field.  It numbers the successful Adds, so that two *)
(* requests that reuse one identifier can be told apart; no guard reads it.*)
(***************************************************************************)
Entry ==
  [Active               : BOOLEAN,
   RequestId            : RequestIds \cup {0},
   Destination          : Destinations \cup {NoDestination},
   DeadlineMilliseconds : Times,
   ResponseMode         : Modes,
   ResponseCount        : 0 .. (CountModulus - 1),
   Ticket               : Tickets \cup {0}]

\* A value-initialised entry: what "entry = {}" leaves in a slot.
Cleared ==
  [Active               |-> FALSE,
   RequestId            |-> 0,
   Destination          |-> NoDestination,
   DeadlineMilliseconds |-> 0,
   ResponseMode         |-> "Single",
   ResponseCount        |-> 0,
   Ticket               |-> 0]

NewEntry(id, destination, deadline, mode, ticket) ==
  [Active               |-> TRUE,
   RequestId            |-> id,
   Destination          |-> destination,
   DeadlineMilliseconds |-> deadline,
   ResponseMode         |-> mode,
   ResponseCount        |-> 0,
   Ticket               |-> ticket]

EmptyTable == [i \in Slots |-> Cleared]

-----------------------------------------------------------------------------
(* Scans of the table, from the first slot on: what a scan meets first is  *)
(* the Min of the slots it looks for.                                      *)

ActiveSlots(table) == {i \in Slots : table[i].Active}
FreeSlots(table)   == {i \in Slots : ~table[i].Active}

\* Mutant: the scan forgets the Active flag, and a cleared slot answers to 0.
SlotsHolding_IgnoresActive(id) == {i \in Slots : entries[i].RequestId = id}

SlotsHolding(id) == {i \in ActiveSlots(entries) : entries[i].RequestId = id}

\* Mutant: Add stops scanning at the first free slot it meets.
IsDuplicate_StopsAtFreeSlot(id) ==
  \E i \in SlotsHolding(id) : \A j \in FreeSlots(entries) : i < j

IsDuplicate(id) == SlotsHolding(id) # {}

\* Mutant: an entry counts as overdue one tick before its deadline.
IsDue_OneTickEarly(entry, now) ==
  entry.Active /\ entry.DeadlineMilliseconds <= now + 1

\* Mutant: an entry is overdue only after its deadline has passed.
IsDue_Strict(entry, now) ==
  entry.Active /\ entry.DeadlineMilliseconds < now

IsDue(entry, now) == entry.Active /\ entry.DeadlineMilliseconds <= now

DueSlots(now) == {i \in Slots : IsDue(entries[i], now)}

-----------------------------------------------------------------------------
(* What a call leaves behind in the table.                                 *)

Releases(entry, finalResponse) ==
  entry.ResponseMode = "Single" \/ finalResponse

\* Mutant: the counter is as wide as an unbounded integer.
CountResponse_Unbounded(entry) == [entry EXCEPT !.ResponseCount = @ + 1]

CountResponse(entry) ==
  [entry EXCEPT !.ResponseCount = (@ + 1) % CountModulus]

\* Mutant: the entry stays in its slot after its last response.
AfterResponse_NeverCleared(entry, finalResponse) == CountResponse(entry)

AfterResponse(entry, finalResponse) ==
  IF Releases(entry, finalResponse) THEN Cleared ELSE CountResponse(entry)

\* Mutant: collected entries are copied out and left in the table.
AfterCollect_NotCleared(now) == entries

AfterCollect(now) ==
  [i \in Slots |-> IF i \in DueSlots(now) THEN Cleared ELSE entries[i]]

\* The external vector Expire fills.  The code compacts it; here an entry
\* keeps the index it had, which leaves the order of the callbacks the same.
Snapshot(now) ==
  [i \in Slots |-> IF i \in DueSlots(now) THEN entries[i] ELSE Cleared]

-----------------------------------------------------------------------------
Init ==
  /\ entries = EmptyTable
  /\ expired = [e \in Expirers |-> EmptyTable]
  /\ clock = 0
  /\ reply = "Success"
  /\ issued = 0
  /\ outcome = [k \in Tickets |-> "unused"]

(***************************************************************************)
(* Add.  The duplicate test looks at every slot, also behind a free one;   *)
(* only then is a missing free slot an error.  (The table is allocated by  *)
(* the first Add; an unallocated table and an all-cleared one answer every *)
(* call alike.)                                                            *)
(***************************************************************************)
AddDuplicate(id) ==
  /\ IsDuplicate(id)
  /\ reply' = "DuplicateRequestId"
  /\ UNCHANGED <<entries, expired, clock, issued, outcome>>

AddExhausted(id) ==
  /\ ~IsDuplicate(id)
  /\ FreeSlots(entries) = {}
  /\ reply' = "CapacityExhausted"
  /\ UNCHANGED <<entries, expired, clock, issued, outcome>>

AddSuccess(id, destination, deadline, mode) ==
  /\ ~IsDuplicate(id)
  /\ FreeSlots(entries) # {}
  /\ issued < MaxRequests
  /\ issued' = issued + 1
  /\ entries' = [entries EXCEPT ![Min(FreeSlots(entries))] =
                    NewEntry(id, destination, deadline, mode, issued')]
  /\ outcome' = [outcome EXCEPT ![issued'] = "pending"]
  /\ reply' = "Success"
  /\ UNCHANGED <<expired, clock>>

(***************************************************************************)
(* Complete: the first active entry with this identifier takes the         *)
(* response.                                                               *)
(***************************************************************************)
CompleteNotFound(id) ==
  /\ SlotsHolding(id) = {}
  /\ reply' = "NotFound"
  /\ UNCHANGED <<entries, expired, clock, issued, outcome>>

CompleteSuccess(id, finalResponse) ==
  /\ SlotsHolding(id) # {}
  /\ LET slot  == Min(SlotsHolding(id))
         entry == entries[slot]
     IN  /\ entries' = [entries EXCEPT ![slot] =
                           AfterResponse(entry, finalResponse)]
         /\ outcome' = IF Releases(entry, finalResponse)
                       THEN [outcome EXCEPT ![entry.Ticket] = "completed"]
                       ELSE outcome
  /\ reply' = "Success"
  /\ UNCHANGED <<expired, clock, issued>>

(***************************************************************************)
(* Expire.  "now" is a time the caller read earlier, so it may lag behind  *)
(* the clock.  When nothing is due Expire returns 0 and changes nothing.   *)
(***************************************************************************)
Idle(e) == ActiveSlots(expired[e]) = {}

TicketsIn(table) == {table[i].Ticket : i \in ActiveSlots(table)}

ExpireCollect(e, now) ==
  /\ Idle(e)
  /\ DueSlots(now) # {}
  /\ entries' = AfterCollect(now)
  /\ expired' = [expired EXCEPT ![e] = Snapshot(now)]
  /\ outcome' = [k \in Tickets |->
                   IF k \in TicketsIn(Snapshot(now)) THEN "expired"
                                                     ELSE outcome[k]]
  /\ UNCHANGED <<clock, reply, issued>>

\* The callback for the next collected entry returns normally.
ExpireReport(e) ==
  /\ ~Idle(e)
  /\ LET slot == Min(ActiveSlots(expired[e]))
     IN  /\ outcome' = [outcome EXCEPT ![expired[e][slot].Ticket] = "reported"]
         /\ expired' = [expired EXCEPT ![e][slot] = Cleared]
  /\ UNCHANGED <<entries, clock, reply, issued>>

\* The callback throws: Expire unwinds, and the entries that were still to be
\* called back are destroyed with the snapshot.
ExpireThrow(e) ==
  /\ CallbackMayThrow
  /\ ~Idle(e)
  /\ LET slot    == Min(ActiveSlots(expired[e]))
         dropped == TicketsIn(expired[e]) \ {expired[e][slot].Ticket}
     IN  outcome' = [k \in Tickets |->
                       CASE k = expired[e][slot].Ticket -> "reported"
                         [] k \in dropped -> "dropped"
                         [] OTHER -> outcome[k]]
  /\ expired' = [expired EXCEPT ![e] = EmptyTable]
  /\ UNCHANGED <<entries, clock, reply, issued>>

\* Time passes outside the pool.
Tick ==
  /\ clock < MaxTime
  /\ clock' = clock + 1
  /\ UNCHANGED <<entries, expired, reply, issued, outcome>>

-----------------------------------------------------------------------------
Add ==
  \E id \in RequestIds :
    \/ AddDuplicate(id)
    \/ AddExhausted(id)
    \/ \E destination \in Destinations, deadline \in Times, mode \in Modes :
         AddSuccess(id, destination, deadline, mode)

Complete ==
  \E id \in RequestIds :
    \/ CompleteNotFound(id)
    \/ \E finalResponse \in BOOLEAN : CompleteSuccess(id, finalResponse)

Expire ==
  \E e \in Expirers :
    \/ \E now \in 0 .. clock : ExpireCollect(e, now)
    \/ ExpireReport(e)
    \/ ExpireThrow(e)

Next == Add \/ Complete \/ Expire \/ Tick

Spec == Init /\ [][Next]_vars

\* The integration polls: time moves on, some activation of Expire is made
\* with the current time whenever something is due, and callbacks return.
Fairness ==
  /\ WF_vars(Tick)
  /\ \A e \in Expirers : WF_vars(ExpireCollect(e, clock))
  /\ \A e \in Expirers : WF_vars(ExpireReport(e))

FairSpec == Spec /\ Fairness

-----------------------------------------------------------------------------
\* The value ActiveCount returns.
ActiveCount == Cardinality(ActiveSlots(entries))

\* Every variable holds a value of its type; in particular the response
\* counter stays within its sixteen bits.
TypeOK ==
  /\ entries \in [Slots -> Entry]
  /\ expired \in [Expirers -> [Slots -> Entry]]
  /\ clock \in Times
  /\ reply \in Statuses
  /\ issued \in 0 .. MaxRequests
  /\ outcome \in [Tickets -> Outcomes]

\* A correlation identifier names at most one outstanding request, whatever
\* holes Complete and Expire have left in the table: otherwise Complete, which
\* stops at the first match, would credit a response to the wrong request.
UniqueActiveIds ==
  \A i, j \in ActiveSlots(entries) :
    entries[i].RequestId = entries[j].RequestId => i = j

\* A request that was accepted is in exactly one place: in one slot while it
\* is pending, in one snapshot once Expire has taken it, and nowhere after it
\* was completed, reported or dropped.  No interleaving of Add, Complete and
\* several Expires loses one or reports one twice.
TrackedOnce ==
  /\ \A k \in Tickets :
       outcome[k] = "pending" <=> k \in TicketsIn(entries)
  /\ \A k \in Tickets :
       outcome[k] = "expired" <=> \E e \in Expirers : k \in TicketsIn(expired[e])
  /\ \A i, j \in ActiveSlots(entries) :
       entries[i].Ticket = entries[j].Ticket => i = j
  /\ \A e, f \in Expirers :
       \A i \in ActiveSlots(expired[e]), j \in ActiveSlots(expired[f]) :
         expired[e][i].Ticket = expired[f][j].Ticket => e = f /\ i = j

\* A request is only ever taken as expired when its deadline has passed on the
\* clock, even when the caller of Expire read the clock long ago.
NoEarlyTimeout ==
  \A e \in Expirers : \A i \in ActiveSlots(expired[e]) :
    expired[e][i].DeadlineMilliseconds <= clock

\* The steps the fate of one request may take.
MayBecome(old, new) ==
  <<old, new>> \in {<<"unused", "pending">>, <<"pending", "completed">>,
                    <<"pending", "expired">>, <<"expired", "reported">>,
                    <<"expired", "dropped">>}

\* A request is resolved once: completing and expiring exclude each other for
\* one request, and neither is ever taken back, however Complete races Expire.
OutcomeIsFinal ==
  [][\A k \in Tickets :
       outcome'[k] # outcome[k] => MayBecome(outcome[k], outcome'[k])]_vars

\* Under fair polling, and when callbacks return, no request is pending for
\* ever: each is answered or reported to the expiry callback.
EveryRequestResolved ==
  \A k \in Tickets :
    outcome[k] = "pending" ~> outcome[k] \in {"completed", "reported"}

-----------------------------------------------------------------------------
\* What the tracker below sees of an entry: everything but the Active flag,
\* with the time it was added told by its ticket.
Request(entry) ==
  [id          |-> entry.RequestId,
   destination |-> entry.Destination,
   deadline    |-> entry.DeadlineMilliseconds,
   mode        |-> entry.ResponseMode,
   ticket      |-> entry.Ticket]

RequestsIn(table) == {Request(table[i]) : i \in ActiveSlots(table)}

Tracker ==
  INSTANCE PendingRequestTracker
    WITH awaiting <- RequestsIn(entries),
         timedOut <- UNION {RequestsIn(expired[e]) : e \in Expirers}

\* The pool is a set of requests to its callers: slot order, reuse of slots and
\* the snapshot cannot be told from the outside.
ImplementsTracker == Tracker!Spec

=============================================================================
