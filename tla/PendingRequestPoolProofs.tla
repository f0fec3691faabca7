---------------------- MODULE PendingRequestPoolProofs ----------------------
(***************************************************************************)
(* The safety of PendingRequestPool for every capacity, every set of       *)
(* identifiers and every number of concurrent Expires.                     *)
(***************************************************************************)
EXTENDS PendingRequestPool, FiniteSetTheorems, WellFoundedInduction, TLAPS

\* Tickets are handed out in order, and every active entry carries one.  This
\* is what keeps a new request from sharing a ticket with an old one.
Numbered ==
  /\ TicketsIn(entries) \subseteq Tickets
  /\ \A e \in Expirers : TicketsIn(expired[e]) \subseteq Tickets
  /\ \A k \in Tickets : k > issued => outcome[k] = "unused"

IInv ==
  /\ TypeOK
  /\ UniqueActiveIds
  /\ TrackedOnce
  /\ NoEarlyTimeout
  /\ Numbered

-----------------------------------------------------------------------------
\* The first slot a scan meets is one of the slots it looks for.
LEMMA MinIsMember ==
  ASSUME NEW S \in SUBSET Slots, S # {}
  PROVE  Min(S) \in S
<1>1. S \in SUBSET Nat
  BY PoolAssumption DEF Slots
<1>. DEFINE Less == OpToRel(<, Nat)
<1>2. \E i \in S : \A j \in S : <<j, i>> \notin Less
  <2>1. IsWellFoundedOn(Less, Nat)
    BY NatLessThanWellFounded
  <2>. QED
    BY <1>1, <2>1, WFMin
<1>3. \A i, j \in S : <<j, i>> \notin Less => i <= j
  BY <1>1 DEF OpToRel
<1>. QED
  BY <1>2, <1>3 DEF Min

LEMMA ClearedIsEntry == Cleared \in Entry
  BY PoolAssumption DEF Cleared, Entry, Times, Modes

LEMMA EmptyTableActive == ActiveSlots(EmptyTable) = {}
  BY DEF ActiveSlots, EmptyTable, Cleared

\* A response leaves an entry that is cleared, or the same one with another
\* count.
LEMMA AfterResponseIsEntry ==
  ASSUME NEW entry \in Entry, NEW finalResponse \in BOOLEAN
  PROVE  /\ AfterResponse(entry, finalResponse) \in Entry
         /\ Releases(entry, finalResponse)
              => AfterResponse(entry, finalResponse) = Cleared
         /\ ~Releases(entry, finalResponse)
              => /\ AfterResponse(entry, finalResponse).Active = entry.Active
                 /\ AfterResponse(entry, finalResponse).RequestId = entry.RequestId
                 /\ AfterResponse(entry, finalResponse).Ticket = entry.Ticket
<1>1. (entry.ResponseCount + 1) % CountModulus \in 0 .. (CountModulus - 1)
  <2>1. entry.ResponseCount \in Nat
    BY PoolAssumption DEF Entry
  <2>. QED
    BY <2>1, PoolAssumption
<1>2. CountResponse(entry) \in Entry
  BY <1>1 DEF CountResponse, Entry
<1>3. /\ CountResponse(entry).Active = entry.Active
      /\ CountResponse(entry).RequestId = entry.RequestId
      /\ CountResponse(entry).Ticket = entry.Ticket
  BY DEF CountResponse, Entry
<1>. QED
  BY <1>2, <1>3, ClearedIsEntry DEF AfterResponse

-----------------------------------------------------------------------------
LEMMA InitInvariant == Init => IInv
<1>. SUFFICES ASSUME Init PROVE IInv
  OBVIOUS
<1>. USE DEF Init
<1>1. TypeOK
  BY ClearedIsEntry, PoolAssumption
     DEF TypeOK, EmptyTable, Statuses, Outcomes, Times
<1>2. /\ ActiveSlots(entries) = {}
      /\ \A e \in Expirers : ActiveSlots(expired[e]) = {}
  BY EmptyTableActive
<1>3. /\ TicketsIn(entries) = {}
      /\ \A e \in Expirers : TicketsIn(expired[e]) = {}
  BY <1>2 DEF TicketsIn
<1>. QED
  BY <1>1, <1>2, <1>3
     DEF IInv, UniqueActiveIds, TrackedOnce, NoEarlyTimeout, Numbered

LEMMA AddSuccessInvariant ==
  ASSUME IInv, NEW id \in RequestIds, NEW destination \in Destinations,
         NEW deadline \in Times, NEW mode \in Modes,
         AddSuccess(id, destination, deadline, mode)
  PROVE  IInv'
<1>. DEFINE slot == Min(FreeSlots(entries))
            new  == NewEntry(id, destination, deadline, mode, issued')
<1>1. /\ slot \in Slots /\ ~entries[slot].Active
  BY MinIsMember DEF FreeSlots, AddSuccess
<1>2. /\ issued' = issued + 1 /\ issued' \in Tickets
      /\ outcome[issued'] = "unused" /\ issued \in Nat
  BY PoolAssumption DEF AddSuccess, IInv, TypeOK, Numbered, Tickets
<1>3. new \in Entry /\ new.Active /\ new.RequestId = id /\ new.Ticket = issued'
  BY <1>2, PoolAssumption DEF NewEntry, Entry
<1>4. /\ entries' = [entries EXCEPT ![slot] = new]
      /\ outcome' = [outcome EXCEPT ![issued'] = "pending"]
      /\ UNCHANGED <<expired, clock>> /\ reply' = "Success"
  BY DEF AddSuccess
<1>. HIDE DEF slot, new
<1>5. TypeOK'
  BY <1>1, <1>2, <1>3, <1>4 DEF IInv, TypeOK, Statuses, Outcomes, Tickets
<1>6. /\ ActiveSlots(entries)' = ActiveSlots(entries) \cup {slot}
      /\ entries'[slot] = new
      /\ \A i \in ActiveSlots(entries) : i # slot /\ entries'[i] = entries[i]
  BY <1>1, <1>3, <1>4 DEF IInv, TypeOK, ActiveSlots
<1>7. TicketsIn(entries)' = TicketsIn(entries) \cup {issued'}
  BY <1>3, <1>6 DEF TicketsIn
<1>8. UniqueActiveIds'
  <2>1. \A i \in ActiveSlots(entries) : entries[i].RequestId # id
    BY DEF AddSuccess, IsDuplicate, SlotsHolding
  <2>. QED
    BY <2>1, <1>3, <1>6 DEF IInv, UniqueActiveIds
<1>9. TrackedOnce'
  <2>1. \A k \in Tickets : outcome'[k] = IF k = issued' THEN "pending" ELSE outcome[k]
    BY <1>4, <1>2 DEF IInv, TypeOK
  <2>2. issued' \notin TicketsIn(entries)
        /\ \A e \in Expirers : issued' \notin TicketsIn(expired[e])
    BY <1>2 DEF IInv, TrackedOnce
  <2>3. \A i \in ActiveSlots(entries) : entries[i].Ticket # issued'
    BY <2>2 DEF TicketsIn
  <2>4. (\A i, j \in ActiveSlots(entries) :
           entries[i].Ticket = entries[j].Ticket => i = j)'
    BY <1>3, <1>6, <2>3 DEF IInv, TrackedOnce
  <2>5. (\A k \in Tickets : outcome[k] = "pending" <=> k \in TicketsIn(entries))'
    BY <1>7, <2>1 DEF IInv, TrackedOnce
  <2>6. (\A k \in Tickets :
           outcome[k] = "expired" <=> \E e \in Expirers : k \in TicketsIn(expired[e]))'
    BY <1>4, <2>1, <2>2 DEF IInv, TrackedOnce, TicketsIn, ActiveSlots
  <2>7. expired' = expired
    BY <1>4
  <2>. QED
    BY <2>4, <2>5, <2>6, <2>7 DEF IInv, TrackedOnce, ActiveSlots
<1>10. NoEarlyTimeout'
  BY <1>4 DEF IInv, NoEarlyTimeout, ActiveSlots
<1>11. Numbered'
  <2>1. \A k \in Tickets : k > issued' => k > issued /\ k # issued' /\ outcome'[k] = outcome[k]
    BY <1>2, <1>4 DEF IInv, TypeOK, Tickets
  <2>. QED
    BY <2>1, <1>2, <1>4, <1>7 DEF IInv, Numbered, TicketsIn, ActiveSlots
<1>. QED
  BY <1>5, <1>8, <1>9, <1>10, <1>11 DEF IInv

LEMMA CompleteSuccessInvariant ==
  ASSUME IInv, NEW id \in RequestIds, NEW finalResponse \in BOOLEAN,
         CompleteSuccess(id, finalResponse)
  PROVE  IInv'
<1>. DEFINE slot  == Min(SlotsHolding(id))
            entry == entries[slot]
            after == AfterResponse(entry, finalResponse)
<1>1. slot \in SlotsHolding(id)
  <2>1. SlotsHolding(id) \in SUBSET Slots
    BY DEF SlotsHolding, ActiveSlots
  <2>. QED
    BY <2>1, MinIsMember DEF CompleteSuccess
<1>2. slot \in ActiveSlots(entries) /\ slot \in Slots /\ entry \in Entry
  BY <1>1 DEF SlotsHolding, ActiveSlots, IInv, TypeOK
<1>3. entry.Ticket \in Tickets
  BY <1>2 DEF IInv, Numbered, TicketsIn
<1>4. /\ entries' = [entries EXCEPT ![slot] = after]
      /\ outcome' = IF Releases(entry, finalResponse)
                    THEN [outcome EXCEPT ![entry.Ticket] = "completed"]
                    ELSE outcome
      /\ UNCHANGED <<expired, clock, issued>> /\ reply' = "Success"
  BY DEF CompleteSuccess
<1>5. /\ after \in Entry
      /\ Releases(entry, finalResponse) => after = Cleared
      /\ ~Releases(entry, finalResponse)
           => /\ after.Active = entry.Active
              /\ after.RequestId = entry.RequestId
              /\ after.Ticket = entry.Ticket
  BY <1>2, AfterResponseIsEntry
<1>. HIDE DEF slot, entry, after
<1>6. TypeOK'
  BY <1>2, <1>3, <1>4, <1>5 DEF IInv, TypeOK, Statuses, Outcomes
<1>7. CASE Releases(entry, finalResponse)
  <2>1. /\ ActiveSlots(entries)' = ActiveSlots(entries) \ {slot}
        /\ \A i \in ActiveSlots(entries)' : entries'[i] = entries[i]
    BY <1>2, <1>4, <1>5, <1>7 DEF IInv, TypeOK, ActiveSlots, Cleared
  <2>2. entries[slot].Ticket = entry.Ticket
    BY DEF entry
  <2>3. TicketsIn(entries)' = TicketsIn(entries) \ {entry.Ticket}
    BY <2>1, <2>2, <1>2 DEF TicketsIn, IInv, TrackedOnce
  <2>4. \A k \in Tickets :
          outcome'[k] = IF k = entry.Ticket THEN "completed" ELSE outcome[k]
    BY <1>4, <1>7 DEF IInv, TypeOK
  <2>5. entry.Ticket \in TicketsIn(entries)
    BY <1>2, <2>2 DEF TicketsIn
  <2>6. outcome[entry.Ticket] = "pending"
    BY <1>3, <2>5 DEF IInv, TrackedOnce
  <2>7. UniqueActiveIds'
    BY <2>1 DEF IInv, UniqueActiveIds
  <2>8. TrackedOnce'
    <3>1. (\A k \in Tickets : outcome[k] = "pending" <=> k \in TicketsIn(entries))'
      BY <2>3, <2>4 DEF IInv, TrackedOnce
    <3>2. (\A k \in Tickets :
             outcome[k] = "expired" <=> \E e \in Expirers : k \in TicketsIn(expired[e]))'
      BY <1>4, <2>4, <2>6 DEF IInv, TrackedOnce, TicketsIn, ActiveSlots
    <3>3. (\A i, j \in ActiveSlots(entries) :
             entries[i].Ticket = entries[j].Ticket => i = j)'
      BY <2>1 DEF IInv, TrackedOnce
    <3>4. (\A e, f \in Expirers :
             \A i \in ActiveSlots(expired[e]), j \in ActiveSlots(expired[f]) :
               expired[e][i].Ticket = expired[f][j].Ticket => e = f /\ i = j)'
      BY <1>4 DEF IInv, TrackedOnce, ActiveSlots
    <3>. QED
      BY <3>1, <3>2, <3>3, <3>4 DEF TrackedOnce
  <2>9. Numbered'
    <3>1. issued' = issued /\ expired' = expired
      BY <1>4
    <3>2. entry.Ticket <= issued
      BY <2>6, <1>3, PoolAssumption DEF IInv, TypeOK, Numbered, Tickets
    <3>3. \A f \in Expirers : TicketsIn(expired[f])' \subseteq Tickets
      BY <3>1 DEF IInv, Numbered, TicketsIn, ActiveSlots
    <3>4. \A k \in Tickets : k > issued => k # entry.Ticket
      BY <3>2, PoolAssumption DEF IInv, TypeOK, Tickets
    <3>5. \A k \in Tickets : k > issued' => outcome'[k] = "unused"
      BY <3>1, <3>4, <2>4 DEF IInv, Numbered
    <3>. QED
      BY <3>3, <3>5, <2>3 DEF IInv, Numbered
  <2>. QED
    BY <1>4, <1>6, <2>7, <2>8, <2>9 DEF IInv, NoEarlyTimeout, ActiveSlots
<1>8. CASE ~Releases(entry, finalResponse)
  <2>1. /\ ActiveSlots(entries)' = ActiveSlots(entries)
        /\ \A i \in ActiveSlots(entries) :
             /\ entries'[i].RequestId = entries[i].RequestId
             /\ entries'[i].Ticket = entries[i].Ticket
    BY <1>2, <1>4, <1>5, <1>8 DEF IInv, TypeOK, ActiveSlots, entry
  <2>2. TicketsIn(entries)' = TicketsIn(entries)
    BY <2>1 DEF TicketsIn
  <2>3. UNCHANGED <<outcome, expired, clock, issued>>
    BY <1>4, <1>8
  <2>4. UniqueActiveIds'
    BY <2>1 DEF IInv, UniqueActiveIds
  <2>5. TrackedOnce'
    BY <2>1, <2>2, <2>3 DEF IInv, TrackedOnce, TicketsIn, ActiveSlots
  <2>6. Numbered'
    BY <2>2, <2>3 DEF IInv, Numbered, TicketsIn, ActiveSlots
  <2>. QED
    BY <1>6, <2>3, <2>4, <2>5, <2>6 DEF IInv, NoEarlyTimeout, ActiveSlots
<1>. QED
  BY <1>7, <1>8

LEMMA ExpireCollectInvariant ==
  ASSUME IInv, NEW e \in Expirers, NEW now \in 0 .. clock, ExpireCollect(e, now)
  PROVE  IInv'
<1>. DEFINE due  == DueSlots(now)
            snap == Snapshot(now)
<1>1. /\ entries' = [i \in Slots |-> IF i \in due THEN Cleared ELSE entries[i]]
      /\ expired' = [expired EXCEPT ![e] = snap]
      /\ outcome' = [k \in Tickets |-> IF k \in TicketsIn(snap) THEN "expired"
                                                              ELSE outcome[k]]
      /\ UNCHANGED <<clock, reply, issued>>
  BY DEF ExpireCollect, AfterCollect
<1>2. /\ due \in SUBSET ActiveSlots(entries)
      /\ \A i \in due : entries[i].DeadlineMilliseconds <= clock
  BY PoolAssumption DEF DueSlots, IsDue, ActiveSlots, IInv, TypeOK, Entry, Times
<1>3. /\ ActiveSlots(snap) = due
      /\ \A i \in due : snap[i] = entries[i]
      /\ snap \in [Slots -> Entry]
  BY <1>2, ClearedIsEntry DEF Snapshot, ActiveSlots, Cleared, IInv, TypeOK
<1>4. /\ ActiveSlots(entries)' = ActiveSlots(entries) \ due
      /\ \A i \in ActiveSlots(entries) \ due : entries'[i] = entries[i]
  BY <1>1, <1>2 DEF ActiveSlots, Cleared
<1>. HIDE DEF due, snap
<1>5. TypeOK'
  BY <1>1, <1>3, ClearedIsEntry DEF IInv, TypeOK, Outcomes
<1>6. /\ expired'[e] = snap
      /\ \A f \in Expirers : f # e => expired'[f] = expired[f]
  BY <1>1 DEF IInv, TypeOK
<1>7. TicketsIn(snap) = {entries[i].Ticket : i \in due}
  BY <1>3 DEF TicketsIn
<1>8. TicketsIn(entries)' = TicketsIn(entries) \ TicketsIn(snap)
  <2>1. TicketsIn(entries)' = {entries[i].Ticket : i \in ActiveSlots(entries) \ due}
    BY <1>4 DEF TicketsIn
  <2>2. \A i \in ActiveSlots(entries) \ due, j \in due :
          entries[i].Ticket # entries[j].Ticket
    BY <1>2 DEF IInv, TrackedOnce
  <2>. QED
    BY <2>1, <2>2, <1>2, <1>7 DEF TicketsIn
<1>9. TicketsIn(snap) \subseteq TicketsIn(entries)
  BY <1>2, <1>7 DEF TicketsIn
<1>10. TicketsIn(expired[e]) = {}
  BY DEF ExpireCollect, Idle, TicketsIn
<1>11. \A f \in Expirers :
         TicketsIn(expired[f])' = IF f = e THEN TicketsIn(snap) ELSE TicketsIn(expired[f])
  BY <1>6 DEF TicketsIn, ActiveSlots
<1>12. UniqueActiveIds'
  BY <1>4 DEF IInv, UniqueActiveIds
<1>13. TrackedOnce'
  <2>1. (\A k \in Tickets : outcome[k] = "pending" <=> k \in TicketsIn(entries))'
    BY <1>1, <1>8, <1>9 DEF IInv, TrackedOnce
  <2>2. (\A k \in Tickets :
           outcome[k] = "expired" <=> \E f \in Expirers : k \in TicketsIn(expired[f]))'
    BY <1>1, <1>9, <1>10, <1>11 DEF IInv, TrackedOnce
  <2>3. (\A i, j \in ActiveSlots(entries) :
           entries[i].Ticket = entries[j].Ticket => i = j)'
    BY <1>4 DEF IInv, TrackedOnce
  <2>4. \A i, j \in due : snap[i].Ticket = snap[j].Ticket => i = j
    BY <1>2, <1>3 DEF IInv, TrackedOnce
  <2>5. \A f \in Expirers : TicketsIn(expired[f]) \cap TicketsIn(snap) = {}
    BY <1>9 DEF IInv, TrackedOnce, Numbered
  <2>6. \A f \in Expirers : \A i \in ActiveSlots(expired[f]), j \in due :
          expired[f][i].Ticket # snap[j].Ticket
    BY <2>5, <1>3 DEF TicketsIn
  <2>7. \A f \in Expirers :
          /\ ActiveSlots(expired[f])' = IF f = e THEN due ELSE ActiveSlots(expired[f])
          /\ expired'[f] = IF f = e THEN snap ELSE expired[f]
    BY <1>3, <1>6 DEF ActiveSlots
  <2>8. (\A f, g \in Expirers :
           \A i \in ActiveSlots(expired[f]), j \in ActiveSlots(expired[g]) :
             expired[f][i].Ticket = expired[g][j].Ticket => f = g /\ i = j)'
    <3>. SUFFICES ASSUME NEW f \in Expirers, NEW g \in Expirers,
                         NEW i \in ActiveSlots(expired[f])',
                         NEW j \in ActiveSlots(expired[g])',
                         expired'[f][i].Ticket = expired'[g][j].Ticket
                  PROVE  f = g /\ i = j
      BY Zenon
    <3>1. CASE f = e /\ g = e
      BY <3>1, <2>4, <2>7
    <3>2. CASE f = e /\ g # e
      BY <3>2, <2>6, <2>7
    <3>3. CASE f # e /\ g = e
      BY <3>3, <2>6, <2>7
    <3>4. CASE f # e /\ g # e
      BY <3>4, <2>7 DEF IInv, TrackedOnce
    <3>. QED
      BY <3>1, <3>2, <3>3, <3>4
  <2>. QED
    BY <2>1, <2>2, <2>3, <2>8 DEF TrackedOnce
<1>14. NoEarlyTimeout'
  <2>. SUFFICES ASSUME NEW f \in Expirers, NEW i \in ActiveSlots(expired[f])'
                PROVE  expired'[f][i].DeadlineMilliseconds <= clock
    BY <1>1 DEF NoEarlyTimeout
  <2>1. CASE f = e
    BY <2>1, <1>2, <1>3, <1>6 DEF ActiveSlots
  <2>2. CASE f # e
    BY <2>2, <1>6 DEF ActiveSlots, IInv, NoEarlyTimeout
  <2>. QED
    BY <2>1, <2>2
<1>15. Numbered'
  <2>1. \A k \in TicketsIn(snap) : outcome[k] = "pending" /\ k \in Tickets
    BY <1>9 DEF IInv, Numbered, TrackedOnce
  <2>2. \A k \in Tickets : k > issued => k \notin TicketsIn(snap)
    BY <2>1 DEF IInv, Numbered
  <2>. QED
    BY <1>1, <1>8, <1>11, <2>1, <2>2 DEF IInv, Numbered
<1>. QED
  BY <1>5, <1>12, <1>13, <1>14, <1>15 DEF IInv

\* A step that only takes entries out of the snapshot of one expirer, and
\* moves exactly their requests out of the state "expired".
LEMMA SnapshotShrinkInvariant ==
  ASSUME IInv, NEW e \in Expirers, NEW rest \in [Slots -> Entry],
         ActiveSlots(rest) \subseteq ActiveSlots(expired[e]),
         \A i \in ActiveSlots(rest) : rest[i] = expired[e][i],
         expired' = [expired EXCEPT ![e] = rest],
         outcome' \in [Tickets -> Outcomes],
         \A k \in Tickets :
           IF k \in TicketsIn(expired[e]) \ TicketsIn(rest)
           THEN outcome'[k] \in {"reported", "dropped"}
           ELSE outcome'[k] = outcome[k],
         UNCHANGED <<entries, clock, reply, issued>>
  PROVE  IInv'
<1>1. TypeOK'
  BY DEF IInv, TypeOK
<1>2. /\ expired'[e] = rest
      /\ \A f \in Expirers : f # e => expired'[f] = expired[f]
  BY DEF IInv, TypeOK
<1>3. \A f \in Expirers :
        /\ ActiveSlots(expired[f])' \subseteq ActiveSlots(expired[f])
        /\ \A i \in ActiveSlots(expired[f])' : expired'[f][i] = expired[f][i]
  BY <1>2 DEF ActiveSlots
<1>4. \A f \in Expirers :
        TicketsIn(expired[f])' = IF f = e THEN TicketsIn(rest) ELSE TicketsIn(expired[f])
  BY <1>2 DEF TicketsIn, ActiveSlots
<1>5. TicketsIn(rest) \subseteq TicketsIn(expired[e])
  BY DEF TicketsIn
<1>6. /\ ActiveSlots(entries)' = ActiveSlots(entries)
      /\ TicketsIn(entries)' = TicketsIn(entries)
  BY DEF ActiveSlots, TicketsIn
<1>7. \A k \in TicketsIn(expired[e]) : k \in Tickets /\ outcome[k] = "expired"
  BY DEF IInv, Numbered, TrackedOnce
<1>8. \A f \in Expirers : f # e => TicketsIn(expired[f]) \cap TicketsIn(expired[e]) = {}
  BY DEF IInv, TrackedOnce, TicketsIn
<1>9. UniqueActiveIds'
  BY <1>6 DEF IInv, UniqueActiveIds
<1>10. TrackedOnce'
  <2>1. (\A k \in Tickets : outcome[k] = "pending" <=> k \in TicketsIn(entries))'
    BY <1>6, <1>7 DEF IInv, TrackedOnce
  <2>2. (\A k \in Tickets :
           outcome[k] = "expired" <=> \E f \in Expirers : k \in TicketsIn(expired[f]))'
    BY <1>4, <1>5, <1>7, <1>8 DEF IInv, TrackedOnce
  <2>3. (\A i, j \in ActiveSlots(entries) :
           entries[i].Ticket = entries[j].Ticket => i = j)'
    BY <1>6 DEF IInv, TrackedOnce
  <2>4. (\A f, g \in Expirers :
           \A i \in ActiveSlots(expired[f]), j \in ActiveSlots(expired[g]) :
             expired[f][i].Ticket = expired[g][j].Ticket => f = g /\ i = j)'
    BY <1>3 DEF IInv, TrackedOnce
  <2>. QED
    BY <2>1, <2>2, <2>3, <2>4 DEF TrackedOnce
<1>11. NoEarlyTimeout'
  BY <1>3 DEF IInv, NoEarlyTimeout
<1>12. Numbered'
  <2>1. \A k \in Tickets : k > issued => k \notin TicketsIn(expired[e])
    BY <1>7 DEF IInv, Numbered
  <2>. QED
    BY <2>1, <1>4, <1>5, <1>6 DEF IInv, Numbered
<1>. QED
  BY <1>1, <1>9, <1>10, <1>11, <1>12 DEF IInv

\* The next entry to be called back, and the ticket it carries.
LEMMA NextReport ==
  ASSUME IInv, NEW e \in Expirers, ~Idle(e)
  PROVE  LET slot == Min(ActiveSlots(expired[e]))
         IN  /\ slot \in ActiveSlots(expired[e]) /\ slot \in Slots
             /\ expired[e][slot].Ticket \in TicketsIn(expired[e])
             /\ expired[e][slot].Ticket \in Tickets
<1>1. Min(ActiveSlots(expired[e])) \in ActiveSlots(expired[e])
  <2>1. ActiveSlots(expired[e]) \in SUBSET Slots
    BY DEF ActiveSlots
  <2>. QED
    BY <2>1, MinIsMember DEF Idle
<1>. QED
  BY <1>1 DEF TicketsIn, ActiveSlots, IInv, Numbered

LEMMA ExpireReportInvariant ==
  ASSUME IInv, NEW e \in Expirers, ExpireReport(e)
  PROVE  IInv'
<1>. DEFINE slot   == Min(ActiveSlots(expired[e]))
            ticket == expired[e][slot].Ticket
            rest   == [expired[e] EXCEPT ![slot] = Cleared]
<1>1. /\ slot \in ActiveSlots(expired[e]) /\ slot \in Slots
      /\ ticket \in TicketsIn(expired[e]) /\ ticket \in Tickets
  BY NextReport DEF ExpireReport
<1>2. /\ outcome' = [outcome EXCEPT ![ticket] = "reported"]
      /\ expired' = [expired EXCEPT ![e][slot] = Cleared]
      /\ UNCHANGED <<entries, clock, reply, issued>>
  BY DEF ExpireReport
<1>3. expired[e] \in [Slots -> Entry] /\ outcome \in [Tickets -> Outcomes]
  BY DEF IInv, TypeOK
<1>. HIDE DEF slot
<1>4. /\ rest \in [Slots -> Entry]
      /\ ActiveSlots(rest) = ActiveSlots(expired[e]) \ {slot}
      /\ \A i \in ActiveSlots(rest) : rest[i] = expired[e][i]
  BY <1>1, <1>3, ClearedIsEntry DEF ActiveSlots, Cleared
<1>5. TicketsIn(expired[e]) \ TicketsIn(rest) = {ticket}
  <2>1. \A i \in ActiveSlots(rest) : rest[i].Ticket # ticket
    BY <1>1, <1>4 DEF IInv, TrackedOnce
  <2>2. \A i \in ActiveSlots(expired[e]) :
          i = slot \/ (i \in ActiveSlots(rest) /\ rest[i].Ticket = expired[e][i].Ticket)
    BY <1>4
  <2>. HIDE DEF rest
  <2>. QED
    BY <2>1, <2>2, <1>1 DEF TicketsIn
<1>6. expired' = [expired EXCEPT ![e] = rest]
  BY <1>2
<1>7. /\ outcome' \in [Tickets -> Outcomes]
      /\ \A k \in Tickets : IF k \in {ticket}
                            THEN outcome'[k] \in {"reported", "dropped"}
                            ELSE outcome'[k] = outcome[k]
  BY <1>1, <1>2, <1>3 DEF Outcomes
<1>. HIDE DEF rest, ticket
<1>. QED
  BY <1>2, <1>4, <1>5, <1>6, <1>7, SnapshotShrinkInvariant

LEMMA ExpireThrowInvariant ==
  ASSUME IInv, NEW e \in Expirers, ExpireThrow(e)
  PROVE  IInv'
<1>. DEFINE slot   == Min(ActiveSlots(expired[e]))
            ticket == expired[e][slot].Ticket
<1>1. ticket \in TicketsIn(expired[e]) /\ ticket \in Tickets
  BY NextReport DEF ExpireThrow
<1>2. /\ outcome' = [k \in Tickets |->
                       CASE k = ticket -> "reported"
                         [] k \in TicketsIn(expired[e]) \ {ticket} -> "dropped"
                         [] OTHER -> outcome[k]]
      /\ expired' = [expired EXCEPT ![e] = EmptyTable]
      /\ UNCHANGED <<entries, clock, reply, issued>>
  BY DEF ExpireThrow
<1>. HIDE DEF ticket
<1>3. EmptyTable \in [Slots -> Entry] /\ TicketsIn(EmptyTable) = {}
  BY ClearedIsEntry, EmptyTableActive DEF EmptyTable, TicketsIn
<1>4. /\ outcome' \in [Tickets -> Outcomes]
      /\ \A k \in Tickets : IF k \in TicketsIn(expired[e]) \ TicketsIn(EmptyTable)
                            THEN outcome'[k] \in {"reported", "dropped"}
                            ELSE outcome'[k] = outcome[k]
  BY <1>1, <1>2, <1>3 DEF IInv, TypeOK, Outcomes
<1>. QED
  BY <1>2, <1>3, <1>4, EmptyTableActive, SnapshotShrinkInvariant

\* A step that leaves the tables and their history alone: an early return, a
\* tick of the clock, or no step at all.
LEMMA QuietInvariant ==
  ASSUME IInv, UNCHANGED <<entries, expired, issued, outcome>>,
         reply' \in Statuses, clock' \in Times, clock <= clock'
  PROVE  IInv'
<1>1. TypeOK'
  BY DEF IInv, TypeOK
<1>2. UniqueActiveIds'
  BY DEF IInv, UniqueActiveIds, ActiveSlots
<1>3. TrackedOnce'
  BY DEF IInv, TrackedOnce, TicketsIn, ActiveSlots
<1>4. NoEarlyTimeout'
  BY PoolAssumption
     DEF IInv, TypeOK, NoEarlyTimeout, ActiveSlots, Entry, Times
<1>5. Numbered'
  BY DEF IInv, Numbered, TicketsIn, ActiveSlots
<1>. QED
  BY <1>1, <1>2, <1>3, <1>4, <1>5 DEF IInv

LEMMA StepInvariant == IInv /\ [Next]_vars => IInv'
<1>. SUFFICES ASSUME IInv, [Next]_vars PROVE IInv'
  OBVIOUS
<1>0. clock \in Times /\ clock <= clock /\ reply \in Statuses
  BY PoolAssumption DEF IInv, TypeOK, Times
<1>1. ASSUME NEW id \in RequestIds, AddDuplicate(id) PROVE IInv'
  BY <1>0, <1>1, QuietInvariant DEF AddDuplicate, Statuses
<1>2. ASSUME NEW id \in RequestIds, AddExhausted(id) PROVE IInv'
  BY <1>0, <1>2, QuietInvariant DEF AddExhausted, Statuses
<1>3. ASSUME NEW id \in RequestIds, CompleteNotFound(id) PROVE IInv'
  BY <1>0, <1>3, QuietInvariant DEF CompleteNotFound, Statuses
<1>4. CASE Tick
  <2>1. clock' \in Times /\ clock <= clock'
    BY <1>0, <1>4, PoolAssumption DEF Tick, Times
  <2>. QED
    BY <1>0, <1>4, <2>1, QuietInvariant DEF Tick
<1>5. CASE UNCHANGED vars
  BY <1>0, <1>5, QuietInvariant DEF vars
<1>. QED
  BY <1>1, <1>2, <1>3, <1>4, <1>5, AddSuccessInvariant, CompleteSuccessInvariant,
     ExpireCollectInvariant, ExpireReportInvariant, ExpireThrowInvariant
     DEF Next, Add, Complete, Expire

-----------------------------------------------------------------------------
\* The invariant holds in every reachable state.
THEOREM Invariant == Spec => []IInv
BY InitInvariant, StepInvariant, PTL DEF Spec

\* Every variable keeps its type, for any width of the response counter.
THEOREM TypeCorrect == Spec => []TypeOK
<1>1. IInv => TypeOK
  BY DEF IInv
<1>. QED
  BY <1>1, Invariant, PTL

\* At any capacity and with any holes in the table, an identifier names at
\* most one outstanding request.
THEOREM UniqueIds == Spec => []UniqueActiveIds
<1>1. IInv => UniqueActiveIds
  BY DEF IInv
<1>. QED
  BY <1>1, Invariant, PTL

\* With any number of threads inside Expire, an accepted request is in exactly
\* one slot or exactly one snapshot until it is resolved.
THEOREM RequestsTrackedOnce == Spec => []TrackedOnce
<1>1. IInv => TrackedOnce
  BY DEF IInv
<1>. QED
  BY <1>1, Invariant, PTL

\* No request is taken as expired before its deadline.
THEOREM NoRequestTimesOutEarly == Spec => []NoEarlyTimeout
<1>1. IInv => NoEarlyTimeout
  BY DEF IInv
<1>. QED
  BY <1>1, Invariant, PTL

\* What the invariant says of the tickets a step reads.
LEMMA TicketsKnown ==
  ASSUME IInv
  PROVE  /\ \A i \in ActiveSlots(entries) :
              entries[i].Ticket \in Tickets /\ outcome[entries[i].Ticket] = "pending"
         /\ \A e \in Expirers : \A k \in TicketsIn(expired[e]) :
              k \in Tickets /\ outcome[k] = "expired"
BY DEF IInv, Numbered, TrackedOnce, TicketsIn

LEMMA OutcomeStep ==
  ASSUME IInv, [Next]_vars, NEW k \in Tickets, outcome'[k] # outcome[k]
  PROVE  MayBecome(outcome[k], outcome'[k])
<1>0. outcome \in [Tickets -> Outcomes]
  BY DEF IInv, TypeOK
<1>1. ASSUME NEW id \in RequestIds, NEW destination \in Destinations,
             NEW deadline \in Times, NEW mode \in Modes,
             AddSuccess(id, destination, deadline, mode)
      PROVE  MayBecome(outcome[k], outcome'[k])
  <2>1. issued + 1 > issued
    BY DEF IInv, TypeOK
  <2>2. k = issued + 1 /\ outcome'[k] = "pending"
    BY <1>0, <1>1 DEF AddSuccess
  <2>. QED
    BY <2>1, <2>2 DEF IInv, Numbered, MayBecome
<1>2. ASSUME NEW id \in RequestIds, NEW finalResponse \in BOOLEAN,
             CompleteSuccess(id, finalResponse)
      PROVE  MayBecome(outcome[k], outcome'[k])
  <2>1. Min(SlotsHolding(id)) \in SlotsHolding(id)
    <3>1. SlotsHolding(id) \in SUBSET Slots
      BY DEF SlotsHolding, ActiveSlots
    <3>. QED
      BY <1>2, <3>1, MinIsMember DEF CompleteSuccess
  <2>2. outcome[entries[Min(SlotsHolding(id))].Ticket] = "pending"
    BY <2>1, TicketsKnown DEF SlotsHolding
  <2>3. k = entries[Min(SlotsHolding(id))].Ticket /\ outcome'[k] = "completed"
    BY <1>0, <1>2 DEF CompleteSuccess
  <2>. QED
    BY <2>2, <2>3 DEF MayBecome
<1>3. ASSUME NEW e \in Expirers, NEW now \in 0 .. clock, ExpireCollect(e, now)
      PROVE  MayBecome(outcome[k], outcome'[k])
  <2>1. k \in TicketsIn(Snapshot(now)) /\ outcome'[k] = "expired"
    BY <1>3 DEF ExpireCollect
  <2>2. \A i \in ActiveSlots(Snapshot(now)) :
          i \in ActiveSlots(entries) /\ Snapshot(now)[i] = entries[i]
    BY DEF Snapshot, DueSlots, IsDue, ActiveSlots, Cleared
  <2>3. outcome[k] = "pending"
    BY <2>1, <2>2, TicketsKnown DEF TicketsIn
  <2>. QED
    BY <2>1, <2>3 DEF MayBecome
<1>4. ASSUME NEW e \in Expirers, ExpireReport(e)
      PROVE  MayBecome(outcome[k], outcome'[k])
  <2>1. k \in TicketsIn(expired[e]) /\ outcome'[k] = "reported"
    BY <1>0, <1>4, NextReport DEF ExpireReport
  <2>. QED
    BY <2>1, TicketsKnown DEF MayBecome
<1>5. ASSUME NEW e \in Expirers, ExpireThrow(e)
      PROVE  MayBecome(outcome[k], outcome'[k])
  <2>1. k \in TicketsIn(expired[e]) /\ outcome'[k] \in {"reported", "dropped"}
    BY <1>5, NextReport DEF ExpireThrow
  <2>. QED
    BY <2>1, TicketsKnown DEF MayBecome
<1>6. ASSUME UNCHANGED outcome PROVE FALSE
  BY <1>6
<1>. QED
  BY <1>1, <1>2, <1>3, <1>4, <1>5, <1>6
     DEF Next, vars, Add, Complete, Expire, Tick, AddDuplicate, AddExhausted,
         CompleteNotFound

\* Completing and expiring exclude each other for one request, and a resolved
\* request is never resolved again, in every interleaving of any number of
\* threads.
THEOREM OutcomesAreFinal == Spec => OutcomeIsFinal
<1>1. IInv /\ [Next]_vars
        => [\A k \in Tickets :
              outcome'[k] # outcome[k] => MayBecome(outcome[k], outcome'[k])]_vars
  BY OutcomeStep
<1>. QED
  BY <1>1, Invariant, PTL DEF Spec, OutcomeIsFinal

-----------------------------------------------------------------------------
(* The pool implements the tracker.  What the refinement mapping makes of a *)
(* table depends on its active entries only, and tells them apart by their  *)
(* tickets.                                                                 *)

Overdue == UNION {RequestsIn(expired[e]) : e \in Expirers}

\* Two tables with the same active entries hold the same requests.
LEMMA RequestsOfTables ==
  ASSUME NEW t, NEW u, ActiveSlots(t) = ActiveSlots(u),
         \A i \in ActiveSlots(u) : Request(t[i]) = Request(u[i])
  PROVE  RequestsIn(t) = RequestsIn(u)
BY DEF RequestsIn

\* A slot per request, and no slot left over once there is none free.
LEMMA RequestCount ==
  ASSUME IInv
  PROVE  /\ FreeSlots(entries) # {} => Cardinality(RequestsIn(entries)) < Capacity
         /\ FreeSlots(entries) = {} => Cardinality(RequestsIn(entries)) = Capacity
<1>. DEFINE f == [i \in ActiveSlots(entries) |-> Request(entries[i])]
<1>1. IsFiniteSet(Slots) /\ Cardinality(Slots) = Capacity
  BY PoolAssumption, FS_Interval DEF Slots
<1>2. f \in Bijection(ActiveSlots(entries), RequestsIn(entries))
  <2>1. f \in [ActiveSlots(entries) -> RequestsIn(entries)]
    BY DEF RequestsIn
  <2>2. \A r \in RequestsIn(entries) : \E i \in ActiveSlots(entries) : f[i] = r
    BY DEF RequestsIn
  <2>3. \A i, j \in ActiveSlots(entries) : f[i] = f[j] => i = j
    BY DEF Request, IInv, TrackedOnce
  <2>. HIDE DEF f
  <2>. QED
    BY <2>1, <2>2, <2>3 DEF Bijection, Injection, Surjection, IsInjective
<1>3. /\ ActiveSlots(entries) \subseteq Slots
      /\ IsFiniteSet(ActiveSlots(entries))
  BY <1>1, FS_Subset DEF ActiveSlots
<1>4. Cardinality(RequestsIn(entries)) = Cardinality(ActiveSlots(entries))
  BY <1>2, <1>3, FS_Bijection DEF ExistsBijection
<1>5. CASE FreeSlots(entries) = {}
  <2>1. ActiveSlots(entries) = Slots
    BY <1>5 DEF ActiveSlots, FreeSlots
  <2>. QED
    BY <1>1, <1>4, <1>5, <2>1
<1>6. CASE FreeSlots(entries) # {}
  <2>1. ActiveSlots(entries) # Slots
    BY <1>6 DEF ActiveSlots, FreeSlots
  <2>2. Cardinality(ActiveSlots(entries)) < Cardinality(Slots)
    BY <1>1, <1>3, <2>1, FS_Subset, FS_CardinalityType
  <2>. QED
    BY <1>1, <1>4, <1>6, <2>2
<1>. QED
  BY <1>5, <1>6

\* The tracker counts as the pool does.
LEMMA SameCardinality ==
  ASSUME NEW S
  PROVE  Tracker!Cardinality(S) = Cardinality(S)
BY DEF Cardinality, Tracker!Cardinality

\* The tracker knows the identifiers that some slot holds.
LEMMA KnownToBoth ==
  ASSUME NEW id
  PROVE  Tracker!Known(id) <=> SlotsHolding(id) # {}
<1>1. Tracker!Known(id) <=> \E i \in ActiveSlots(entries) : Request(entries[i]).id = id
  BY DEF Tracker!Known, RequestsIn
<1>2. \A i : Request(entries[i]).id = entries[i].RequestId
  BY DEF Request
<1>. QED
  BY <1>1, <1>2 DEF SlotsHolding

LEMMA InitIsTrackers == IInv /\ Init => Tracker!Init
<1>. SUFFICES ASSUME Init PROVE Tracker!Init
  OBVIOUS
<1>1. RequestsIn(entries) = {} /\ \A e \in Expirers : RequestsIn(expired[e]) = {}
  BY EmptyTableActive DEF Init, RequestsIn
<1>. QED
  BY <1>1 DEF Init, Tracker!Init

\* A step that leaves the tables alone leaves the requests alone.
LEMMA SameTables ==
  /\ entries' = entries => RequestsIn(entries)' = RequestsIn(entries)
  /\ expired' = expired => Overdue' = Overdue
<1>1. entries' = entries => RequestsIn(entries)' = RequestsIn(entries)
  BY DEF RequestsIn, ActiveSlots
<1>2. ASSUME expired' = expired PROVE Overdue' = Overdue
  BY <1>2 DEF Overdue, RequestsIn, ActiveSlots
<1>. QED
  BY <1>1, <1>2

LEMMA AddSuccessAccepts ==
  ASSUME IInv, NEW id \in RequestIds, NEW destination \in Destinations,
         NEW deadline \in Times, NEW mode \in Modes,
         AddSuccess(id, destination, deadline, mode)
  PROVE  Tracker!Accept(id, destination, deadline, mode)
<1>. DEFINE slot == Min(FreeSlots(entries))
            new  == NewEntry(id, destination, deadline, mode, issued')
<1>1. /\ ~IsDuplicate(id) /\ FreeSlots(entries) # {}
      /\ issued < MaxRequests /\ issued' = issued + 1
      /\ entries' = [entries EXCEPT ![slot] = new]
      /\ reply' = "Success" /\ expired' = expired /\ clock' = clock
  BY DEF AddSuccess
<1>2. slot \in Slots /\ ~entries[slot].Active
  BY <1>1, MinIsMember DEF FreeSlots
<1>3. /\ new.Active
      /\ Request(new) = [id          |-> id,
                         destination |-> destination,
                         deadline    |-> deadline,
                         mode        |-> mode,
                         ticket      |-> issued']
  BY DEF NewEntry, Request
<1>. HIDE DEF slot, new
<1>4. /\ ActiveSlots(entries)' = ActiveSlots(entries) \cup {slot}
      /\ entries'[slot] = new
      /\ \A i \in ActiveSlots(entries) : i # slot /\ entries'[i] = entries[i]
  BY <1>1, <1>2, <1>3 DEF IInv, TypeOK, ActiveSlots
<1>5. RequestsIn(entries)' = RequestsIn(entries) \cup {Request(new)}
  BY <1>4 DEF RequestsIn
<1>6. ~Tracker!Known(id) /\ Cardinality(RequestsIn(entries)) < Capacity
  BY <1>1, KnownToBoth, RequestCount DEF IsDuplicate
<1>7. Overdue' = Overdue
  BY <1>1, SameTables
<1>. QED
  BY <1>1, <1>3, <1>5, <1>6, <1>7, SameCardinality DEF Tracker!Accept, Overdue

LEMMA AddRefuses ==
  ASSUME IInv, NEW id \in RequestIds, AddDuplicate(id) \/ AddExhausted(id)
  PROVE  Tracker!Refuse(id)
<1>1. /\ UNCHANGED <<entries, expired, clock, issued>>
      /\ \/ IsDuplicate(id) /\ reply' = "DuplicateRequestId"
         \/ ~IsDuplicate(id) /\ FreeSlots(entries) = {} /\ reply' = "CapacityExhausted"
  BY DEF AddDuplicate, AddExhausted
<1>2. RequestsIn(entries)' = RequestsIn(entries) /\ Overdue' = Overdue
  BY <1>1, SameTables
<1>3. Tracker!Known(id) <=> IsDuplicate(id)
  BY KnownToBoth DEF IsDuplicate
<1>4. FreeSlots(entries) = {} => Cardinality(RequestsIn(entries)) = Capacity
  BY RequestCount
<1>. QED
  BY <1>1, <1>2, <1>3, <1>4, SameCardinality DEF Tracker!Refuse, Overdue

LEMMA CompleteNotFoundIsUnknown ==
  ASSUME NEW id \in RequestIds, CompleteNotFound(id)
  PROVE  Tracker!AnswerUnknown(id)
<1>1. /\ SlotsHolding(id) = {} /\ reply' = "NotFound"
      /\ UNCHANGED <<entries, expired, clock, issued>>
  BY DEF CompleteNotFound
<1>2. RequestsIn(entries)' = RequestsIn(entries) /\ Overdue' = Overdue
  BY <1>1, SameTables
<1>. QED
  BY <1>1, <1>2, KnownToBoth DEF Tracker!AnswerUnknown, Overdue

\* The one entry a response is credited to is the one request of that name.
LEMMA CompleteSuccessAnswers ==
  ASSUME IInv, NEW id \in RequestIds, NEW finalResponse \in BOOLEAN,
         CompleteSuccess(id, finalResponse)
  PROVE  Tracker!Answer(id, finalResponse)
<1>. DEFINE slot  == Min(SlotsHolding(id))
            entry == entries[slot]
            after == AfterResponse(entry, finalResponse)
<1>1. /\ SlotsHolding(id) # {}
      /\ entries' = [entries EXCEPT ![slot] = after]
      /\ reply' = "Success" /\ expired' = expired /\ clock' = clock /\ issued' = issued
  BY DEF CompleteSuccess
<1>2. slot \in SlotsHolding(id)
  <2>1. SlotsHolding(id) \in SUBSET Slots
    BY DEF SlotsHolding, ActiveSlots
  <2>. QED
    BY <1>1, <2>1, MinIsMember
<1>3. /\ slot \in ActiveSlots(entries) /\ slot \in Slots
      /\ entry \in Entry /\ entry.Active /\ entry.RequestId = id
  BY <1>2 DEF SlotsHolding, ActiveSlots, IInv, TypeOK
<1>4. \A i \in ActiveSlots(entries) : entries[i].RequestId = id <=> i = slot
  BY <1>3 DEF IInv, UniqueActiveIds
<1>5. /\ Releases(entry, finalResponse) => ~after.Active
      /\ ~Releases(entry, finalResponse) => after.Active /\ Request(after) = Request(entry)
  BY <1>3 DEF AfterResponse, CountResponse, Cleared, Request, Entry
<1>6. Releases(entry, finalResponse)
        <=> Request(entry).mode = "Single" \/ finalResponse
  BY DEF Releases, Request
<1>7. \A i : Request(entries[i]).id = entries[i].RequestId
  BY DEF Request
<1>8. Request(entry) = Request(entries[slot])
  OBVIOUS
<1>. HIDE DEF slot, entry, after
<1>9. /\ entries'[slot] = after
      /\ \A i \in ActiveSlots(entries) \ {slot} : entries'[i] = entries[i]
      /\ ActiveSlots(entries)' = IF after.Active THEN ActiveSlots(entries)
                                 ELSE ActiveSlots(entries) \ {slot}
  BY <1>1, <1>3 DEF IInv, TypeOK, ActiveSlots
<1>10. RequestsIn(entries)' =
         {r \in RequestsIn(entries) : r.id # id \/ ~(r.mode = "Single" \/ finalResponse)}
  <2>1. CASE Releases(entry, finalResponse)
    <3>1. RequestsIn(entries)' = {Request(entries[i]) : i \in ActiveSlots(entries) \ {slot}}
      BY <1>5, <1>9, <2>1 DEF RequestsIn
    <3>2. \A i \in ActiveSlots(entries) :
            i # slot <=> (Request(entries[i]).id # id \/
                          ~(Request(entries[i]).mode = "Single" \/ finalResponse))
      BY <1>4, <1>6, <1>7, <1>8, <2>1
    <3>. QED
      BY <3>1, <3>2 DEF RequestsIn
  <2>2. CASE ~Releases(entry, finalResponse)
    <3>1. \A i \in ActiveSlots(entries) : Request(entries'[i]) = Request(entries[i])
      BY <1>5, <1>8, <1>9, <2>2
    <3>2. RequestsIn(entries)' = RequestsIn(entries)
      BY <1>5, <1>9, <2>2, <3>1 DEF RequestsIn
    <3>3. \A i \in ActiveSlots(entries) :
            \/ Request(entries[i]).id # id
            \/ ~(Request(entries[i]).mode = "Single" \/ finalResponse)
      BY <1>4, <1>6, <1>7, <1>8, <2>2
    <3>. QED
      BY <3>2, <3>3 DEF RequestsIn
  <2>. QED
    BY <2>1, <2>2
<1>11. Overdue' = Overdue /\ Tracker!Known(id)
  BY <1>1, SameTables, KnownToBoth
<1>. QED
  BY <1>1, <1>10, <1>11 DEF Tracker!Answer, Overdue

\* What is left in the table was not due, so that exactly the due requests have
\* moved to the other side.
LEMMA ExpireCollectTimesOut ==
  ASSUME IInv, NEW e \in Expirers, NEW now \in 0 .. clock, ExpireCollect(e, now)
  PROVE  Tracker!TimeOut(now)
<1>. DEFINE slots == DueSlots(now)
            snap  == Snapshot(now)
            due   == {r \in RequestsIn(entries) : r.deadline <= now}
<1>1. /\ slots # {} /\ ActiveSlots(expired[e]) = {}
      /\ entries' = [i \in Slots |-> IF i \in slots THEN Cleared ELSE entries[i]]
      /\ expired' = [expired EXCEPT ![e] = snap]
      /\ UNCHANGED <<clock, reply, issued>>
  BY DEF ExpireCollect, Idle, AfterCollect
<1>2. /\ slots \subseteq ActiveSlots(entries)
      /\ \A i \in ActiveSlots(entries) :
           i \in slots <=> entries[i].DeadlineMilliseconds <= now
  BY DEF DueSlots, IsDue, ActiveSlots
<1>3. \A i : Request(entries[i]).deadline = entries[i].DeadlineMilliseconds
  BY DEF Request
<1>4. /\ ActiveSlots(snap) = slots
      /\ \A i \in slots : snap[i] = entries[i]
  BY <1>2 DEF Snapshot, ActiveSlots, Cleared
<1>. HIDE DEF slots, snap
<1>5. due = {Request(entries[i]) : i \in slots}
  BY <1>2, <1>3 DEF RequestsIn
<1>6. RequestsIn(entries)' = RequestsIn(entries) \ due
  <2>1. /\ ActiveSlots(entries)' = ActiveSlots(entries) \ slots
        /\ \A i \in ActiveSlots(entries) \ slots : entries'[i] = entries[i]
    BY <1>1, <1>2 DEF ActiveSlots, Cleared
  <2>2. RequestsIn(entries)' = {Request(entries[i]) : i \in ActiveSlots(entries) \ slots}
    BY <2>1 DEF RequestsIn
  <2>3. \A i \in ActiveSlots(entries) : Request(entries[i]) \in due <=> i \in slots
    BY <1>2, <1>3 DEF RequestsIn
  <2>. HIDE DEF due
  <2>. QED
    BY <2>2, <2>3 DEF RequestsIn
<1>7. RequestsIn(snap) = due /\ RequestsIn(expired[e]) = {}
  BY <1>1, <1>4, <1>5 DEF RequestsIn
<1>. HIDE DEF due
<1>8. Overdue' = Overdue \cup due
  <2>1. /\ expired'[e] = snap
        /\ \A f \in Expirers : f # e => expired'[f] = expired[f]
    BY <1>1 DEF IInv, TypeOK
  <2>2. \A f \in Expirers :
          RequestsIn(expired'[f]) = IF f = e THEN due ELSE RequestsIn(expired[f])
    BY <1>7, <2>1
  <2>3. Overdue' = UNION {RequestsIn(expired'[f]) : f \in Expirers}
    BY DEF Overdue, RequestsIn, ActiveSlots
  <2>. QED
    BY <1>7, <2>2, <2>3 DEF Overdue
<1>9. due # {}
  BY <1>1, <1>5
<1>. QED
  BY <1>1, <1>6, <1>8, <1>9 DEF Tracker!TimeOut, Overdue, due

\* A request is in one snapshot only, so that taking it out of that one takes
\* it out of all.
LEMMA OverdueShrinks ==
  ASSUME IInv, NEW e \in Expirers, NEW rest,
         ActiveSlots(rest) \subseteq ActiveSlots(expired[e]),
         \A i \in ActiveSlots(rest) : rest[i] = expired[e][i],
         expired' = [expired EXCEPT ![e] = rest]
  PROVE  /\ RequestsIn(rest) \subseteq RequestsIn(expired[e])
         /\ RequestsIn(expired[e]) \subseteq Overdue
         /\ Overdue' = Overdue \ (RequestsIn(expired[e]) \ RequestsIn(rest))
<1>1. RequestsIn(rest) \subseteq RequestsIn(expired[e])
  BY DEF RequestsIn
<1>2. \A f \in Expirers : f # e => RequestsIn(expired[f]) \cap RequestsIn(expired[e]) = {}
  <2>. SUFFICES ASSUME NEW f \in Expirers, f # e,
                       NEW i \in ActiveSlots(expired[f]), NEW j \in ActiveSlots(expired[e]),
                       Request(expired[f][i]) = Request(expired[e][j])
                PROVE  FALSE
    BY DEF RequestsIn
  <2>1. expired[f][i].Ticket = expired[e][j].Ticket
    BY DEF Request
  <2>. QED
    BY <2>1 DEF IInv, TrackedOnce
<1>3. \A f \in Expirers :
        RequestsIn(expired'[f]) = IF f = e THEN RequestsIn(rest) ELSE RequestsIn(expired[f])
  <2>1. /\ expired'[e] = rest
        /\ \A f \in Expirers : f # e => expired'[f] = expired[f]
    BY DEF IInv, TypeOK
  <2>. QED
    BY <2>1
<1>4. Overdue' = UNION {RequestsIn(expired'[f]) : f \in Expirers}
  BY DEF Overdue, RequestsIn, ActiveSlots
<1>5. RequestsIn(expired[e]) \subseteq Overdue
  BY DEF Overdue
<1>. QED
  BY <1>1, <1>2, <1>3, <1>4, <1>5 DEF Overdue

LEMMA ExpireReportReports ==
  ASSUME IInv, NEW e \in Expirers, ExpireReport(e)
  PROVE  \E r \in Overdue : Tracker!Report(r)
<1>. DEFINE slot == Min(ActiveSlots(expired[e]))
            rest == [expired[e] EXCEPT ![slot] = Cleared]
            r    == Request(expired[e][slot])
<1>1. slot \in ActiveSlots(expired[e]) /\ slot \in Slots
  BY NextReport DEF ExpireReport
<1>2. /\ expired' = [expired EXCEPT ![e] = rest]
      /\ UNCHANGED <<entries, clock, reply, issued>>
  BY DEF ExpireReport
<1>3. expired[e] \in [Slots -> Entry]
  BY DEF IInv, TypeOK
<1>. HIDE DEF slot
<1>4. /\ ActiveSlots(rest) = ActiveSlots(expired[e]) \ {slot}
      /\ \A i \in ActiveSlots(rest) : rest[i] = expired[e][i]
  BY <1>1, <1>3 DEF ActiveSlots, Cleared
<1>. HIDE DEF rest
<1>5. RequestsIn(expired[e]) \ RequestsIn(rest) = {r} /\ r \in RequestsIn(expired[e])
  <2>1. \A i \in ActiveSlots(rest) : Request(rest[i]) # r
    <3>1. \A i \in ActiveSlots(rest) : rest[i].Ticket # expired[e][slot].Ticket
      BY <1>1, <1>4 DEF IInv, TrackedOnce
    <3>. QED
      BY <3>1 DEF Request
  <2>2. RequestsIn(rest) = {Request(expired[e][i]) : i \in ActiveSlots(expired[e]) \ {slot}}
    BY <1>4 DEF RequestsIn
  <2>3. RequestsIn(expired[e]) = RequestsIn(rest) \cup {r}
    BY <1>1, <2>2 DEF RequestsIn
  <2>4. r \notin RequestsIn(rest)
    BY <2>1 DEF RequestsIn
  <2>. QED
    BY <2>3, <2>4
<1>. HIDE DEF r
<1>6. Overdue' = Overdue \ {r} /\ r \in Overdue
  BY <1>2, <1>4, <1>5, OverdueShrinks
<1>7. RequestsIn(entries)' = RequestsIn(entries)
  BY <1>2, SameTables
<1>8. Tracker!Report(r)
  BY <1>2, <1>6, <1>7 DEF Tracker!Report, Overdue
<1>. QED
  BY <1>6, <1>8

LEMMA ExpireThrowAbandons ==
  ASSUME IInv, NEW e \in Expirers, ExpireThrow(e)
  PROVE  Tracker!Abandon
<1>1. /\ CallbackMayThrow /\ ActiveSlots(expired[e]) # {}
      /\ expired' = [expired EXCEPT ![e] = EmptyTable]
      /\ UNCHANGED <<entries, clock, reply, issued>>
  BY DEF ExpireThrow, Idle
<1>2. RequestsIn(EmptyTable) = {} /\ RequestsIn(expired[e]) # {}
  BY <1>1, EmptyTableActive DEF RequestsIn
<1>3. /\ RequestsIn(expired[e]) \subseteq Overdue
      /\ Overdue' = Overdue \ RequestsIn(expired[e])
  BY <1>1, <1>2, EmptyTableActive, OverdueShrinks
<1>4. RequestsIn(entries)' = RequestsIn(entries)
  BY <1>1, SameTables
<1>. QED
  BY <1>1, <1>2, <1>3, <1>4 DEF Tracker!Abandon, Overdue

LEMMA TickTicks == Tick => Tracker!Tick
<1>. SUFFICES ASSUME Tick PROVE Tracker!Tick
  OBVIOUS
<1>1. RequestsIn(entries)' = RequestsIn(entries) /\ Overdue' = Overdue
  BY SameTables DEF Tick
<1>. QED
  BY <1>1 DEF Tick, Tracker!Tick, Overdue

LEMMA StepIsTrackers == IInv /\ [Next]_vars => [Tracker!Next]_(Tracker!vars)
<1>. SUFFICES ASSUME IInv, [Next]_vars PROVE [Tracker!Next]_(Tracker!vars)
  OBVIOUS
<1>1. ASSUME NEW id \in RequestIds, NEW destination \in Destinations,
             NEW deadline \in Times, NEW mode \in Modes,
             AddSuccess(id, destination, deadline, mode)
      PROVE  Tracker!Next
  <2>1. Tracker!Accept(id, destination, deadline, mode)
    BY <1>1, AddSuccessAccepts
  <2>. QED
    BY <2>1 DEF Tracker!Next, Tracker!Times, Times, Modes
<1>2. ASSUME NEW id \in RequestIds, AddDuplicate(id) \/ AddExhausted(id)
      PROVE  Tracker!Next
  BY <1>2, AddRefuses DEF Tracker!Next
<1>3. ASSUME NEW id \in RequestIds, CompleteNotFound(id) PROVE Tracker!Next
  BY <1>3, CompleteNotFoundIsUnknown DEF Tracker!Next
<1>4. ASSUME NEW id \in RequestIds, NEW finalResponse \in BOOLEAN,
             CompleteSuccess(id, finalResponse)
      PROVE  Tracker!Next
  BY <1>4, CompleteSuccessAnswers DEF Tracker!Next
<1>5. ASSUME NEW e \in Expirers, NEW now \in 0 .. clock, ExpireCollect(e, now)
      PROVE  Tracker!Next
  BY <1>5, ExpireCollectTimesOut DEF Tracker!Next
<1>6. ASSUME NEW e \in Expirers, ExpireReport(e) PROVE Tracker!Next
  BY <1>6, ExpireReportReports DEF Tracker!Next, Overdue
<1>7. ASSUME NEW e \in Expirers, ExpireThrow(e) PROVE Tracker!Next
  BY <1>7, ExpireThrowAbandons DEF Tracker!Next
<1>8. CASE Tick
  BY <1>8, TickTicks DEF Tracker!Next
<1>9. CASE UNCHANGED vars
  <2>1. RequestsIn(entries)' = RequestsIn(entries) /\ Overdue' = Overdue
    BY <1>9, SameTables DEF vars
  <2>. QED
    BY <1>9, <2>1 DEF vars, Tracker!vars, Overdue
<1>. QED
  BY <1>1, <1>2, <1>3, <1>4, <1>5, <1>6, <1>7, <1>8, <1>9
     DEF Next, Add, Complete, Expire

\* The pool is an implementation of the tracker: with any number of slots and
\* of concurrent Expires, no caller can tell it from a set of requests.
THEOREM PoolIsATracker == Spec => ImplementsTracker
<1>1. Spec => Tracker!Spec
  BY Invariant, InitInvariant, InitIsTrackers, StepIsTrackers, PTL DEF Spec, Tracker!Spec
<1>. QED
  BY <1>1 DEF ImplementsTracker

=============================================================================
