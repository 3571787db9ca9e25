------------------------------ MODULE Scheduler ------------------------------
(***************************************************************************)
(* The event scheduler every timed part of the emulator hangs on           *)
(* (core/scheduler.hpp, core/scheduler.cpp), as operators on its state.     *)
(*                                                                         *)
(* A scheduler is a record                                                 *)
(*    list    m_event_list: the types of the queued events, front first;   *)
(*            a list of pointers in the code, so a type that is queued     *)
(*            twice shares one entry of `events'                           *)
(*    events  m_events: one entry per type                                 *)
(*    next    m_next_event_target: the CACHED number of ticks to the next  *)
(*            event, which Tick counts down and only RecalcNextEventTarget *)
(*            recomputes                                                   *)
(*                                                                         *)
(* The code compares and subtracts absolute times; no decision depends on  *)
(* m_current_time itself.  Here every target is RELATIVE to it, so time    *)
(* passing lowers the targets, and the states of a running machine recur.   *)
(* The Idle event, queued at INT64_MAX, is later than everything whatever  *)
(* the time.                                                               *)
(*                                                                         *)
(* The asserts are not evaluated here: the emulator can only run in a      *)
(* build that defines NDEBUG (see the README); what they claim is stated   *)
(* as properties of the modules that call these operators.                 *)
(***************************************************************************)
EXTENDS Integers, Sequences, FiniteSets

CONSTANT Horizon        \* ticks to the Idle event, which stands for INT64_MAX

ASSUME HorizonAssumption == Horizon \in Nat \ {0}

EventType == {"Idle", "Vblank", "Spu", "CdCommand", "CdCommand2", "CdSector",
              "IoAcknowledge"}

Mode == {"Once", "Periodic", "Manual"}

Event == [active : BOOLEAN, mode : Mode, target : Int, period : Nat]

\* An entry of m_events nobody reads before AddEvent overwrites it.
Dormant(active) == [active |-> active, mode |-> "Once", target |-> 0, period |-> 0]

SchedulerState == [list : Seq(EventType), events : [EventType -> Event], next : Int]

Queued(s) == {s.list[i] : i \in DOMAIN s.list}

Copies(s, t) == Cardinality({i \in DOMAIN s.list : s.list[i] = t})

-----------------------------------------------------------------------------
\* The comparison of SortEvents: a->target < b->target.
Earlier(events, a, b) ==
    /\ a # "Idle"
    /\ b = "Idle" \/ events[a].target < events[b].target

\* Position i of q comes before position j in a stable sort of q.
Ahead(q, events, i, j) ==
    \/ Earlier(events, q[i], q[j])
    \/ ~Earlier(events, q[j], q[i]) /\ i < j

\* The elements of q at the positions that rank numbers, by these numbers.
Reorder(q, rank) ==
    [k \in 1 .. Cardinality(DOMAIN rank) |-> q[CHOOSE i \in DOMAIN rank : rank[i] = k]]

\* std::list::sort is stable: equal targets keep the order they had.
SortEvents(q, events) ==
    Reorder(q, [i \in DOMAIN q |-> Cardinality({j \in DOMAIN q : Ahead(q, events, j, i)}) + 1])

\* std::list::remove takes every copy out, and the others keep their order.
Without(q, type) ==
    LET kept == {i \in DOMAIN q : q[i] # type}
    IN  Reorder(q, [i \in kept |-> Cardinality({j \in kept : j < i}) + 1])

RecalcNextEventTarget(s) == [s EXCEPT !.next = s.events[Head(s.list)].target]

Sorted(s) ==
    \A i, j \in DOMAIN s.list : i < j => ~Earlier(s.events, s.list[j], s.list[i])

-----------------------------------------------------------------------------
\* Fault: the new event goes to the back of the list and the list is not sorted.
AddEventUnsorted(s, type, mode, ticks) ==
    RecalcNextEventTarget([s EXCEPT
      !.events[type] = [active |-> TRUE, mode |-> mode, target |-> ticks, period |-> ticks],
      !.list = Append(@, type)])

\* An event that is already queued is queued a second time, and both places
\* in the list see the new target.
AddEvent(s, type, mode, ticks) ==
    LET events == [s.events EXCEPT ![type] =
                     [active |-> TRUE, mode |-> mode, target |-> ticks, period |-> ticks]]
    IN  RecalcNextEventTarget([s EXCEPT
          !.events = events, !.list = SortEvents(Append(s.list, type), events)])

RemoveEvent(s, type) ==
    RecalcNextEventTarget([s EXCEPT
      !.events[type] = Dormant(FALSE), !.list = Without(s.list, type)])

\* Fault: the cached target is not recomputed.
RescheduleEventStale(s, type, ticks) ==
    LET events == [s.events EXCEPT ![type].target = @ + ticks]
    IN  [s EXCEPT !.events = events, !.list = SortEvents(s.list, events)]

RescheduleEvent(s, type, ticks) ==
    LET events == [s.events EXCEPT ![type].target = @ + ticks]
    IN  RecalcNextEventTarget([s EXCEPT
          !.events = events, !.list = SortEvents(s.list, events)])

\* Fault: the period runs down instead of the target.
TickPeriod(s, ticks) ==
    [s EXCEPT
      !.events = [t \in EventType |->
                    IF t \in Queued(s) \ {"Idle"}
                    THEN [s.events[t] EXCEPT !.period = @ - ticks]
                    ELSE s.events[t]],
      !.next = @ - ticks]

\* Tick: m_current_time grows, so every queued target comes nearer.
Tick(s, ticks) ==
    [s EXCEPT
      !.events = [t \in EventType |->
                    IF t \in Queued(s) \ {"Idle"}
                    THEN [s.events[t] EXCEPT !.target = @ - ticks]
                    ELSE s.events[t]],
      !.next = @ - ticks]

\* m_event_list.pop_front(): the cached `next' and the entry's `active' stay.
PopFront(s) ==
    LET rest == Tail(s.list)
        type == Head(s.list)
    IN  [s EXCEPT
          !.list = rest,
          !.events[type] =
             IF \E i \in DOMAIN rest : rest[i] = type THEN @ ELSE Dormant(@.active)]

\* Fault: a periodic event is popped like a Once event.
AfterCallbackPopsPeriodic(s, type) ==
    IF s.events[type].mode = "Manual" THEN s ELSE PopFront(s)

\* One turn of UpdateEvents, after the callback of the event that was at the
\* front has left the scheduler in state s: what is popped is the FRONT, what
\* is rescheduled is the event that fired.
AfterCallback(s, type) ==
    CASE s.events[type].mode = "Once"     -> PopFront(s)
      [] s.events[type].mode = "Periodic" -> RescheduleEvent(s, type, s.events[type].period)
      [] s.events[type].mode = "Manual"   -> s

-----------------------------------------------------------------------------
\* The state the constructor leaves: Idle alone.
IdleScheduler ==
    [list   |-> <<"Idle">>,
     events |-> [t \in EventType |->
                   IF t = "Idle"
                   THEN [active |-> TRUE, mode |-> "Once", target |-> Horizon,
                         period |-> Horizon]
                   ELSE Dormant(FALSE)],
     next   |-> Horizon]

\* ... and the one the Emulator's constructor leaves.
BootScheduler(vblank, spu) ==
    AddEvent(AddEvent(IdleScheduler, "Vblank", "Periodic", vblank), "Spu", "Periodic", spu)

=============================================================================
