------------------------------- MODULE CdcProofs -------------------------------
(***************************************************************************)
(* The safety properties of the CD controller, for every delay, disc and    *)
(* choice of commands that CdcAssumption admits, and that each of its steps *)
(* is one that Emulator.tla allows.                                         *)
(*                                                                         *)
(* Loop is the run loop with everything that is proved about it; its        *)
(* operators and those of Core are the ones Cdc.tla itself extends.         *)
(***************************************************************************)
EXTENDS Cdc, TLAPS

Loop == INSTANCE EmulatorProofs

-----------------------------------------------------------------------------
\* What Emulator.tla assumes of its constants holds here.
LEMMA LoopAssumption ==
  /\ {CyclesPerFrame, SpuPeriod, MaxTicks, MaxSectorCopies} \subseteq Nat \ {0}
  /\ MaxLate \in Nat
  /\ Loop!Delays \subseteq Nat
  /\ \A d \in Loop!Delays : d >= SpuPeriod
PROOF
  BY CdcAssumption DEF Loop!Delays

\* The operators of the scheduler under their three names.
LEMMA SameQueued ==
  \A s : Loop!Queued(s) = Queued(s) /\ Loop!Types(s.list) = Queued(s) /\ Core!Queued(s) = Queued(s)
PROOF
  BY DEF Queued, Loop!Queued, Loop!Types, Core!Queued

LEMMA SameCopies ==
  \A s, t : /\ Loop!Cardinality(Loop!Places(s.list, t)) = Copies(s, t)
            /\ Core!Copies(s, t) = Copies(s, t)
PROOF
  BY DEF Copies, Loop!Places, Core!Copies, Cardinality, Loop!Cardinality, Core!Cardinality

LEMMA SameTypes ==
  /\ Loop!EventType = EventType /\ Loop!SchedulerState = SchedulerState
  /\ Core!SchedulerState = SchedulerState
PROOF
  BY DEF EventType, Loop!EventType, Core!EventType, Event, Loop!Event, Core!Event,
         Mode, Loop!Mode, Core!Mode, SchedulerState, Loop!SchedulerState, Core!SchedulerState

LEMMA SameTick ==
  \A s, n : Loop!Tick(s, n) = Tick(s, n) /\ Core!Tick(s, n) = Tick(s, n)
PROOF
  BY DEF Tick, Loop!Tick, Core!Tick, Queued, Loop!Queued, Core!Queued,
         EventType, Loop!EventType, Core!EventType

LEMMA SameWithout ==
  \A q, t : Loop!Without(q, t) = Without(q, t) /\ Core!Without(q, t) = Without(q, t)
PROOF
  BY DEF Without, Loop!Without, Core!Without, Reorder, Loop!Reorder, Core!Reorder,
         Cardinality, Loop!Cardinality, Core!Cardinality

LEMMA SameRecalc ==
  \A s : /\ Loop!RecalcNextEventTarget(s) = RecalcNextEventTarget(s)
         /\ Core!RecalcNextEventTarget(s) = RecalcNextEventTarget(s)
PROOF
  BY DEF RecalcNextEventTarget, Loop!RecalcNextEventTarget, Core!RecalcNextEventTarget

LEMMA SameSort ==
  \A q, events : /\ Loop!SortEvents(q, events) = SortEvents(q, events)
                 /\ Core!SortEvents(q, events) = SortEvents(q, events)
PROOF
  BY DEF SortEvents, Loop!SortEvents, Core!SortEvents, Reorder, Loop!Reorder, Core!Reorder,
         Ahead, Loop!Ahead, Core!Ahead, Earlier, Loop!Earlier, Core!Earlier,
         Cardinality, Loop!Cardinality, Core!Cardinality

LEMMA SameAddEvent ==
  ASSUME NEW s, NEW t, NEW m, NEW d
  PROVE  /\ Loop!AddEvent(s, t, m, d) = AddEvent(s, t, m, d)
         /\ Core!AddEvent(s, t, m, d) = AddEvent(s, t, m, d)
PROOF
  <1> DEFINE events == [s.events EXCEPT ![t] =
                          [active |-> TRUE, mode |-> m, target |-> d, period |-> d]]
             q == Append(s.list, t)
             With(list) == [s EXCEPT !.events = events, !.list = list]
  <1>1. /\ AddEvent(s, t, m, d) = RecalcNextEventTarget(With(SortEvents(q, events)))
        /\ Loop!AddEvent(s, t, m, d) =
             Loop!RecalcNextEventTarget(With(Loop!SortEvents(q, events)))
        /\ Core!AddEvent(s, t, m, d) =
             Core!RecalcNextEventTarget(With(Core!SortEvents(q, events)))
    BY DEF AddEvent, Loop!AddEvent, Core!AddEvent
  <1> HIDE DEF events, q, With
  <1> QED BY <1>1, SameSort, SameRecalc

LEMMA SameRemoveEvent ==
  \A s, t : /\ Loop!RemoveEvent(s, t) = RemoveEvent(s, t)
            /\ Core!RemoveEvent(s, t) = RemoveEvent(s, t)
PROOF
  BY SameWithout, SameRecalc DEF RemoveEvent, Loop!RemoveEvent, Core!RemoveEvent,
     Dormant, Loop!Dormant, Core!Dormant

LEMMA SameRescheduleEvent ==
  ASSUME NEW s, NEW t, NEW d
  PROVE  /\ Loop!RescheduleEvent(s, t, d) = RescheduleEvent(s, t, d)
         /\ Core!RescheduleEvent(s, t, d) = RescheduleEvent(s, t, d)
PROOF
  <1> DEFINE events == [s.events EXCEPT ![t].target = @ + d]
             With(list) == [s EXCEPT !.events = events, !.list = list]
  <1>1. /\ RescheduleEvent(s, t, d) = RecalcNextEventTarget(With(SortEvents(s.list, events)))
        /\ Loop!RescheduleEvent(s, t, d) =
             Loop!RecalcNextEventTarget(With(Loop!SortEvents(s.list, events)))
        /\ Core!RescheduleEvent(s, t, d) =
             Core!RecalcNextEventTarget(With(Core!SortEvents(s.list, events)))
    BY DEF RescheduleEvent, Loop!RescheduleEvent, Core!RescheduleEvent
  <1> HIDE DEF events, With
  <1> QED BY <1>1, SameSort, SameRecalc

LEMMA SameAfterCallback ==
  \A s, t : /\ Loop!AfterCallback(s, t) = AfterCallback(s, t)
            /\ Core!AfterCallback(s, t) = AfterCallback(s, t)
PROOF
  BY SameRescheduleEvent DEF AfterCallback, Loop!AfterCallback, Core!AfterCallback,
     PopFront, Loop!PopFront, Core!PopFront, Dormant, Loop!Dormant, Core!Dormant

LEMMA SameBoot ==
  /\ Loop!BootScheduler(CyclesPerFrame, SpuPeriod) = BootScheduler(CyclesPerFrame, SpuPeriod)
  /\ Core!BootScheduler(CyclesPerFrame, SpuPeriod) = BootScheduler(CyclesPerFrame, SpuPeriod)
PROOF
  BY SameAddEvent DEF BootScheduler, Loop!BootScheduler, Core!BootScheduler,
     IdleScheduler, Loop!IdleScheduler, Core!IdleScheduler, Dormant, Loop!Dormant, Core!Dormant,
     EventType, Loop!EventType, Core!EventType

LEMMA SameStopReading ==
  ASSUME NEW s, stat.drive_state = "Reading" <=> "CdSector" \in Queued(s)
  PROVE  Loop!StopReading(s) = StopReading(s) /\ Core!StopReading(s) = StopReading(s)
PROOF
  BY SameQueued, SameRemoveEvent DEF StopReading, Loop!StopReading, Core!StopReading

-----------------------------------------------------------------------------
\* What is proved about the scheduler in EmulatorProofs, in the terms of Cdc.tla.
LEMMA SchedulerFacts ==
  ASSUME NEW s, Loop!Consistent(s)
  PROVE  /\ s \in SchedulerState
         /\ Head(s.list) = s.list[1] /\ Head(s.list) \in Queued(s) /\ Head(s.list) # "Idle"
         /\ \A t \in Queued(s) : s.events[t].mode = Loop!ModeOf(t)
PROOF
  <1>1. /\ s \in Loop!SchedulerState /\ s.list # << >> /\ Head(s.list) = s.list[1]
        /\ s.list[1] \in Loop!Types(s.list) /\ s.list[1] \in Loop!EventType \ {"Idle"}
    BY Loop!ConsistentFacts, LoopAssumption, HorizonAssumption
  <1>2. \A t \in Loop!Types(s.list) : s.events[t].mode = Loop!ModeOf(t)
    BY DEF Loop!Consistent
  <1> QED BY <1>1, <1>2, SameTypes, SameQueued

LEMMA BootFacts ==
  /\ Loop!Consistent(BootScheduler(CyclesPerFrame, SpuPeriod))
  /\ Queued(BootScheduler(CyclesPerFrame, SpuPeriod)) = {"Idle", "Vblank", "Spu"}
PROOF
  BY Loop!BootConsistent, LoopAssumption, HorizonAssumption, SameBoot, SameQueued

LEMMA TickFacts ==
  ASSUME NEW s, Loop!Consistent(s), NEW n \in Nat
  PROVE  Loop!Consistent(Tick(s, n)) /\ Tick(s, n).list = s.list
PROOF
  BY Loop!TickConsistent, LoopAssumption, HorizonAssumption, SameTick

LEMMA LoopAddEvent ==
  ASSUME NEW s, Loop!Consistent(s), NEW type \in Loop!EventType \ {"Idle", "Vblank", "Spu"},
         NEW d \in Nat, d >= SpuPeriod,
         type \in Loop!OnceTypes => type \notin Loop!Types(s.list),
         NEW r, r = Loop!AddEvent(s, type, Loop!ModeOf(type), d)
  PROVE  /\ Loop!Consistent(r)
         /\ Loop!Types(r.list) = Loop!Types(s.list) \cup {type}
         /\ s.list[1] # type /\ s.events[s.list[1]].target <= d => r.list[1] = s.list[1]
         /\ \A t \in Loop!EventType \ {type} :
              Loop!Cardinality(Loop!Places(r.list, t)) =
                Loop!Cardinality(Loop!Places(s.list, t))
PROOF
  <1> USE LoopAssumption, HorizonAssumption
  <1>1. Loop!Consistent(r)
    BY Loop!AddEventConsistent
  <1>2. Loop!Types(r.list) = Loop!Types(s.list) \cup {type}
    BY Loop!AddEventConsistent
  <1>3. s.list[1] # type /\ s.events[s.list[1]].target <= d => r.list[1] = s.list[1]
    BY Loop!AddEventConsistent
  <1>4. \A t \in Loop!EventType \ {type} :
          Loop!Cardinality(Loop!Places(r.list, t)) = Loop!Cardinality(Loop!Places(s.list, t))
    BY Loop!AddEventConsistent
  <1> QED BY <1>1, <1>2, <1>3, <1>4

\* A command or a stream of sectors is queued, by the guest or while a command fires.
LEMMA AddFacts ==
  ASSUME NEW s, Loop!Consistent(s), NEW type \in {"CdCommand", "CdSector"},
         type = "CdCommand" => type \notin Queued(s),
         NEW d \in Nat, d >= SpuPeriod,
         NEW r, r = AddEvent(s, type, IF type = "CdSector" THEN "Manual" ELSE "Once", d)
  PROVE  /\ Loop!Consistent(r)
         /\ Queued(r) = Queued(s) \cup {type}
         /\ type # "CdSector" => Copies(r, "CdSector") = Copies(s, "CdSector")
         /\ s.next <= 0 /\ Head(s.list) # type => Head(r.list) = Head(s.list)
PROOF
  <1>1. /\ type \in Loop!EventType \ {"Idle", "Vblank", "Spu"}
        /\ Loop!ModeOf(type) = IF type = "CdSector" THEN "Manual" ELSE "Once"
        /\ type \in Loop!OnceTypes <=> type = "CdCommand"
        /\ "CdSector" \in Loop!EventType
    BY DEF Loop!EventType, Loop!ModeOf, Loop!OnceTypes
  <1>2. /\ r = Loop!AddEvent(s, type, Loop!ModeOf(type), d)
        /\ type \in Loop!OnceTypes => type \notin Loop!Types(s.list)
    BY <1>1, SameAddEvent, SameQueued
  <1>3. Loop!Consistent(r) /\ Loop!Types(r.list) = Loop!Types(s.list) \cup {type}
    BY <1>1, <1>2, LoopAddEvent
  <1>4. s.list[1] # type /\ s.events[s.list[1]].target <= d => r.list[1] = s.list[1]
    BY <1>1, <1>2, LoopAddEvent
  <1>5. \A t \in Loop!EventType \ {type} :
          Loop!Cardinality(Loop!Places(r.list, t)) = Loop!Cardinality(Loop!Places(s.list, t))
    BY <1>1, <1>2, LoopAddEvent
  <1>6. ASSUME s.next <= 0
        PROVE  s.events[s.list[1]].target <= d
    <2>1. s.events[s.list[1]].target <= SpuPeriod
      BY <1>6, Loop!FiringTarget, LoopAssumption, HorizonAssumption
    <2>2. s.events[s.list[1]].target \in Int /\ SpuPeriod \in Nat
      BY Loop!ConsistentFacts, LoopAssumption, HorizonAssumption
    <2> QED BY <2>1, <2>2
  <1>7. Head(s.list) = s.list[1] /\ Head(r.list) = r.list[1]
    BY <1>3, SchedulerFacts
  <1> QED BY <1>1, <1>3, <1>6, <1>7, <1>4, <1>5, SameQueued, SameCopies

\* The event that fires is due within a Spu period, early as it may be.
LEMMA DueFacts ==
  ASSUME NEW s, Loop!Consistent(s), s.next <= 0
  PROVE  s.events[Head(s.list)].target <= SpuPeriod
PROOF
  <1>1. s.events[s.list[1]].target <= SpuPeriod
    BY Loop!FiringTarget, LoopAssumption, HorizonAssumption
  <1> QED BY <1>1, SchedulerFacts

\* A second response is queued behind the command that fires.
LEMMA SecondFacts ==
  ASSUME NEW s, Loop!Consistent(s), Head(s.list) = "CdCommand",
         s.events[Head(s.list)].target <= SpuPeriod, "CdCommand2" \notin Queued(s),
         NEW d \in Nat, d >= SpuPeriod, NEW r, r = AddEvent(s, "CdCommand2", "Once", d)
  PROVE  /\ Loop!Consistent(r) /\ Head(r.list) = "CdCommand"
         /\ Queued(r) = Queued(s) \cup {"CdCommand2"}
PROOF
  <1> USE LoopAssumption, HorizonAssumption
  <1>1. /\ s.list[1] = "CdCommand" /\ s.events[s.list[1]].target <= SpuPeriod
        /\ "CdCommand2" \notin Loop!Types(s.list)
        /\ r = Loop!AddEvent(s, "CdCommand2", "Once", d)
    BY SchedulerFacts, SameQueued, SameAddEvent
  <1>2. Loop!Consistent(r) /\ r.list[1] = "CdCommand"
    BY <1>1, Loop!SecondResponseFacts
  <1>3. Loop!Types(r.list) = Loop!Types(s.list) \cup {"CdCommand2"}
    BY <1>1, Loop!SecondResponseFacts
  <1> QED BY <1>2, <1>3, SchedulerFacts, SameQueued

\* Ending a read takes its event out and leaves the front alone.
LEMMA StopFacts ==
  ASSUME NEW s, Loop!Consistent(s), Head(s.list) # "CdSector",
         stat.drive_state = "Reading" <=> "CdSector" \in Queued(s),
         NEW r, r = StopReading(s)
  PROVE  /\ Loop!Consistent(r)
         /\ Queued(r) = Queued(s) \ {"CdSector"}
         /\ Head(r.list) = Head(s.list)
         /\ r.events[Head(r.list)] = s.events[Head(s.list)]
PROOF
  <1> USE LoopAssumption, HorizonAssumption
  <1>1. s.list[1] # "CdSector" /\ r = Loop!StopReading(s)
    BY SchedulerFacts, SameStopReading
  <1>2. Loop!Consistent(r) /\ Loop!Types(r.list) = Loop!Types(s.list) \ {"CdSector"}
    BY <1>1, Loop!StopReadingFacts
  <1>3. r.list[1] = s.list[1] /\ r.events[r.list[1]] = s.events[s.list[1]]
    BY <1>1, Loop!StopReadingFacts
  <1> QED BY <1>2, <1>3, SchedulerFacts, SameQueued

\* UpdateEvents takes the event of a command or of a second response out, ...
LEMMA OnceFacts ==
  ASSUME NEW s, Loop!Consistent(s), NEW type \in {"CdCommand", "CdCommand2"},
         Head(s.list) = type, NEW r, r = AfterCallback(s, type)
  PROVE  Loop!Consistent(r) /\ Queued(r) = Queued(s) \ {type}
PROOF
  <1> USE LoopAssumption, HorizonAssumption
  <1>1. type \in Loop!OnceTypes /\ s.list[1] = type /\ r = Loop!AfterCallback(s, type)
    BY SchedulerFacts, SameAfterCallback DEF Loop!OnceTypes
  <1>2. Loop!Consistent(r) /\ Loop!Types(r.list) = Loop!Types(s.list) \ {type}
    BY <1>1, Loop!AfterOnce
  <1> QED BY <1>2, SameQueued

\* ... puts a periodic one off by its period, ...
LEMMA PeriodicFacts ==
  ASSUME NEW s, Loop!Consistent(s), s.next <= 0, NEW type \in {"Vblank", "Spu"},
         Head(s.list) = type, NEW r, r = AfterCallback(s, type)
  PROVE  /\ Loop!Consistent(r) /\ Queued(r) = Queued(s)
         /\ Copies(r, "CdSector") = Copies(s, "CdSector")
PROOF
  <1> USE LoopAssumption, HorizonAssumption
  <1>1. s.list[1] = type /\ r = Loop!AfterCallback(s, type)
    BY SchedulerFacts, SameAfterCallback
  <1>2. Loop!Consistent(r) /\ Loop!Types(r.list) = Loop!Types(s.list)
    BY <1>1, Loop!AfterPeriodic
  <1>3. \A t \in Loop!EventType :
          Loop!Cardinality(Loop!Places(r.list, t)) = Loop!Cardinality(Loop!Places(s.list, t))
    BY <1>1, Loop!AfterPeriodic
  <1>4. "CdSector" \in Loop!EventType
    BY DEF Loop!EventType
  <1> QED BY <1>2, <1>3, <1>4, SameQueued, SameCopies

\* ... and leaves the next sector where its callback put it.
LEMMA SectorFacts ==
  ASSUME NEW s, Loop!Consistent(s), "CdSector" \in Queued(s), NEW d \in Nat,
         NEW r, r = AfterCallback(RescheduleEvent(s, "CdSector", d), "CdSector")
  PROVE  /\ Loop!Consistent(r) /\ Queued(r) = Queued(s)
         /\ Copies(r, "CdSector") = Copies(s, "CdSector")
PROOF
  <1> USE LoopAssumption, HorizonAssumption
  <1>1. /\ "CdSector" \in Loop!Types(s.list)
        /\ r = Loop!AfterCallback(Loop!RescheduleEvent(s, "CdSector", d), "CdSector")
    BY SameQueued, SameRescheduleEvent, SameAfterCallback
  <1>2. Loop!Consistent(r) /\ Loop!Types(r.list) = Loop!Types(s.list)
    BY <1>1, Loop!AfterSector
  <1>3. Loop!Cardinality(Loop!Places(r.list, "CdSector")) =
          Loop!Cardinality(Loop!Places(s.list, "CdSector"))
    BY <1>1, Loop!AfterSector
  <1> QED BY <1>2, <1>3, SameQueued, SameCopies

-----------------------------------------------------------------------------
\* What is outstanding.  The busy bit and the drive state say which events are
\* queued (EventsMatchRegisters), and what WriteCommand checked of a command
\* still holds when it is executed: no second response is due, a Test has a
\* sub-command the code knows, a ReadN finds room for another stream of sectors.
\* A second response that is due belongs to a command that has one.
Outstanding ==
  /\ status.busysts <=> "CdCommand" \in Queued(sched)
  /\ stat.drive_state = "Reading" <=> "CdSector" \in Queued(sched)
  /\ status.busysts =>
       /\ command # "Sync"
       /\ "CdCommand2" \notin Queued(sched)
       /\ command = "Test" => parameter_fifo.size > 0 /\ parameter_fifo.first = KnownTest
       /\ command = "ReadN" => Copies(sched, "CdSector") < MaxSectorCopies
  /\ "CdCommand2" \in Queued(sched) => command2 \in HasSecondResponse

StatusBits == [prmempt : BOOLEAN, prmwrdy : BOOLEAN, rslrrdy : BOOLEAN,
               drqsts : BOOLEAN, busysts : BOOLEAN]

\* The part of TypeOK about the controller.
Registers ==
  /\ status \in StatusBits
  /\ stat \in [motor_on : BOOLEAN, drive_state : {"None", "Reading", "Seeking"}]
  /\ drive_speed \in Speed
  /\ command \in Command /\ command2 \in Command
  /\ parameter_fifo \in [size : 0 .. ParameterFifoSize, first : Parameter]
  /\ response_fifo_size \in 0 .. 8
  /\ data_fifo_size \in 0 .. SectorWords
  /\ setloc_timecode \in Sector /\ drive_timecode \in Sector
  /\ setloc_unprocessed \in BOOLEAN
  /\ interrupt_enables \subseteq Bit /\ interrupt_flags \subseteq Bit
  /\ cdrom_irq \in BOOLEAN

IInv ==
  /\ Loop!Consistent(sched)
  /\ pc \in {"cpu", "events", "returned", "stopped", "crashed"}
  /\ frame_finished \in BOOLEAN /\ running \in BOOLEAN
  /\ Registers /\ StatusMatchesFifos /\ Outstanding /\ OnlyTheDiscEnds

\* The scheduler and the run loop take a step of Emulator.tla, or stutter, or
\* the controller raises an Error.
CoreStep == Core!Next \/ pc' = "crashed" \/ UNCHANGED core

LEMMA Implied == IInv => TypeOK /\ EventsMatchRegisters
PROOF
  <1>1. Core!SchedulerState = SchedulerState
    BY SameTypes
  <1>2. Loop!Consistent(sched) => sched \in SchedulerState
    BY SchedulerFacts
  <1> QED BY <1>1, <1>2
    DEF IInv, TypeOK, Core!TypeOK, Registers, StatusBits, EventsMatchRegisters, Outstanding

\* The constants, as the steps use them.
LEMMA DelayFacts ==
  /\ SpuPeriod \in Nat /\ ParameterFifoSize \in Nat \ {0} /\ SectorWords \in Nat \ {0}
  /\ EndOfDisc \in Nat \ {0} /\ MaxTicks \in Nat
  /\ \A c : CommandDelay(c) \in CommandDelays
  /\ \A d \in CommandDelays \cup SecondDelays \cup SectorDelays : d \in Nat /\ d >= SpuPeriod
  /\ SecondTicks \in SecondDelays
  /\ \A v \in Speed : PauseTicks[v] \in SecondDelays /\ SectorTicks[v] \in SectorDelays
PROOF
  <1>1. \A c : CommandDelay(c) \in CommandDelays
    BY DEF CommandDelay, CommandDelays
  <1>2. /\ SecondTicks \in SecondDelays
        /\ \A v \in Speed : PauseTicks[v] \in SecondDelays /\ SectorTicks[v] \in SectorDelays
    BY DEF SecondDelays, SectorDelays
  <1> QED BY <1>1, <1>2, CdcAssumption

\* Setting a bit of the status register leaves the others alone.
LEMMA StatusFacts ==
  \A s \in StatusBits : \A a, b \in BOOLEAN :
    /\ [s EXCEPT !.busysts = a] \in StatusBits
    /\ [s EXCEPT !.rslrrdy = a] \in StatusBits
    /\ [s EXCEPT !.drqsts = a] \in StatusBits
    /\ [s EXCEPT !.prmempt = a, !.prmwrdy = b] \in StatusBits
PROOF
  BY DEF StatusBits

\* The software sends a command.
LEMMA WriteCommandStep ==
  ASSUME IInv, NEW c \in Commands, WriteCommand(c)
  PROVE  IInv' /\ CoreStep
PROOF
  <1> DEFINE d == CommandDelay(c)
  <1>1. c \in Command \ {"Sync"}
    BY CdcAssumption
  <1>2. d \in CommandDelays /\ d \in Nat /\ d >= SpuPeriod
    BY DelayFacts
  <1>3. /\ Loop!Consistent(sched) /\ "CdCommand" \notin Queued(sched)
        /\ "CdCommand2" \notin Queued(sched)
        /\ sched' = AddEvent(sched, "CdCommand", "Once", d)
    BY DEF IInv, Outstanding, WriteCommand
  <1> HIDE DEF d
  <1>4. /\ Loop!Consistent(sched') /\ Queued(sched') = Queued(sched) \cup {"CdCommand"}
        /\ Copies(sched', "CdSector") = Copies(sched, "CdSector")
    BY <1>2, <1>3, AddFacts
  <1>5. Core!SendCommand(d)
    <2>1. Core!AddEvent(sched, "CdCommand", "Once", d) = AddEvent(sched, "CdCommand", "Once", d)
      BY SameAddEvent
    <2> QED BY <1>3, <2>1, SameQueued DEF Core!SendCommand, WriteCommand
  <1>6. CoreStep
    BY <1>2, <1>5 DEF CoreStep, Core!Next, Core!Guest
  <1>7. status' = [status EXCEPT !.busysts = TRUE] /\ command' = c
    BY DEF WriteCommand
  <1>8. status' \in StatusBits
    BY <1>7, StatusFacts DEF IInv, Registers
  <1>9. Registers'
    BY <1>1, <1>7, <1>8 DEF WriteCommand, IInv, Registers, head, ints
  <1>10. StatusMatchesFifos'
    BY <1>7 DEF WriteCommand, IInv, Registers, StatusBits, StatusMatchesFifos
  <1>11. Outstanding'
    <2>1. status'.busysts
      BY <1>7 DEF IInv, Registers, StatusBits
    <2>2. c = "Test" => parameter_fifo.size > 0 /\ parameter_fifo.first = KnownTest
      BY DEF WriteCommand, TakesParameter, ParameterOf
    <2>3. c = "ReadN" => Copies(sched', "CdSector") < MaxSectorCopies
      BY <1>4 DEF WriteCommand
    <2> QED BY <1>1, <1>3, <1>4, <1>7, <2>1, <2>2, <2>3
      DEF IInv, Outstanding, WriteCommand
  <1>12. OnlyTheDiscEnds' /\ UNCHANGED <<pc, frame_finished, running>>
    BY DEF WriteCommand, OnlyTheDiscEnds
  <1> QED BY <1>4, <1>6, <1>9, <1>10, <1>11, <1>12 DEF IInv

\* Its other accesses leave the scheduler alone, and the status bits it went by
\* keep each of them from an Error.
LEMMA OtherGuestStep ==
  ASSUME IInv, Guest, \A c \in Commands : ~WriteCommand(c)
  PROVE  IInv' /\ CoreStep
PROOF
  <1>1. /\ Loop!Consistent(sched) /\ Registers /\ StatusMatchesFifos /\ Outstanding
        /\ OnlyTheDiscEnds
    BY DEF IInv
  <1>2. ParameterFifoSize \in Nat \ {0} /\ SectorWords \in Nat \ {0}
    BY DelayFacts
  <1>3. SUFFICES UNCHANGED core /\ Registers' /\ StatusMatchesFifos' /\ Outstanding'
    <2>1. UNCHANGED core /\ Guest => OnlyTheDiscEnds'
      BY DEF Guest, core, OnlyTheDiscEnds, WriteCommand, WriteParameter, ReadResponse, ReadDma,
             FillDataFifo, WriteInterruptEnables, Acknowledge
    <2> QED BY <1>1, <2>1 DEF IInv, core, CoreStep
  <1>4. ASSUME NEW p \in Parameter, WriteParameter(p)
        PROVE  UNCHANGED core /\ Registers' /\ StatusMatchesFifos' /\ Outstanding'
    <2>1. parameter_fifo.size < ParameterFifoSize /\ parameter_fifo.size \in Nat
      BY <1>1, <1>4 DEF WriteParameter, StatusMatchesFifos, Registers
    <2>2. /\ parameter_fifo' = [size  |-> parameter_fifo.size + 1,
                                first |-> IF parameter_fifo.size = 0
                                          THEN p ELSE parameter_fifo.first]
          /\ status' = [status EXCEPT !.prmempt = FALSE,
                                      !.prmwrdy = parameter_fifo'.size < ParameterFifoSize]
          /\ UNCHANGED core
      BY <1>2, <1>4, <2>1 DEF WriteParameter, core
    <2>3. (parameter_fifo'.size < ParameterFifoSize) \in BOOLEAN
      OBVIOUS
    <2>4. status' \in StatusBits
      BY <1>1, <2>2, <2>3, StatusFacts DEF Registers
    <2>5. parameter_fifo' \in [size : 0 .. ParameterFifoSize, first : Parameter]
      BY <1>1, <1>2, <2>1, <2>2 DEF Registers
    <2>6. Registers'
      BY <1>1, <1>4, <2>4, <2>5 DEF WriteParameter, Registers, head, ints
    <2>7. StatusMatchesFifos'
      BY <1>1, <1>2, <1>4, <2>1, <2>2
         DEF WriteParameter, Registers, StatusMatchesFifos, StatusBits
    <2>8. Outstanding'
      BY <1>1, <1>4, <2>2 DEF WriteParameter, Outstanding, Registers, StatusBits, core
    <2> QED BY <2>2, <2>6, <2>7, <2>8
  <1>5. CASE ReadResponse
    <2>1. response_fifo_size \in 0 .. 8 /\ response_fifo_size # 0
      BY <1>1, <1>5 DEF ReadResponse, StatusMatchesFifos, Registers
    <2>2. /\ response_fifo_size' = response_fifo_size - 1
          /\ status' = [status EXCEPT !.rslrrdy = response_fifo_size' > 0]
          /\ UNCHANGED core
      BY <1>5, <2>1 DEF ReadResponse, core
    <2>3. (response_fifo_size' > 0) \in BOOLEAN
      OBVIOUS
    <2>4. status' \in StatusBits
      BY <1>1, <2>2, <2>3, StatusFacts DEF Registers
    <2>5. response_fifo_size' \in 0 .. 8
      BY <2>1, <2>2
    <2>6. Registers'
      BY <1>1, <1>5, <2>4, <2>5 DEF ReadResponse, Registers, head, ints
    <2>7. StatusMatchesFifos'
      BY <1>1, <1>5, <2>1, <2>2
         DEF ReadResponse, Registers, StatusMatchesFifos, StatusBits
    <2>8. Outstanding'
      BY <1>1, <1>5, <2>2 DEF ReadResponse, Outstanding, Registers, StatusBits, core
    <2> QED BY <2>2, <2>6, <2>7, <2>8
  <1>6. CASE ReadDma
    <2>1. data_fifo_size \in 0 .. SectorWords /\ data_fifo_size > 0
      BY <1>1, <1>6 DEF ReadDma, StatusMatchesFifos, Registers
    <2>2. /\ data_fifo_size' = data_fifo_size - 1
          /\ status' = [status EXCEPT !.drqsts = data_fifo_size' > 0]
          /\ UNCHANGED core
      BY <1>2, <1>6, <2>1 DEF ReadDma, core
    <2>3. (data_fifo_size' > 0) \in BOOLEAN
      OBVIOUS
    <2>4. status' \in StatusBits
      BY <1>1, <2>2, <2>3, StatusFacts DEF Registers
    <2>5. data_fifo_size' \in 0 .. SectorWords
      BY <1>2, <2>1, <2>2
    <2>6. Registers'
      BY <1>1, <1>6, <2>4, <2>5 DEF ReadDma, Registers, head, ints
    <2>7. StatusMatchesFifos'
      BY <1>1, <1>6, <2>1, <2>2
         DEF ReadDma, Registers, StatusMatchesFifos, StatusBits
    <2>8. Outstanding'
      BY <1>1, <1>6, <2>2 DEF ReadDma, Outstanding, Registers, StatusBits, core
    <2> QED BY <2>2, <2>6, <2>7, <2>8
  <1>7. CASE FillDataFifo
    <2>1. status' \in StatusBits
      BY <1>1, <1>7, StatusFacts DEF FillDataFifo, Registers
    <2>2. data_fifo_size' \in 0 .. SectorWords
      BY <1>2, <1>7 DEF FillDataFifo
    <2>3. Registers'
      BY <1>1, <1>7, <2>1, <2>2 DEF FillDataFifo, Registers, head, ints
    <2>4. StatusMatchesFifos'
      BY <1>1, <1>2, <1>7 DEF FillDataFifo, Registers, StatusMatchesFifos, StatusBits
    <2>5. Outstanding'
      BY <1>1, <1>7 DEF FillDataFifo, Outstanding, Registers, StatusBits, core
    <2> QED BY <1>7, <2>3, <2>4, <2>5 DEF FillDataFifo
  <1>8. ASSUME NEW e \in EnableSets, WriteInterruptEnables(e)
        PROVE  UNCHANGED core /\ Registers' /\ StatusMatchesFifos' /\ Outstanding'
    <2>1. e \subseteq Bit
      BY CdcAssumption
    <2>2. Registers' /\ StatusMatchesFifos'
      BY <1>1, <1>8, <2>1 DEF WriteInterruptEnables, Registers, StatusMatchesFifos, head, regs
    <2>3. Outstanding'
      BY <1>1, <1>8 DEF WriteInterruptEnables, Outstanding, Registers, core, regs
    <2> QED BY <1>8, <2>2, <2>3 DEF WriteInterruptEnables
  <1>9. ASSUME NEW a, NEW clear \in BOOLEAN, Acknowledge(a, clear)
        PROVE  UNCHANGED core /\ Registers' /\ StatusMatchesFifos' /\ Outstanding'
    <2>1. CASE clear
      <3>1. /\ ~status.busysts /\ parameter_fifo' = NoParameters
            /\ status' = [status EXCEPT !.prmempt = TRUE, !.prmwrdy = TRUE]
            /\ interrupt_flags' = Bit \ a
        BY <1>9, <2>1 DEF Acknowledge
      <3>2. NoParameters \in [size : 0 .. ParameterFifoSize, first : Parameter]
        BY <1>2, DelayFacts DEF NoParameters, Parameter, Sector
      <3>3. status' \in StatusBits
        BY <1>1, <3>1, StatusFacts DEF Registers
      <3>4. Registers'
        BY <1>1, <1>9, <3>1, <3>2, <3>3 DEF Acknowledge, Registers, head
      <3>5. StatusMatchesFifos'
        BY <1>1, <1>2, <1>9, <3>1
           DEF Acknowledge, Registers, StatusMatchesFifos, StatusBits, NoParameters
      <3>6. Outstanding'
        BY <1>1, <1>9, <3>1 DEF Acknowledge, Outstanding, Registers, StatusBits, core
      <3> QED BY <1>9, <3>4, <3>5, <3>6 DEF Acknowledge
    <2>2. CASE ~clear
      <3>1. UNCHANGED <<parameter_fifo, status>> /\ interrupt_flags' = Bit \ a
        BY <1>9, <2>2 DEF Acknowledge
      <3>2. Registers' /\ StatusMatchesFifos'
        BY <1>1, <1>9, <3>1 DEF Acknowledge, Registers, StatusMatchesFifos, head
      <3>3. Outstanding'
        BY <1>1, <1>9, <3>1 DEF Acknowledge, Outstanding, Registers, StatusBits, core
      <3> QED BY <1>9, <3>2, <3>3 DEF Acknowledge
    <2> QED BY <2>1, <2>2
  <1>10. \A c \in Commands \cap TakesParameter : ParameterOf(c) \subseteq Parameter
    BY CdcAssumption, DelayFacts
       DEF TakesParameter, ParameterOf, Parameter, Sector, KnownTest
  <1> QED BY <1>4, <1>5, <1>6, <1>7, <1>8, <1>9, <1>10 DEF Guest

-----------------------------------------------------------------------------
\* What ExecuteCommand asks of the scheduler leaves the command that fires at
\* the front, agrees with what it does to the drive, and is one of the outcomes
\* that Emulator.tla allows.
LEMMA CommandCallsFacts ==
  ASSUME IInv, Core!Fires("CdCommand"), NEW s, s = CommandCalls(sched)
  PROVE  /\ Loop!Consistent(s) /\ Head(s.list) = "CdCommand"
         /\ DriveAfter.drive_state = "Reading" <=> "CdSector" \in Queued(s)
         /\ "CdCommand2" \in Queued(s) => command \in HasSecondResponse
         /\ s \in Core!CommandOutcomes(sched)
PROOF
  <1> DEFINE Second(t, d) == AddEvent(t, "CdCommand2", "Once", d)
  <1>1. /\ Loop!Consistent(sched) /\ sched.next <= 0 /\ Head(sched.list) = "CdCommand"
        /\ stat \in [motor_on : BOOLEAN, drive_state : {"None", "Reading", "Seeking"}]
        /\ drive_speed \in Speed /\ command \in Command
    BY DEF IInv, Registers, Core!Fires
  <1>2. sched.events[Head(sched.list)].target <= SpuPeriod
    BY <1>1, DueFacts
  <1>3. /\ "CdCommand2" \notin Queued(sched) /\ command # "Sync"
        /\ stat.drive_state = "Reading" <=> "CdSector" \in Queued(sched)
        /\ command = "ReadN" => Copies(sched, "CdSector") < MaxSectorCopies
    BY <1>1, SchedulerFacts DEF IInv, Outstanding
  <1>4. /\ SecondTicks \in SecondDelays
        /\ PauseTicks[drive_speed] \in SecondDelays /\ SectorTicks[drive_speed] \in SectorDelays
        /\ \A d \in SecondDelays \cup SectorDelays : d \in Nat /\ d >= SpuPeriod
    BY <1>1, DelayFacts
  <1>5. ASSUME NEW d \in SecondDelays, NEW t, t = Second(sched, d)
        PROVE  /\ Loop!Consistent(t) /\ Head(t.list) = "CdCommand"
               /\ Queued(t) = Queued(sched) \cup {"CdCommand2"}
               /\ t \in Core!CommandOutcomes(sched)
               /\ StopReading(t) \in Core!CommandOutcomes(sched)
    <2>1. /\ Loop!Consistent(t) /\ Head(t.list) = "CdCommand"
          /\ Queued(t) = Queued(sched) \cup {"CdCommand2"}
      BY <1>1, <1>2, <1>3, <1>4, <1>5, SecondFacts
    <2>2. t = Core!AddEvent(sched, "CdCommand2", "Once", d)
      BY <1>5, SameAddEvent
    <2>3. stat.drive_state = "Reading" <=> "CdSector" \in Queued(t)
      BY <1>3, <2>1
    <2>4. StopReading(t) = Core!StopReading(t)
      BY <2>3, SameStopReading
    <2>5. "CdCommand2" \notin Core!Queued(sched)
      BY <1>3, SameQueued
    <2> QED BY <2>1, <2>2, <2>4, <2>5 DEF Core!CommandOutcomes
  <1>6. CASE command = "ReadN"
    <2>1. s = AddEvent(sched, "CdSector", "Manual", SectorTicks[drive_speed])
      BY <1>6 DEF CommandCalls
    <2>2. Loop!Consistent(s) /\ Queued(s) = Queued(sched) \cup {"CdSector"}
      BY <1>1, <1>4, <2>1, AddFacts
    <2>3. Head(s.list) = "CdCommand"
      BY <1>1, <1>4, <2>1, AddFacts
    <2>4. DriveAfter.drive_state = "Reading"
      BY <1>1, <1>6 DEF DriveAfter
    <2>5. s = Core!AddEvent(sched, "CdSector", "Manual", SectorTicks[drive_speed])
      BY <2>1, SameAddEvent
    <2>6. Core!Copies(sched, "CdSector") < MaxSectorCopies
      BY <1>3, <1>6, SameCopies
    <2>7. s \in Core!CommandOutcomes(sched)
      BY <1>4, <2>5, <2>6 DEF Core!CommandOutcomes
    <2> QED BY <1>3, <2>2, <2>3, <2>4, <2>7
  <1>7. CASE command = "Init" \/ (command = "Pause" /\ stat.drive_state # "None")
    <2>1. PICK d \in SecondDelays : s = StopReading(Second(sched, d))
      BY <1>4, <1>7 DEF CommandCalls
    <2>2. PICK t : t = Second(sched, d)
      OBVIOUS
    <2>3. /\ Loop!Consistent(t) /\ Head(t.list) = "CdCommand"
          /\ Queued(t) = Queued(sched) \cup {"CdCommand2"}
          /\ s = StopReading(t) /\ s \in Core!CommandOutcomes(sched)
      BY <1>5, <2>1, <2>2
    <2>4. stat.drive_state = "Reading" <=> "CdSector" \in Queued(t)
      BY <1>3, <2>3
    <2>5. /\ Loop!Consistent(s) /\ Head(s.list) = "CdCommand"
          /\ Queued(s) = Queued(t) \ {"CdSector"}
      BY <2>3, <2>4, StopFacts
    <2>6. DriveAfter.drive_state = "None"
      BY <1>1, <1>7 DEF DriveAfter
    <2> QED BY <1>7, <2>3, <2>5, <2>6 DEF HasSecondResponse
  <1>8. CASE command = "GetId"
    <2>1. s = Second(sched, SecondTicks)
      BY <1>8 DEF CommandCalls
    <2>2. /\ Loop!Consistent(s) /\ Head(s.list) = "CdCommand"
          /\ Queued(s) = Queued(sched) \cup {"CdCommand2"}
          /\ s \in Core!CommandOutcomes(sched)
      BY <1>4, <1>5, <2>1
    <2>3. DriveAfter = stat
      BY <1>8 DEF DriveAfter
    <2> QED BY <1>3, <1>8, <2>2, <2>3 DEF HasSecondResponse
  <1>9. CASE command = "SeekL"
    <2>1. PICK t : t = StopReading(sched)
      OBVIOUS
    <2>2. s = Second(t, SecondTicks)
      BY <1>9, <2>1 DEF CommandCalls
    <2>3. /\ Loop!Consistent(t) /\ Head(t.list) = "CdCommand"
          /\ Queued(t) = Queued(sched) \ {"CdSector"}
      BY <1>1, <1>3, <2>1, StopFacts
    <2>4. t.events[Head(t.list)] = sched.events[Head(sched.list)]
      BY <1>1, <1>3, <2>1, StopFacts
    <2>5. /\ Loop!Consistent(s) /\ Head(s.list) = "CdCommand"
          /\ Queued(s) = Queued(t) \cup {"CdCommand2"}
      BY <1>2, <1>3, <1>4, <2>2, <2>3, <2>4, SecondFacts
    <2>6. DriveAfter.drive_state = "Seeking"
      BY <1>9 DEF DriveAfter
    <2>7. t = Core!StopReading(sched)
      BY <1>3, <2>1, SameStopReading
    <2>8. s = Core!AddEvent(t, "CdCommand2", "Once", SecondTicks)
      BY <2>2, SameAddEvent
    <2>9. "CdCommand2" \notin Core!Queued(sched)
      BY <1>3, SameQueued
    <2>10. s \in Core!CommandOutcomes(sched)
      BY <1>4, <2>7, <2>8, <2>9 DEF Core!CommandOutcomes
    <2> QED BY <1>9, <2>3, <2>5, <2>6, <2>10 DEF HasSecondResponse
  <1>10. CASE /\ command \notin {"ReadN", "Init", "GetId", "SeekL"}
              /\ command = "Pause" => stat.drive_state = "None"
    <2>1. s = sched
      BY <1>10 DEF CommandCalls
    <2>2. DriveAfter.drive_state = stat.drive_state
      BY <1>1, <1>10 DEF DriveAfter
    <2>3. s \in Core!CommandOutcomes(sched)
      BY <2>1 DEF Core!CommandOutcomes
    <2> QED BY <1>1, <1>3, <2>1, <2>2, <2>3
  <1> QED BY <1>6, <1>7, <1>8, <1>9, <1>10

-----------------------------------------------------------------------------
\* The callbacks.  The one that fires is never that of Idle.
LEMMA FiresFacts ==
  ASSUME IInv, NEW type, Core!Fires(type)
  PROVE  /\ Loop!Consistent(sched) /\ sched.next <= 0 /\ pc = "events"
         /\ Head(sched.list) = type /\ type \in Queued(sched) /\ ~Core!Fires("Idle")
PROOF
  BY SchedulerFacts DEF IInv, Core!Fires

\* A command is executed: WriteCommand made sure that it does not raise an Error.
LEMMA FireCdCommandStep ==
  ASSUME IInv, FireCdCommand
  PROVE  IInv' /\ CoreStep
PROOF
  <1>1. /\ Core!Fires("CdCommand") /\ Loop!Consistent(sched)
        /\ pc = "events" /\ ~Core!Fires("Idle") /\ "CdCommand" \in Queued(sched)
    BY FiresFacts DEF FireCdCommand
  <1>2. /\ Registers /\ StatusMatchesFifos /\ Outstanding /\ ParameterFifoSize \in Nat \ {0}
        /\ 0 \in Parameter
    BY DelayFacts DEF IInv, Parameter, Sector
  <1>3. ExecuteCommand
    BY <1>1, <1>2 DEF FireCdCommand, Outstanding
  <1>4. PICK s : s = CommandCalls(sched)
    OBVIOUS
  <1>5. /\ Loop!Consistent(s) /\ Head(s.list) = "CdCommand"
        /\ DriveAfter.drive_state = "Reading" <=> "CdSector" \in Queued(s)
        /\ "CdCommand2" \in Queued(s) => command \in HasSecondResponse
        /\ s \in Core!CommandOutcomes(sched)
    BY <1>1, <1>4, CommandCallsFacts
  <1>6. sched' = AfterCallback(s, "CdCommand") /\ UNCHANGED <<pc, frame_finished, running>>
    BY <1>3, <1>4 DEF ExecuteCommand
  <1>7. Loop!Consistent(sched') /\ Queued(sched') = Queued(s) \ {"CdCommand"}
    BY <1>5, <1>6, OnceFacts
  <1>8. CoreStep
    <2>1. sched' = Core!AfterCallback(s, "CdCommand")
      BY <1>6, SameAfterCallback
    <2>2. Core!FireCdCommand
      BY <1>1, <1>5, <1>6, <2>1 DEF Core!FireCdCommand
    <2> QED BY <1>1, <2>2 DEF CoreStep, Core!Next, Core!Fire
  <1>9. /\ stat' = DriveAfter /\ command' = "Sync" /\ parameter_fifo' = NoParameters
        /\ command2' = IF command \in HasSecondResponse THEN command ELSE command2
        /\ status' = [status EXCEPT !.rslrrdy = TRUE, !.prmempt = TRUE, !.prmwrdy = TRUE,
                                    !.busysts = FALSE]
        /\ response_fifo_size' = ResponseLength /\ interrupt_flags' = Int3
        /\ UNCHANGED <<data_fifo_size, interrupt_enables>>
        /\ cdrom_irq' = (cdrom_irq \/ Int3 \cap interrupt_enables # {})
    BY <1>3 DEF ExecuteCommand, Respond
  <1>10. status' \in StatusBits /\ ~status'.busysts
    BY <1>2, <1>9 DEF Registers, StatusBits
  <1>11. Registers'
    <2>1. stat' \in [motor_on : BOOLEAN, drive_state : {"None", "Reading", "Seeking"}]
      BY <1>2, <1>9 DEF Registers, DriveAfter
    <2>2. drive_speed' \in Speed
      BY <1>2, <1>3 DEF ExecuteCommand, Registers, SpeedOf, Speed
    <2>3. command' \in Command /\ command2' \in Command
      BY <1>2, <1>9 DEF Registers, Command, HasSecondResponse
    <2>4. parameter_fifo' \in [size : 0 .. ParameterFifoSize, first : Parameter]
      BY <1>2, <1>9 DEF NoParameters
    <2>5. response_fifo_size' \in 0 .. 8 /\ data_fifo_size' \in 0 .. SectorWords
      BY <1>2, <1>9 DEF Registers, ResponseLength
    <2>6. /\ setloc_timecode' \in Sector /\ drive_timecode' \in Sector
          /\ setloc_unprocessed' \in BOOLEAN
      BY <1>2, <1>3 DEF ExecuteCommand, MoveHead, Registers, Parameter, head
    <2>7. interrupt_enables' \subseteq Bit /\ interrupt_flags' \subseteq Bit
      BY <1>2, <1>9 DEF Registers, Bit, Int3
    <2>8. cdrom_irq' \in BOOLEAN
      BY <1>2, <1>9 DEF Registers
    <2> QED BY <1>10, <2>1, <2>2, <2>3, <2>4, <2>5, <2>6, <2>7, <2>8 DEF Registers
  <1>12. StatusMatchesFifos'
    <2>1. ResponseLength > 0
      BY DEF ResponseLength
    <2> QED BY <1>2, <1>9, <2>1 DEF StatusMatchesFifos, Registers, StatusBits, NoParameters
  <1>13. Outstanding'
    BY <1>5, <1>7, <1>9, <1>10 DEF Outstanding
  <1>14. OnlyTheDiscEnds'
    BY <1>1, <1>6 DEF OnlyTheDiscEnds
  <1> QED BY <1>6, <1>7, <1>8, <1>11, <1>12, <1>13, <1>14 DEF IInv

\* A second response arrives: it belongs to a command that has one.
LEMMA FireCdCommand2Step ==
  ASSUME IInv, FireCdCommand2
  PROVE  IInv' /\ CoreStep
PROOF
  <1>1. /\ Core!Fires("CdCommand2") /\ Loop!Consistent(sched)
        /\ Head(sched.list) = "CdCommand2"
        /\ pc = "events" /\ ~Core!Fires("Idle") /\ "CdCommand2" \in Queued(sched)
    BY FiresFacts DEF FireCdCommand2
  <1>2. /\ Registers /\ StatusMatchesFifos /\ Outstanding
        /\ stat.drive_state = "Reading" <=> "CdSector" \in Queued(sched)
    BY DEF IInv, Outstanding
  <1>3. command2 \in HasSecondResponse
    BY <1>1, <1>2 DEF Outstanding
  <1>4. PICK s : s = IF command2 = "SeekL" THEN StopReading(sched) ELSE sched
    OBVIOUS
  <1>5. /\ Loop!Consistent(s) /\ Head(s.list) = "CdCommand2"
        /\ s \in {sched, Core!StopReading(sched)}
        /\ Queued(s) = IF command2 = "SeekL" THEN Queued(sched) \ {"CdSector"}
                                             ELSE Queued(sched)
    <2>1. CASE command2 = "SeekL"
      <3>1. s = StopReading(sched) /\ s = Core!StopReading(sched)
        BY <1>2, <1>4, <2>1, SameStopReading
      <3>2. /\ Loop!Consistent(s) /\ Head(s.list) = "CdCommand2"
            /\ Queued(s) = Queued(sched) \ {"CdSector"}
        BY <1>1, <1>2, <3>1, StopFacts
      <3> QED BY <2>1, <3>1, <3>2
    <2>2. CASE command2 # "SeekL"
      BY <1>1, <1>4, <2>2
    <2> QED BY <2>1, <2>2
  <1>6. /\ sched' = AfterCallback(s, "CdCommand2")
        /\ UNCHANGED <<pc, frame_finished, running, drive_speed, command, parameter_fifo,
                       data_fifo_size, interrupt_enables>>
        /\ command2' = "Sync"
        /\ response_fifo_size' = (IF command2 = "GetId" THEN 8 ELSE 1)
        /\ interrupt_flags' = Int2
        /\ cdrom_irq' = (cdrom_irq \/ Int2 \cap interrupt_enables # {})
        /\ status' = [status EXCEPT !.rslrrdy = TRUE]
        /\ IF command2 = "SeekL"
           THEN /\ drive_timecode' = setloc_timecode
                /\ setloc_unprocessed' = FALSE
                /\ stat' = [stat EXCEPT !.drive_state = "None"]
                /\ UNCHANGED setloc_timecode
           ELSE UNCHANGED <<head, stat>>
    BY <1>3, <1>4 DEF FireCdCommand2, Respond
  <1>7. Loop!Consistent(sched') /\ Queued(sched') = Queued(s) \ {"CdCommand2"}
    BY <1>5, <1>6, OnceFacts
  <1>8. CoreStep
    <2>1. sched' = Core!AfterCallback(s, "CdCommand2")
      BY <1>6, SameAfterCallback
    <2>2. Core!FireCdCommand2
      BY <1>1, <1>5, <1>6, <2>1 DEF Core!FireCdCommand2
    <2> QED BY <1>1, <2>2 DEF CoreStep, Core!Next, Core!Fire
  <1>9. Registers'
    <2>1. stat' \in [motor_on : BOOLEAN, drive_state : {"None", "Reading", "Seeking"}]
      BY <1>2, <1>6 DEF Registers
    <2>2. status' \in StatusBits
      BY <1>2, <1>6, StatusFacts DEF Registers
    <2>3. /\ setloc_timecode' \in Sector /\ drive_timecode' \in Sector
          /\ setloc_unprocessed' \in BOOLEAN
      BY <1>2, <1>6 DEF Registers, head
    <2>4. interrupt_enables' \subseteq Bit /\ interrupt_flags' \subseteq Bit
      BY <1>2, <1>6 DEF Registers, Bit, Int2
    <2>5. cdrom_irq' \in BOOLEAN /\ response_fifo_size' \in 0 .. 8 /\ command2' \in Command
      BY <1>2, <1>6 DEF Registers, Command
    <2> QED BY <1>2, <1>6, <2>1, <2>2, <2>3, <2>4, <2>5 DEF Registers
  <1>10. StatusMatchesFifos'
    BY <1>2, <1>6 DEF StatusMatchesFifos, Registers, StatusBits
  <1>11. Outstanding'
    <2>1. stat'.drive_state = "Reading" <=> "CdSector" \in Queued(sched')
      BY <1>2, <1>5, <1>6, <1>7 DEF Registers
    <2>2. status'.busysts <=> status.busysts
      BY <1>2, <1>6 DEF Registers, StatusBits
    <2>3. /\ "CdCommand" \in Queued(sched') <=> "CdCommand" \in Queued(sched)
          /\ "CdCommand2" \notin Queued(sched')
      BY <1>5, <1>7
    <2>4. ~status.busysts
      BY <1>1, <1>2 DEF Outstanding
    <2> QED BY <1>2, <2>1, <2>2, <2>3, <2>4 DEF Outstanding
  <1>12. OnlyTheDiscEnds'
    BY <1>1, <1>6 DEF OnlyTheDiscEnds
  <1> QED BY <1>6, <1>7, <1>8, <1>9, <1>10, <1>11, <1>12 DEF IInv

\* A sector arrives, or the head is at an end of the disc: that is an Error,
\* and it ends the machine with the drive still reading.
LEMMA FireCdSectorStep ==
  ASSUME IInv, FireCdSector
  PROVE  IInv' /\ CoreStep
PROOF
  <1>1. /\ Core!Fires("CdSector") /\ Loop!Consistent(sched)
        /\ pc = "events" /\ ~Core!Fires("Idle") /\ "CdSector" \in Queued(sched)
    BY FiresFacts DEF FireCdSector
  <1>2. /\ Registers /\ StatusMatchesFifos /\ Outstanding
        /\ stat.drive_state = "Reading" /\ EndOfDisc \in Nat \ {0}
    BY <1>1, DelayFacts DEF IInv, Outstanding
  <1>3. CASE drive_timecode = 0 \/ drive_timecode + 1 >= EndOfDisc
    <2>1. Crash
      BY <1>3 DEF FireCdSector
    <2>2. UNCHANGED <<sched, frame_finished, running, regs, head, ints>> /\ pc' = "crashed"
      BY <2>1 DEF Crash
    <2>3. UNCHANGED <<regs, head, ints>> => Registers' /\ StatusMatchesFifos'
      BY <1>2 DEF regs, head, ints, Registers, StatusMatchesFifos
    <2>4. UNCHANGED sched /\ UNCHANGED regs => Outstanding'
      BY <1>2 DEF regs, Outstanding
    <2>5. UNCHANGED <<regs, head>> => OnlyTheDiscEnds'
      BY <1>2, <1>3 DEF regs, head, OnlyTheDiscEnds
    <2>6. frame_finished' \in BOOLEAN /\ running' \in BOOLEAN
      BY <2>2 DEF IInv
    <2> QED BY <1>1, <2>2, <2>3, <2>4, <2>5, <2>6 DEF IInv, CoreStep
  <1>4. CASE ~(drive_timecode = 0 \/ drive_timecode + 1 >= EndOfDisc)
    <2> DEFINE d == SectorTicks[drive_speed]
    <2>1. d \in SectorDelays /\ d \in Nat
      BY <1>2, DelayFacts DEF Registers
    <2>2. /\ sched' = AfterCallback(RescheduleEvent(sched, "CdSector", d), "CdSector")
          /\ drive_timecode' = drive_timecode + 1
          /\ response_fifo_size' = 1 /\ interrupt_flags' = Int1
          /\ cdrom_irq' = (cdrom_irq \/ Int1 \cap interrupt_enables # {})
          /\ status' = [status EXCEPT !.rslrrdy = TRUE]
          /\ UNCHANGED <<pc, frame_finished, running, stat, drive_speed, command, command2,
                         parameter_fifo, data_fifo_size, setloc_timecode, setloc_unprocessed,
                         interrupt_enables>>
      BY <1>4 DEF FireCdSector, Respond
    <2> HIDE DEF d
    <2>3. /\ Loop!Consistent(sched') /\ Queued(sched') = Queued(sched)
          /\ Copies(sched', "CdSector") = Copies(sched, "CdSector")
      BY <1>1, <2>1, <2>2, SectorFacts
    <2>4. CoreStep
      <3>1. sched' = Core!AfterCallback(Core!RescheduleEvent(sched, "CdSector", d), "CdSector")
        BY <2>2, SameAfterCallback, SameRescheduleEvent
      <3>2. Core!FireCdSector
        BY <1>1, <2>1, <2>2, <3>1 DEF Core!FireCdSector
      <3> QED BY <1>1, <3>2 DEF CoreStep, Core!Next, Core!Fire
    <2>5. Registers'
      <3>1. status' \in StatusBits
        BY <1>2, <2>2, StatusFacts DEF Registers
      <3>2. drive_timecode' \in Sector
        BY <1>2, <1>4, <2>2 DEF Registers, Sector
      <3>3. /\ interrupt_flags' \subseteq Bit /\ cdrom_irq' \in BOOLEAN
            /\ response_fifo_size' \in 0 .. 8
        BY <1>2, <2>2 DEF Registers, Bit, Int1
      <3> QED BY <1>2, <2>2, <3>1, <3>2, <3>3 DEF Registers
    <2>6. StatusMatchesFifos'
      BY <1>2, <2>2 DEF StatusMatchesFifos, Registers, StatusBits
    <2>7. Outstanding'
      <3>1. status'.busysts <=> status.busysts
        BY <1>2, <2>2 DEF Registers, StatusBits
      <3> QED BY <1>2, <2>2, <2>3, <3>1 DEF Outstanding
    <2>8. OnlyTheDiscEnds'
      BY <1>1, <2>2 DEF OnlyTheDiscEnds
    <2> QED BY <2>2, <2>3, <2>4, <2>5, <2>6, <2>7, <2>8 DEF IInv
  <1> QED BY <1>3, <1>4

\* The rest of the run loop goes on as if there were no controller.
LEMMA RunLoopStep ==
  ASSUME IInv, RunLoop
  PROVE  IInv' /\ CoreStep
PROOF
  <1>1. /\ Loop!Consistent(sched) /\ Registers /\ StatusMatchesFifos /\ Outstanding
        /\ OnlyTheDiscEnds /\ UNCHANGED <<regs, head, ints>>
    BY DEF IInv, RunLoop
  <1>2. Registers' /\ StatusMatchesFifos'
    BY <1>1 DEF regs, head, ints, Registers, StatusMatchesFifos
  <1>3. ~Core!Fires("Idle")
    BY FiresFacts
  <1>4. /\ Loop!Consistent(sched') /\ Queued(sched') = Queued(sched)
        /\ Copies(sched', "CdSector") = Copies(sched, "CdSector")
    <2>1. ASSUME NEW n \in 1 .. MaxTicks, Core!RunTicks(n)
          PROVE  Loop!Consistent(sched') /\ sched'.list = sched.list
      <3>1. n \in Nat /\ sched' = Tick(sched, n)
        BY <2>1, DelayFacts, SameTick DEF Core!RunTicks
      <3> QED BY <1>1, <3>1, TickFacts
    <2>2. \A s, t : s.list = t.list => /\ Queued(s) = Queued(t)
                                       /\ Copies(s, "CdSector") = Copies(t, "CdSector")
      BY DEF Queued, Copies
    <2>3. ASSUME NEW type \in {"Vblank", "Spu"}, Core!Fires(type),
                 sched' = Core!AfterCallback(sched, type)
          PROVE  /\ Loop!Consistent(sched') /\ Queued(sched') = Queued(sched)
                 /\ Copies(sched', "CdSector") = Copies(sched, "CdSector")
      <3>1. sched' = AfterCallback(sched, type)
        BY <2>3, SameAfterCallback
      <3>2. sched.next <= 0 /\ Head(sched.list) = type
        BY <2>3, FiresFacts
      <3> QED BY <1>1, <3>1, <3>2, PeriodicFacts
    <2>4. CASE Core!CpuStep
      BY <1>1, <2>1, <2>2, <2>4 DEF Core!CpuStep, Core!LeaveBlock
    <2>5. CASE Core!FireVblank \/ Core!FireSpu
      BY <2>3, <2>5 DEF Core!FireVblank, Core!FireSpu
    <2>6. CASE Core!LeaveUpdate \/ Core!NextFrame
      BY <1>1, <2>6 DEF Core!LeaveUpdate, Core!NextFrame
    <2> QED BY <1>3, <2>4, <2>5, <2>6 DEF RunLoop
  <1>5. Outstanding'
    BY <1>1, <1>4 DEF regs, Outstanding
  <1>6. /\ pc' \in {"cpu", "events", "returned", "stopped"}
        /\ frame_finished' \in BOOLEAN /\ running' \in BOOLEAN
    BY <1>3 DEF RunLoop, IInv, Core!CpuStep, Core!RunTicks, Core!LeaveBlock, Core!Fires,
         Core!FireVblank, Core!FireSpu, Core!LeaveUpdate, Core!NextFrame
  <1>7. OnlyTheDiscEnds'
    BY <1>6 DEF OnlyTheDiscEnds
  <1>8. CoreStep
    BY <1>3 DEF RunLoop, CoreStep, Core!Next, Core!Fire
  <1> QED BY <1>2, <1>4, <1>5, <1>6, <1>7, <1>8 DEF IInv

-----------------------------------------------------------------------------
LEMMA InitIInv == Init => IInv
PROOF
  <1> SUFFICES ASSUME Init PROVE IInv
    OBVIOUS
  <1>1. sched = BootScheduler(CyclesPerFrame, SpuPeriod)
    BY SameBoot DEF Init, Core!Init
  <1>2. Loop!Consistent(sched) /\ Queued(sched) = {"Idle", "Vblank", "Spu"}
    BY <1>1, BootFacts
  <1>3. Registers
    <2>1. status \in StatusBits
      BY DEF Init, StatusBits
    <2>2. /\ stat \in [motor_on : BOOLEAN, drive_state : {"None", "Reading", "Seeking"}]
          /\ drive_speed \in Speed /\ command \in Command /\ command2 \in Command
      BY DEF Init, Speed, Command
    <2>3. /\ parameter_fifo \in [size : 0 .. ParameterFifoSize, first : Parameter]
          /\ response_fifo_size \in 0 .. 8 /\ data_fifo_size \in 0 .. SectorWords
          /\ drive_timecode \in Sector
      BY DelayFacts DEF Init, NoParameters, Parameter, Sector
    <2> QED BY <2>1, <2>2, <2>3 DEF Init, Registers
  <1>4. StatusMatchesFifos
    BY DelayFacts DEF Init, StatusMatchesFifos, NoParameters
  <1>5. Outstanding
    BY <1>2 DEF Init, Outstanding
  <1> QED BY <1>2, <1>3, <1>5, <1>4 DEF Init, Core!Init, IInv, OnlyTheDiscEnds

LEMMA NextIInv == IInv /\ [Next]_vars => IInv' /\ CoreStep
PROOF
  <1> SUFFICES ASSUME IInv, [Next]_vars PROVE IInv' /\ CoreStep
    OBVIOUS
  <1>1. CASE Guest
    BY <1>1, WriteCommandStep, OtherGuestStep
  <1>2. CASE FireCdCommand \/ FireCdCommand2 \/ FireCdSector \/ RunLoop
    BY <1>2, FireCdCommandStep, FireCdCommand2Step, FireCdSectorStep, RunLoopStep
  <1>3. CASE UNCHANGED vars
    <2>1. UNCHANGED <<core, regs, head, ints>>
      BY <1>3 DEF vars
    <2>2. Registers' /\ StatusMatchesFifos'
      BY <2>1 DEF IInv, regs, head, ints, Registers, StatusMatchesFifos
    <2>3. Outstanding' /\ OnlyTheDiscEnds'
      BY <2>1 DEF IInv, core, regs, head, Outstanding, OnlyTheDiscEnds
    <2> QED BY <2>1, <2>2, <2>3 DEF IInv, core, CoreStep
  <1> QED BY <1>1, <1>2, <1>3 DEF Next, Ended

\* In every reachable state the scheduler is consistent, and the registers agree
\* with it.
THEOREM Safety == Spec => []IInv
PROOF
  <1> QED BY InitIInv, NextIInv, PTL DEF Spec

\* Types: no FIFO is ever longer than its array, and no register leaves its range.
THEOREM TypeCorrect == Spec => []TypeOK
PROOF
  <1> QED BY Implied, Safety, PTL

\* The busy bit is set exactly while a command is queued, and the drive reads
\* exactly while a sector is.
THEOREM EventsMatchRegistersHolds == Spec => []EventsMatchRegisters
PROOF
  <1> QED BY Implied, Safety, PTL

\* Whatever the software reads and writes, the status bits tell it the truth.
THEOREM StatusMatchesFifosHolds == Spec => []StatusMatchesFifos
PROOF
  <1>1. IInv => StatusMatchesFifos
    BY DEF IInv
  <1> QED BY <1>1, Safety, PTL

\* None of the controller's Errors is raised but those of the ends of the disc.
THEOREM OnlyTheDiscEndsHolds == Spec => []OnlyTheDiscEnds
PROOF
  <1>1. IInv => OnlyTheDiscEnds
    BY DEF IInv
  <1> QED BY <1>1, Safety, PTL

\* The controller in full does to the scheduler only what Emulator.tla, which
\* reduces it to the events it may queue, says it can do.
THEOREM RefinesEmulatorHolds == Spec => RefinesEmulator
PROOF
  <1>1. Init => Core!Init
    BY DEF Init
  <1>2. IInv /\ [Next]_vars => [Core!Next \/ pc' = "crashed"]_core
    BY NextIInv DEF CoreStep
  <1> QED BY <1>1, <1>2, Safety, PTL DEF Spec, RefinesEmulator

\* So what is proved of the run loop holds with the controller in full: it
\* overlooks none of its events, and they pull the next sample at most one
\* period forward.
THEOREM RunLoopStaysSafe == Spec => [](Core!NoEventOverlooked /\ Core!SpuAtMostOnePeriodEarly)
PROOF
  <1>1. Loop!Consistent(sched) => Core!NoEventOverlooked /\ Core!SpuAtMostOnePeriodEarly
    BY SameQueued DEF Loop!Consistent, Core!NoEventOverlooked, Core!SpuAtMostOnePeriodEarly
  <1>2. IInv => Core!NoEventOverlooked /\ Core!SpuAtMostOnePeriodEarly
    BY <1>1 DEF IInv
  <1> QED BY <1>2, Safety, PTL
=============================================================================
