------------------------------- MODULE Emulator -------------------------------
(***************************************************************************)
(* The core thread: RunCoreThread (main.cpp) calls Emulator::RunFrame      *)
(* (core/emulator.cpp) until `running' is cleared, and RunFrame alternates  *)
(* between blocks of recompiled code and Scheduler::UpdateEvents.           *)
(*                                                                         *)
(* Vblank, Spu and the events of the run loop are exact.  The two devices  *)
(* that queue events of their own, the CD controller (cdc.cpp) and the     *)
(* joypad port (io.cpp), are reduced to what they ask of the scheduler:    *)
(* which calls their handlers and callbacks can make, with the delays of   *)
(* the code scaled down.  Cdc.tla is the CD controller in full.             *)
(***************************************************************************)
EXTENDS Scheduler

CONSTANTS
    CyclesPerFrame,     \* period of Vblank
    SpuPeriod,          \* period of Spu: CpuFrequency / 44100
    AckDelay,           \* Io::Tx: 8 * (m_baudrate & ~1)
    CommandDelays,      \* Cdc::Write: 25000, 50000 or 80000
    SecondDelays,       \* Cdc::ExecuteCommand: 20000, 1080000 or 2160000
    SectorDelays,       \* 33868800 / 75, halved at double speed
    MaxSectorCopies,    \* bound on the times CdSector is queued: a ReadN during
                        \* a read queues it again
    MaxTicks,           \* most ticks one access or one block accounts for
    MaxLate             \* most ticks a block can run past the next event

Delays == {AckDelay} \cup CommandDelays \cup SecondDelays \cup SectorDelays

\* The baud rate is whatever the guest wrote before it transmits; that
\* AckDelay is no less than SpuPeriod holds from 96 on.
ASSUME EmulatorAssumption ==
    /\ {CyclesPerFrame, SpuPeriod, MaxTicks, MaxSectorCopies} \subseteq Nat \ {0}
    /\ MaxLate \in Nat
    /\ Delays \subseteq Nat
    /\ \A d \in Delays : d >= SpuPeriod

VARIABLES
    sched,              \* the scheduler
    pc,                 \* where the core thread is
    frame_finished,     \* Emulator::m_frame_finished
    running             \* the atomic flag of main.cpp

vars == <<sched, pc, frame_finished, running>>

OnceTypes == {"CdCommand", "CdCommand2", "IoAcknowledge"}

TypeOK ==
    /\ sched \in SchedulerState
    /\ pc \in {"cpu", "events", "returned", "stopped", "crashed"}
    /\ frame_finished \in BOOLEAN
    /\ running \in BOOLEAN

Init ==
    /\ sched = BootScheduler(CyclesPerFrame, SpuPeriod)
    /\ pc = "cpu"
    /\ frame_finished = FALSE
    /\ running = TRUE

-----------------------------------------------------------------------------
(* Guest code, in blocks of which each starts while NextEventTarget() > 0.  *)

\* A bus access inside a block, or the block's own ticks after it.
RunTicks(n) ==
    /\ pc = "cpu"
    /\ sched.next - n >= - MaxLate
    /\ sched' = Tick(sched, n)
    /\ UNCHANGED <<pc, frame_finished, running>>

\* Io::Tx, which software calls with no transfer in progress.
Transmit ==
    /\ pc = "cpu"
    /\ "IoAcknowledge" \notin Queued(sched)
    /\ sched' = AddEvent(sched, "IoAcknowledge", "Once", AckDelay)
    /\ UNCHANGED <<pc, frame_finished, running>>

\* Cdc::Write of a command; with one in progress the code raises an Error.
SendCommand(delay) ==
    /\ pc = "cpu"
    /\ "CdCommand" \notin Queued(sched)
    /\ sched' = AddEvent(sched, "CdCommand", "Once", delay)
    /\ UNCHANGED <<pc, frame_finished, running>>

\* The block ends past the next event, and so does the inner while of RunFrame.
LeaveBlock ==
    /\ pc = "cpu"
    /\ sched.next <= 0
    /\ pc' = "events"
    /\ UNCHANGED <<sched, frame_finished, running>>

-----------------------------------------------------------------------------
(* Scheduler::UpdateEvents: the callback of the front, then pop or          *)
(* reschedule, while the CACHED target is not in the future.                *)

Fires(type) ==
    /\ pc = "events"
    /\ sched.next <= 0
    /\ Head(sched.list) = type

\* Fault: m_frame_finished is not set.
FireVblankUnfinished ==
    /\ Fires("Vblank")
    /\ sched' = AfterCallback(sched, "Vblank")
    /\ UNCHANGED <<pc, frame_finished, running>>

FireVblank ==
    /\ Fires("Vblank")
    /\ frame_finished' = TRUE
    /\ sched' = AfterCallback(sched, "Vblank")
    /\ UNCHANGED <<pc, running>>

FireSpu ==
    /\ Fires("Spu")
    /\ sched' = AfterCallback(sched, "Spu")
    /\ UNCHANGED <<pc, frame_finished, running>>

\* Fault: the acknowledge is rescheduled, as a periodic event would be.
FireIoAcknowledgeAgain ==
    /\ Fires("IoAcknowledge")
    /\ sched' = RescheduleEvent(sched, "IoAcknowledge", AckDelay)
    /\ UNCHANGED <<pc, frame_finished, running>>

FireIoAcknowledge ==
    /\ Fires("IoAcknowledge")
    /\ sched' = AfterCallback(sched, "IoAcknowledge")
    /\ UNCHANGED <<pc, frame_finished, running>>

\* What ExecuteCommand can do to the scheduler, whatever the command.  Pause and
\* Init queue the second response before they end a read, SeekL after.
StopReading(s) == IF "CdSector" \in Queued(s) THEN RemoveEvent(s, "CdSector") ELSE s

CommandOutcomes(s) ==
    LET read == {AddEvent(s, "CdSector", "Manual", d) :
                   d \in {e \in SectorDelays : Copies(s, "CdSector") < MaxSectorCopies}}
        Second(t) == {AddEvent(t, "CdCommand2", "Once", d) :
                        d \in {e \in SecondDelays : "CdCommand2" \notin Queued(s)}}
    IN  {s} \cup read \cup Second(s)
        \cup {StopReading(t) : t \in Second(s)} \cup Second(StopReading(s))

FireCdCommand ==
    /\ Fires("CdCommand")
    /\ \E s \in CommandOutcomes(sched) : sched' = AfterCallback(s, "CdCommand")
    /\ UNCHANGED <<pc, frame_finished, running>>

\* The second response of SeekL ends a read, those of the others do not.
FireCdCommand2 ==
    /\ Fires("CdCommand2")
    /\ \E s \in {sched, StopReading(sched)} : sched' = AfterCallback(s, "CdCommand2")
    /\ UNCHANGED <<pc, frame_finished, running>>

\* The callback reschedules itself.
FireCdSector ==
    /\ Fires("CdSector")
    /\ \E d \in SectorDelays :
         sched' = AfterCallback(RescheduleEvent(sched, "CdSector", d), "CdSector")
    /\ UNCHANGED <<pc, frame_finished, running>>

\* The callback of Idle raises an Error, and nothing catches it.
FireIdle ==
    /\ pc' = "crashed"
    /\ UNCHANGED <<sched, frame_finished, running>>

Fire ==
    IF Fires("Idle") THEN FireIdle
    ELSE \/ FireVblank \/ FireSpu \/ FireIoAcknowledge
         \/ FireCdCommand \/ FireCdCommand2 \/ FireCdSector

\* UpdateEvents returns, and RunFrame goes on or returns.
LeaveUpdate ==
    /\ pc = "events"
    /\ sched.next > 0
    /\ pc' = IF frame_finished THEN "returned" ELSE "cpu"
    /\ UNCHANGED <<sched, frame_finished, running>>

-----------------------------------------------------------------------------
(* RunCoreThread, and the main thread clearing `running' on SDL_QUIT.       *)

\* Fault: the loop does not look at `running'.
NextFrameAlways ==
    /\ pc = "returned"
    /\ pc' = "cpu"
    /\ frame_finished' = FALSE
    /\ UNCHANGED <<sched, running>>

NextFrame ==
    /\ pc = "returned"
    /\ IF running
       THEN pc' = "cpu" /\ frame_finished' = FALSE
       ELSE pc' = "stopped" /\ UNCHANGED frame_finished
    /\ UNCHANGED <<sched, running>>

Quit ==
    /\ running
    /\ running' = FALSE
    /\ UNCHANGED <<sched, pc, frame_finished>>

\* The thread has ended.
Ended == pc \in {"stopped", "crashed"} /\ UNCHANGED vars

CpuStep == (\E n \in 1 .. MaxTicks : RunTicks(n)) \/ LeaveBlock

Guest == Transmit \/ \E d \in CommandDelays : SendCommand(d)

Next == CpuStep \/ Guest \/ Fire \/ LeaveUpdate \/ NextFrame \/ Quit \/ Ended

\* The core thread keeps running.  A block of code ends after finitely many
\* instructions, and each accounts for ticks: WF of CpuStep.  The thread's other
\* steps are enabled whenever it is its turn outside guest code, and they are
\* the only ones that then change these variables, so their weak fairness is
\* said without asking TLC whether a callback is ENABLED.  What the guest
\* asks of the devices, and whether the user quits, is not assumed.
CoreTurn == pc \in {"events", "returned"}

Fairness ==
    /\ WF_vars(CpuStep)
    /\ []<>~CoreTurn \/ []<><<CoreTurn>>_<<sched, pc, frame_finished>>

Spec == Init /\ [][Next]_vars /\ Fairness

-----------------------------------------------------------------------------
(* What must hold of the run loop.                                          *)

\* The cached target never lies later than a queued event, so no event can
\* become due while RunFrame believes there is time for another block
\* (the inner loop of RunFrame reads nothing but NextEventTarget).
NoEventOverlooked ==
    \A t \in Queued(sched) \ {"Idle"} : sched.next <= sched.events[t].target

\* UpdateEvents pops a Once event without recomputing the cached target, and
\* so fires the next event early, and the one behind it if that is a Once
\* event too; the chain always ends at a periodic event, before Idle.
IdleNeverFires == pc # "crashed"

\* A Once event pulls Spu forward by a whole period, but clusters of them
\* never pull it further: the next sample is never two periods away.
SpuAtMostOnePeriodEarly == sched.events["Spu"].target <= 2 * SpuPeriod

\* UpdateEvents pops the FRONT of the list, after a callback that may have
\* put another event there; yet exactly the Once event that fired leaves.
OnlyTheFiredEventLeaves ==
    [][\A t \in OnceTypes \cap Queued(sched) : t \notin Queued(sched') <=> Fires(t)]_sched

\* Every request of a device is answered while the machine runs: a Once event
\* that is queued fires.
RequestsAreAnswered ==
    \A t \in OnceTypes :
        t \in Queued(sched) ~> (t \notin Queued(sched) \/ pc = "stopped")

\* RunFrame always returns, so a cleared `running' is noticed and the join
\* in main() ends.
FramesKeepComing == pc = "cpu" ~> pc = "returned"
QuitIsNoticed == ~running ~> pc = "stopped"
=============================================================================
