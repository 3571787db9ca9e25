--------------------------------- MODULE Cdc ---------------------------------
(***************************************************************************)
(* The CD controller (core/cdc.hpp, core/cdc.cpp) on the scheduler and the  *)
(* run loop of Emulator.tla, driven by guest software.                      *)
(*                                                                         *)
(* Guest software reaches Cdc::Read, Write and ReadDma through the bus.     *)
(* The software modelled here keeps to the drive's protocol: on an          *)
(* interrupt it fetches the sector, if there is one, and the response, and  *)
(* then acknowledges; it sends no command while an interrupt, the last      *)
(* command or its second response is outstanding; it gives SetLoc, SetMode  *)
(* and Test the parameters they need; and it goes by the status bits when   *)
(* it touches a FIFO.  The register bank of m_status.index is folded into   *)
(* the choice of the operation.                                             *)
(*                                                                         *)
(* A timecode is the number of a sector on a disc of EndOfDisc sectors,     *)
(* the first of which lies in the pre-gap; a parameter stands for all the  *)
(* bytes its command takes; of a response and of sector data only the      *)
(* length is kept.                                                         *)
(***************************************************************************)
EXTENDS Scheduler

CONSTANTS
    CyclesPerFrame, SpuPeriod, AckDelay, MaxTicks, MaxLate, MaxSectorCopies,
    CommandTicks,       \* Write: 25000, twice that with the motor on
    InitTicks,          \* Write: 80000
    SecondTicks,        \* ExecuteCommand: 20000
    PauseTicks,         \* 2160000, by drive speed
    SectorTicks,        \* 33868800 / 75, by drive speed
    ParameterFifoSize,
    SectorWords,        \* words of a sector's data, m_data_fifo in words
    EndOfDisc,
    Commands,           \* the commands the software sends
    Locations,          \* the sectors it asks for
    EnableSets,         \* the interrupts it enables
    AckSets             \* the interrupt flags it acknowledges at a time

Speed == {"Single", "Double"}

CommandDelays == {CommandTicks, 2 * CommandTicks, InitTicks}
SecondDelays == {SecondTicks} \cup {PauseTicks[v] : v \in Speed}
SectorDelays == {SectorTicks[v] : v \in Speed}

VARIABLES
    sched, pc, frame_finished, running,     \* as in Emulator.tla
    status,             \* the FIFO and busy bits of m_status
    stat,               \* m_stat: motor and drive state
    drive_speed,        \* the bit of m_mode that timing depends on
    command, command2,  \* m_command (Sync while none is pending), m_command2
    parameter_fifo,     \* m_parameter_fifo_size and what [0] holds
    response_fifo_size, data_fifo_size,
    setloc_timecode, drive_timecode, setloc_unprocessed,
    interrupt_enables, interrupt_flags,     \* sets of bit numbers
    cdrom_irq           \* the Cdrom bit of the interrupt controller's status

core == <<sched, pc, frame_finished, running>>
regs == <<status, stat, drive_speed, command, command2, parameter_fifo,
          response_fifo_size, data_fifo_size>>
head == <<setloc_timecode, drive_timecode, setloc_unprocessed>>
ints == <<interrupt_enables, interrupt_flags, cdrom_irq>>
vars == <<core, regs, head, ints>>

Core == INSTANCE Emulator

Command == {"Sync", "GetStat", "SetLoc", "ReadN", "Pause", "Init", "Demute",
            "SetMode", "GetTn", "SeekL", "Test", "GetId"}
Sector == 0 .. EndOfDisc
Bit == 0 .. 4
Int1 == {0}
Int2 == {1}
Int3 == {0, 1}

\* A parameter byte: a sector to SetLoc, a drive speed to SetMode (bit 7), a
\* sub-command to Test, of which the code knows one (0x20).
Parameter == Sector
SpeedOf(p) == IF p = 0 THEN "Single" ELSE "Double"
KnownTest == 0
NoParameters == [size |-> 0, first |-> 0]

\* The delays of the code are no shorter than the period of Spu, 768 cycles (of
\* the acknowledge of the joypad port see Emulator.tla).
ASSUME CdcAssumption ==
    /\ {CyclesPerFrame, SpuPeriod, MaxTicks, MaxSectorCopies, ParameterFifoSize,
        SectorWords, EndOfDisc} \subseteq Nat \ {0}
    /\ MaxLate \in Nat
    /\ \A d \in {AckDelay} \cup CommandDelays \cup SecondDelays \cup SectorDelays :
         d \in Nat /\ d >= SpuPeriod
    /\ Commands \subseteq Command \ {"Sync"}
    /\ Locations \subseteq Sector
    /\ EnableSets \subseteq SUBSET Bit

TypeOK ==
    /\ Core!TypeOK
    /\ status \in [prmempt : BOOLEAN, prmwrdy : BOOLEAN, rslrrdy : BOOLEAN,
                   drqsts : BOOLEAN, busysts : BOOLEAN]
    /\ stat \in [motor_on : BOOLEAN, drive_state : {"None", "Reading", "Seeking"}]
    /\ drive_speed \in Speed
    /\ command \in Command /\ command2 \in Command
    /\ parameter_fifo \in [size : 0 .. ParameterFifoSize, first : Parameter]
    /\ response_fifo_size \in 0 .. 8
    /\ data_fifo_size \in 0 .. SectorWords
    /\ setloc_timecode \in Sector /\ drive_timecode \in Sector
    /\ setloc_unprocessed \in BOOLEAN
    /\ interrupt_enables \subseteq Bit /\ interrupt_flags \subseteq Bit
    /\ cdrom_irq \in BOOLEAN

\* Reset leaves the timecodes uninitialized, and a ReadN without a SetLoc reads
\* m_setloc_timecode.  (The command and the parameters are uninitialized too,
\* but nothing reads them before they are written.)
Init ==
    /\ Core!Init
    /\ status = [prmempt |-> TRUE, prmwrdy |-> TRUE, rslrrdy |-> FALSE,
                 drqsts |-> FALSE, busysts |-> FALSE]
    /\ stat = [motor_on |-> FALSE, drive_state |-> "None"]
    /\ drive_speed = "Single"
    /\ command = "Sync" /\ command2 = "Sync"
    /\ parameter_fifo = NoParameters
    /\ response_fifo_size = 0 /\ data_fifo_size = 0
    /\ setloc_timecode \in Sector /\ drive_timecode = 0
    /\ setloc_unprocessed = TRUE
    /\ interrupt_enables = {} /\ interrupt_flags = {}
    /\ cdrom_irq = FALSE

-----------------------------------------------------------------------------
(* The guest's accesses, made by a block of code: pc = "cpu".               *)

ParameterOf(c) ==
    CASE c = "SetLoc"  -> Locations
      [] c = "SetMode" -> {0, 1}
      [] c = "Test"    -> {KnownTest}
      [] OTHER         -> Parameter

TakesParameter == {"SetLoc", "SetMode", "Test"}

CommandDelay(c) ==
    IF c = "Init" THEN InitTicks
    ELSE IF stat.motor_on THEN 2 * CommandTicks ELSE CommandTicks

\* Nothing the controller said is waiting for the software.
Quiet == interrupt_flags = {} /\ ~status.rslrrdy /\ ~status.drqsts

\* Write, index 0.  With busysts set the code raises an Error instead.
WriteCommand(c) ==
    /\ pc = "cpu"
    /\ Quiet /\ ~status.busysts /\ "CdCommand2" \notin Queued(sched)
    /\ c \in TakesParameter => parameter_fifo.size > 0 /\ parameter_fifo.first \in ParameterOf(c)
    /\ c = "ReadN" => Copies(sched, "CdSector") < MaxSectorCopies
    /\ command' = c
    /\ sched' = AddEvent(sched, "CdCommand", "Once", CommandDelay(c))
    /\ status' = [status EXCEPT !.busysts = TRUE]
    /\ UNCHANGED <<pc, frame_finished, running, stat, drive_speed, command2, parameter_fifo,
                   response_fifo_size, data_fifo_size, head, ints>>

\* Fault: no check of the size, and prmwrdy one parameter too long.
WriteParameterUnchecked(p) ==
    /\ pc = "cpu"
    /\ Quiet /\ status.prmwrdy /\ ~status.busysts
    /\ parameter_fifo' = [parameter_fifo EXCEPT !.size = @ + 1, !.first = p]
    /\ status' = [status EXCEPT !.prmempt = FALSE,
                                !.prmwrdy = parameter_fifo.size < ParameterFifoSize]
    /\ UNCHANGED <<core, stat, drive_speed, command, command2, response_fifo_size,
                   data_fifo_size, head, ints>>

\* Fault: prmwrdy is left set.
WriteParameterAlwaysReady(p) ==
    /\ pc = "cpu"
    /\ Quiet /\ status.prmwrdy /\ ~status.busysts
    /\ IF parameter_fifo.size >= ParameterFifoSize
       THEN pc' = "crashed" /\ UNCHANGED <<parameter_fifo, status>>
       ELSE /\ parameter_fifo' = [parameter_fifo EXCEPT !.size = @ + 1, !.first = p]
            /\ status' = [status EXCEPT !.prmempt = FALSE]
            /\ UNCHANGED pc
    /\ UNCHANGED <<sched, frame_finished, running, stat, drive_speed, command, command2,
                   response_fifo_size, data_fifo_size, head, ints>>

\* Write, index 4: software looks at prmwrdy, the code at the size.
WriteParameter(p) ==
    /\ pc = "cpu"
    /\ Quiet /\ status.prmwrdy /\ ~status.busysts
    /\ IF parameter_fifo.size >= ParameterFifoSize
       THEN pc' = "crashed" /\ UNCHANGED <<parameter_fifo, status>>
       ELSE /\ parameter_fifo' = [size  |-> parameter_fifo.size + 1,
                                  first |-> IF parameter_fifo.size = 0
                                            THEN p ELSE parameter_fifo.first]
            /\ status' = [status EXCEPT !.prmempt = FALSE,
                                        !.prmwrdy = parameter_fifo'.size < ParameterFifoSize]
            /\ UNCHANGED pc
    /\ UNCHANGED <<sched, frame_finished, running, stat, drive_speed, command, command2,
                   response_fifo_size, data_fifo_size, head, ints>>

\* Fault: rslrrdy is taken from the size before the read.
ReadResponseEarlyStatus ==
    /\ pc = "cpu"
    /\ status.rslrrdy
    /\ response_fifo_size > 0
    /\ response_fifo_size' = response_fifo_size - 1
    /\ status' = [status EXCEPT !.rslrrdy = response_fifo_size > 0]
    /\ UNCHANGED <<core, stat, drive_speed, command, command2,
                   parameter_fifo, data_fifo_size, head, ints>>

\* Read, index 1.
ReadResponse ==
    /\ pc = "cpu"
    /\ status.rslrrdy
    /\ IF response_fifo_size = 0
       THEN pc' = "crashed" /\ UNCHANGED <<response_fifo_size, status>>
       ELSE /\ response_fifo_size' = response_fifo_size - 1
            /\ status' = [status EXCEPT !.rslrrdy = response_fifo_size' > 0]
            /\ UNCHANGED pc
    /\ UNCHANGED <<sched, frame_finished, running, stat, drive_speed, command, command2,
                   parameter_fifo, data_fifo_size, head, ints>>

\* ReadDma: one word of a transfer the guest programmed.
ReadDma ==
    /\ pc = "cpu"
    /\ status.drqsts
    /\ IF data_fifo_size < 1
       THEN pc' = "crashed" /\ UNCHANGED <<data_fifo_size, status>>
       ELSE /\ data_fifo_size' = data_fifo_size - 1
            /\ status' = [status EXCEPT !.drqsts = data_fifo_size' > 0]
            /\ UNCHANGED pc
    /\ UNCHANGED <<sched, frame_finished, running, stat, drive_speed, command, command2,
                   parameter_fifo, response_fifo_size, head, ints>>

\* Write, index 8 with bit 7, after INT1.
FillDataFifo ==
    /\ pc = "cpu"
    /\ interrupt_flags = Int1 /\ status.rslrrdy
    /\ data_fifo_size' = SectorWords
    /\ status' = [status EXCEPT !.drqsts = TRUE]
    /\ UNCHANGED <<core, stat, drive_speed, command, command2, parameter_fifo,
                   response_fifo_size, head, ints>>

\* Write, index 5, as the software sets up.
WriteInterruptEnables(enables) ==
    /\ pc = "cpu"
    /\ command = "Sync" /\ interrupt_flags = {}
    /\ interrupt_enables' = enables
    /\ UNCHANGED <<core, regs, head, interrupt_flags, cdrom_irq>>

\* Write, index 9: the flags BECOME the complement of what is acknowledged.
\* Bit 6 empties the parameter FIFO, which software does while no command
\* waits for its parameters.  The interrupt handler that writes here clears the
\* Cdrom bit of I_STAT too (Intc::WriteStatus).
Acknowledge(acked, clear) ==
    /\ pc = "cpu"
    /\ ~status.rslrrdy /\ ~status.drqsts
    /\ IF clear THEN ~status.busysts /\ ~status.prmempt ELSE interrupt_flags # {}
    /\ interrupt_flags' = Bit \ acked
    /\ IF clear
       THEN /\ parameter_fifo' = NoParameters
            /\ status' = [status EXCEPT !.prmempt = TRUE, !.prmwrdy = TRUE]
       ELSE UNCHANGED <<parameter_fifo, status>>
    /\ cdrom_irq' = FALSE
    /\ UNCHANGED <<core, stat, drive_speed, command, command2, response_fifo_size,
                   data_fifo_size, head, interrupt_enables>>

Guest ==
    \/ \E c \in Commands : WriteCommand(c)
    \/ \E p \in UNION {ParameterOf(c) : c \in Commands \cap TakesParameter} : WriteParameter(p)
    \/ ReadResponse \/ ReadDma \/ FillDataFifo
    \/ \E e \in EnableSets : WriteInterruptEnables(e)
    \/ \E a \in AckSets, clear \in BOOLEAN : Acknowledge(a, clear)

-----------------------------------------------------------------------------
(* The callbacks.                                                           *)

\* The tail every response has: the flags are overwritten, and an interrupt
\* that is enabled now reaches the interrupt controller.
Respond(length, flags) ==
    /\ response_fifo_size' = length
    /\ interrupt_flags' = flags
    /\ cdrom_irq' = (cdrom_irq \/ flags \cap interrupt_enables # {})
    /\ UNCHANGED interrupt_enables

Crash == pc' = "crashed" /\ UNCHANGED <<sched, frame_finished, running, regs, head, ints>>

StopReading(s) == IF stat.drive_state = "Reading" THEN RemoveEvent(s, "CdSector") ELSE s

\* Fault: Init leaves the stream of sectors queued.
CommandCallsInitReads(s) ==
    CASE command = "ReadN" -> AddEvent(s, "CdSector", "Manual", SectorTicks[drive_speed])
      [] command = "Pause" /\ stat.drive_state # "None" ->
           StopReading(AddEvent(s, "CdCommand2", "Once", PauseTicks[drive_speed]))
      [] command \in {"Init", "GetId"} -> AddEvent(s, "CdCommand2", "Once", SecondTicks)
      [] command = "SeekL" -> AddEvent(StopReading(s), "CdCommand2", "Once", SecondTicks)
      [] OTHER -> s

\* Fault: GetId is treated as a command without a second response.
CommandCallsNoGetId(s) ==
    CASE command = "ReadN" -> AddEvent(s, "CdSector", "Manual", SectorTicks[drive_speed])
      [] command = "Pause" /\ stat.drive_state # "None" ->
           StopReading(AddEvent(s, "CdCommand2", "Once", PauseTicks[drive_speed]))
      [] command \in {"Init", "SeekL"} ->
           AddEvent(StopReading(s), "CdCommand2", "Once", SecondTicks)
      [] OTHER -> s

\* What ExecuteCommand asks of the scheduler.  A Pause of an idle drive takes
\* an early break: its second response is not scheduled.
CommandCalls(s) ==
    CASE command = "ReadN" -> AddEvent(s, "CdSector", "Manual", SectorTicks[drive_speed])
      [] command = "Pause" /\ stat.drive_state # "None" ->
           StopReading(AddEvent(s, "CdCommand2", "Once", PauseTicks[drive_speed]))
      [] command = "Init" -> StopReading(AddEvent(s, "CdCommand2", "Once", SecondTicks))
      [] command = "SeekL" -> AddEvent(StopReading(s), "CdCommand2", "Once", SecondTicks)
      [] command = "GetId" -> AddEvent(s, "CdCommand2", "Once", SecondTicks)
      [] OTHER -> s

ResponseLength == CASE command = "GetTn" -> 3 [] command = "Test" -> 4 [] OTHER -> 1

HasSecondResponse == {"Pause", "Init", "SeekL", "GetId"}

DriveAfter ==
    CASE command = "ReadN" -> [stat EXCEPT !.drive_state = "Reading"]
      [] command = "Pause" -> [stat EXCEPT !.drive_state = "None"]
      [] command = "Init"  -> [motor_on |-> TRUE, drive_state |-> "None"]
      [] command = "SeekL" -> [motor_on |-> TRUE, drive_state |-> "Seeking"]
      [] OTHER -> stat

\* SetLoc notes a target, ReadN moves the head there unless it has been.
MoveHead ==
    CASE command = "SetLoc" ->
           /\ setloc_timecode' = parameter_fifo.first
           /\ setloc_unprocessed' = TRUE
           /\ UNCHANGED drive_timecode
      [] command = "ReadN" /\ setloc_unprocessed ->
           /\ drive_timecode' = setloc_timecode
           /\ setloc_unprocessed' = FALSE
           /\ UNCHANGED setloc_timecode
      [] command = "Init" ->
           setloc_unprocessed' = TRUE /\ UNCHANGED <<setloc_timecode, drive_timecode>>
      [] OTHER -> UNCHANGED head

\* Fault: busysts is not cleared.
ExecuteCommandStaysBusy ==
    /\ sched' = AfterCallback(CommandCalls(sched), "CdCommand")
    /\ stat' = DriveAfter
    /\ command2' = IF command \in HasSecondResponse THEN command ELSE command2
    /\ MoveHead
    /\ Respond(ResponseLength, Int3)
    /\ parameter_fifo' = NoParameters
    /\ status' = [status EXCEPT !.rslrrdy = TRUE, !.prmempt = TRUE, !.prmwrdy = TRUE]
    /\ UNCHANGED <<pc, frame_finished, running, command, drive_speed, data_fifo_size>>

ExecuteCommand ==
    /\ sched' = AfterCallback(CommandCalls(sched), "CdCommand")
    /\ stat' = DriveAfter
    /\ drive_speed' = CASE command = "SetMode" -> SpeedOf(parameter_fifo.first)
                        [] command = "Init" -> "Single"
                        [] OTHER -> drive_speed
    /\ command2' = IF command \in HasSecondResponse THEN command ELSE command2
    /\ MoveHead
    /\ Respond(ResponseLength, Int3)
    /\ parameter_fifo' = NoParameters
    /\ command' = "Sync"
    /\ status' = [status EXCEPT !.rslrrdy = TRUE, !.prmempt = TRUE, !.prmwrdy = TRUE,
                                !.busysts = FALSE]
    /\ UNCHANGED <<pc, frame_finished, running, data_fifo_size>>

FireCdCommand ==
    /\ Core!Fires("CdCommand")
    /\ IF \/ command = "Sync"
          \/ command = "Test" /\ (parameter_fifo.size = 0 \/ parameter_fifo.first # KnownTest)
       THEN Crash
       ELSE ExecuteCommand

\* ExecuteCommandSecondResponse.  That of SeekL moves the head, ends a read
\* and forgets that the target was not processed.
FireCdCommand2 ==
    /\ Core!Fires("CdCommand2")
    /\ IF command2 \notin HasSecondResponse
       THEN Crash
       ELSE /\ sched' = AfterCallback(IF command2 = "SeekL" THEN StopReading(sched) ELSE sched,
                                      "CdCommand2")
            /\ IF command2 = "SeekL"
               THEN /\ drive_timecode' = setloc_timecode
                    /\ setloc_unprocessed' = FALSE
                    /\ stat' = [stat EXCEPT !.drive_state = "None"]
                    /\ UNCHANGED setloc_timecode
               ELSE UNCHANGED <<head, stat>>
            /\ command2' = "Sync"
            /\ Respond(IF command2 = "GetId" THEN 8 ELSE 1, Int2)
            /\ status' = [status EXCEPT !.rslrrdy = TRUE]
            /\ UNCHANGED <<pc, frame_finished, running, drive_speed, command,
                           parameter_fifo, data_fifo_size>>

\* Fault: the callback delivers the sector and does not reschedule itself.
FireCdSectorOnce ==
    /\ Core!Fires("CdSector")
    /\ drive_timecode + 1 < EndOfDisc
    /\ sched' = PopFront(sched)
    /\ drive_timecode' = drive_timecode + 1
    /\ Respond(1, Int1)
    /\ status' = [status EXCEPT !.rslrrdy = TRUE]
    /\ UNCHANGED <<pc, frame_finished, running, stat, drive_speed, command, command2,
                   parameter_fifo, data_fifo_size, setloc_timecode, setloc_unprocessed>>

\* The callback of CdSector: DeliverDataSector, then RescheduleEvent.  The
\* head past the end of the disc or in the pre-gap is an Error.
FireCdSector ==
    /\ Core!Fires("CdSector")
    /\ IF drive_timecode = 0 \/ drive_timecode + 1 >= EndOfDisc
       THEN Crash
       ELSE /\ sched' = AfterCallback(
                           RescheduleEvent(sched, "CdSector", SectorTicks[drive_speed]),
                           "CdSector")
            /\ drive_timecode' = drive_timecode + 1
            /\ Respond(1, Int1)
            /\ status' = [status EXCEPT !.rslrrdy = TRUE]
            /\ UNCHANGED <<pc, frame_finished, running, stat, drive_speed, command, command2,
                           parameter_fifo, data_fifo_size, setloc_timecode, setloc_unprocessed>>

-----------------------------------------------------------------------------
\* The steps of the core thread that do not concern the controller.
RunLoop ==
    /\ \/ Core!CpuStep \/ Core!FireVblank \/ Core!FireSpu
       \/ Core!Fires("Idle") /\ Core!FireIdle
       \/ Core!LeaveUpdate \/ Core!NextFrame
    /\ UNCHANGED <<regs, head, ints>>

Ended == pc = "crashed" /\ UNCHANGED vars

Next == Guest \/ FireCdCommand \/ FireCdCommand2 \/ FireCdSector \/ RunLoop \/ Ended

Fairness ==
    /\ WF_vars(Core!CpuStep /\ UNCHANGED <<regs, head, ints>>)
    /\ []<>~Core!CoreTurn \/ []<><<Core!CoreTurn>>_<<sched, pc, frame_finished>>

Spec == Init /\ [][Next]_vars /\ Fairness

-----------------------------------------------------------------------------
(* What must hold of the controller.                                        *)

\* The registers and the scheduler agree on what is outstanding: the busy bit
\* on the command, the drive state on the stream of sectors.
EventsMatchRegisters ==
    pc # "crashed" =>
        /\ status.busysts <=> "CdCommand" \in Queued(sched)
        /\ stat.drive_state = "Reading" <=> "CdSector" \in Queued(sched)

\* The bits of the status register tell software the truth about the FIFOs.
StatusMatchesFifos ==
    /\ status.prmempt <=> parameter_fifo.size = 0
    /\ status.prmwrdy <=> parameter_fifo.size < ParameterFifoSize
    /\ status.rslrrdy <=> response_fifo_size > 0
    /\ status.drqsts <=> data_fifo_size > 0

\* Software that keeps the protocol meets no Error but that of the disc's ends.
OnlyTheDiscEnds ==
    pc = "crashed" =>
        stat.drive_state = "Reading"
        /\ (drive_timecode = 0 \/ drive_timecode + 1 >= EndOfDisc)

\* The controller does to the scheduler only what Emulator.tla assumes of it,
\* unless it raises an Error.
RefinesEmulator == Core!Init /\ [][Core!Next \/ pc' = "crashed"]_core

\* scheduler.cpp asserts !m_events[type].active as AddEvent queues an event.
\* Whenever the software may send a command, the event of commands must
\* therefore be inactive.
CommandEventIsInactive ==
    pc = "cpu" /\ Quiet /\ ~status.busysts => ~sched.events["CdCommand"].active

\* Every command is executed, and every promised second response arrives.
CommandsComplete == status.busysts ~> (~status.busysts \/ pc = "crashed")
SecondResponsesArrive ==
    command2 \notin {"Sync", "Pause"} ~> (command2 = "Sync" \/ pc = "crashed")
=============================================================================
