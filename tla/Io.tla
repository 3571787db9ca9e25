----------------------------------- MODULE Io -----------------------------------
(***************************************************************************)
(* The joypad port (core/io.cpp), the digital pad on it                     *)
(* (core/joypad/digital.cpp), software that polls the pad, and the main     *)
(* thread that presses its keys (main.cpp).                                 *)
(*                                                                         *)
(* Software sends a byte, waits for the one that comes back, and goes on if *)
(* the pad acknowledged, which it sees by the interrupt; it acknowledges    *)
(* that in the port and in the interrupt controller, in either order.  It   *)
(* sends all of a poll, as the pad has no way to notice that one was        *)
(* abandoned.  Of the scheduler only the acknowledges that are queued are   *)
(* kept; Emulator.tla shows that each of them fires.                        *)
(*                                                                         *)
(* The main thread writes the keys without a lock.  A key is a bit that is  *)
(* 0 while the key is pressed, and BitField::SetValue clears the bit before *)
(* it sets it: between the two the core thread sees the key pressed.        *)
(***************************************************************************)
EXTENDS Integers, Sequences

CONSTANTS
    Polls,              \* the sequences of bytes software sends
    Buttons,            \* the keys that are buttons, of which the player uses these
    Hats                \* the positions of the hat switch that main.cpp knows; an
                        \* event with another one changes no key

VARIABLES
    status,             \* m_status
    tx_busy, tx_data, rx_data,
    queued,             \* IoAcknowledge events in the scheduler
    pad,                \* m_state and m_command of the pad
    keystate,           \* the keys whose bit is 0
    controller,         \* the Controller bit of the interrupt controller's status
    software,           \* what the software does next
    poll,               \* the bytes it has still to send
    reply,              \* the bytes it has received
    calls, cleared,     \* main thread: SetKeystate calls to make; whether the first
                        \* has cleared the bit already
    held, untouched     \* history: the keys pressed since the poll began, and those
                        \* released since then that nobody wrote

port == <<status, tx_busy, tx_data, rx_data, queued>>
guest == <<controller, software, poll, reply>>
player == <<calls, cleared>>
history == <<held, untouched>>
vars == <<port, pad, keystate, guest, player, history>>

Low == {"Select", "Start", "Up", "Right", "Down", "Left"}
High == {"L2", "R2", "L1", "R1", "Triangle", "Circle", "Cross", "Square"}
Key == Low \cup High
Dpad == {"Up", "Down", "Left", "Right"}

\* The bytes: select the pad, read the keys, enter the configuration mode, and
\* nothing in particular; the answers: nobody, the identity, and key bytes.
Byte == {"Select", "Read", "Config", "Zero"}
Answer == [kind : {"None", "HiZ", "Id", "Ready", "Keys"}, keys : SUBSET Key]
Answered(kind, keys) == [kind |-> kind, keys |-> keys]

PadState == {"Idle", "IdLow", "IdHigh", "ReadLow", "ReadHigh"}

\* A poll that selects the pad gives it a command it knows, and all the bytes that
\* the pad acknowledges, but the last.
ASSUME IoAssumption ==
    /\ \A bytes \in Polls :
         /\ bytes \in Seq(Byte) /\ bytes # << >>
         /\ bytes[1] = "Select" =>
              /\ Len(bytes) >= 3 /\ bytes[2] \in {"Read", "Config"}
              /\ bytes[2] = "Read" => Len(bytes) >= 5
    /\ Buttons \subseteq Key

TypeOK ==
    /\ status \in [tx_ready : BOOLEAN, rx_has_data : BOOLEAN, nack : BOOLEAN, irq : BOOLEAN]
    /\ tx_busy \in BOOLEAN /\ tx_data \in Byte /\ rx_data \in Answer
    /\ queued \in {0, 1}
    /\ pad \in [state : PadState, command : Byte]
    /\ keystate \subseteq Key
    /\ controller \in BOOLEAN
    /\ software \in {"idle", "sending", "receiving", "acknowledging", "crashed"}
    /\ poll \in Seq(Byte) /\ reply \in Seq(Answer)
    /\ calls \in Seq(Key \X BOOLEAN) /\ cleared \in BOOLEAN
    /\ held \subseteq Key /\ untouched \subseteq Key

Init ==
    /\ status = [tx_ready |-> TRUE, rx_has_data |-> FALSE, nack |-> FALSE, irq |-> FALSE]
    /\ tx_busy = FALSE /\ tx_data = "Zero" /\ rx_data = Answered("None", {})
    /\ queued = 0
    /\ pad = [state |-> "Idle", command |-> "Zero"]
    /\ keystate = {}
    /\ controller = FALSE
    /\ software = "idle" /\ poll = << >> /\ reply = << >>
    /\ calls = << >> /\ cleared = FALSE
    /\ held = {} /\ untouched = {}

-----------------------------------------------------------------------------
(* The pad.                                                                 *)

\* Fault: the pad waits for more after the last byte.
NextStateHighStays(value) ==
    CASE pad.state = "Idle"     -> IF value = "Select" THEN "IdLow" ELSE "Idle"
      [] pad.state = "IdLow"    -> "IdHigh"
      [] pad.state = "IdHigh"   -> IF pad.command = "Read" THEN "ReadLow" ELSE "Idle"
      [] OTHER                  -> "ReadHigh"

\* Digital::Transmit of a byte: what the pad waits for next, ...
NextState(value) ==
    CASE pad.state = "Idle"     -> IF value = "Select" THEN "IdLow" ELSE "Idle"
      [] pad.state = "IdLow"    -> "IdHigh"
      [] pad.state = "IdHigh"   -> IF pad.command = "Read" THEN "ReadLow" ELSE "Idle"
      [] pad.state = "ReadLow"  -> "ReadHigh"
      [] pad.state = "ReadHigh" -> "Idle"

\* Fault: the two key bytes are swapped.
AnswerSwapped ==
    CASE pad.state = "Idle"     -> Answered("HiZ", {})
      [] pad.state = "IdLow"    -> Answered("Id", {})
      [] pad.state = "IdHigh"   -> Answered("Ready", {})
      [] pad.state = "ReadLow"  -> Answered("Keys", keystate \cap High)
      [] pad.state = "ReadHigh" -> Answered("Keys", keystate \cap Low)

\* ... what it answers, ...
PadAnswer ==
    CASE pad.state = "Idle"     -> Answered("HiZ", {})
      [] pad.state = "IdLow"    -> Answered("Id", {})
      [] pad.state = "IdHigh"   -> Answered("Ready", {})
      [] pad.state = "ReadLow"  -> Answered("Keys", keystate \cap Low)
      [] pad.state = "ReadHigh" -> Answered("Keys", keystate \cap High)

\* ... and whether it acknowledges, as it does unless it is done.
PadAcknowledges(value) == NextState(value) # "Idle"

-----------------------------------------------------------------------------
(* The port, as software and the scheduler reach it.                        *)

\* Software begins a poll.
StartPoll(bytes) ==
    /\ software = "idle"
    /\ software' = "sending"
    /\ poll' = bytes
    /\ reply' = << >>
    /\ LET writing == IF cleared THEN {Head(calls)[1]} ELSE {}
       IN  /\ held' = keystate \ writing
           /\ untouched' = Key \ (keystate \cup writing)
    /\ UNCHANGED <<port, pad, keystate, controller, player>>

\* Fault: the acknowledge is queued twice.
TxTwice ==
    /\ software = "sending"
    /\ status.tx_ready
    /\ tx_data' = Head(poll)
    /\ queued' = queued + 2
    /\ status' = [status EXCEPT !.tx_ready = FALSE]
    /\ tx_busy' = TRUE
    /\ poll' = Tail(poll)
    /\ software' = "receiving"
    /\ UNCHANGED <<rx_data, pad, keystate, controller, reply, player, history>>

\* Tx.  Software goes by tx_ready; the code asserts ~tx_busy.
Tx ==
    /\ software = "sending"
    /\ status.tx_ready
    /\ tx_data' = Head(poll)
    /\ queued' = queued + 1
    /\ status' = [status EXCEPT !.tx_ready = FALSE]
    /\ tx_busy' = TRUE
    /\ poll' = Tail(poll)
    /\ software' = "receiving"
    /\ UNCHANGED <<rx_data, pad, keystate, controller, reply, player, history>>

\* The exchange with the pad that a callback of IoAcknowledge makes.  The
\* interrupt is raised only if the last one was acknowledged in the port.
Exchange ==
    LET ack == PadAcknowledges(tx_data)
    IN  /\ pad' = [state |-> NextState(tx_data),
                   command |-> IF pad.state = "IdLow" THEN tx_data ELSE pad.command]
        /\ rx_data' = PadAnswer
        /\ status' = [tx_ready |-> TRUE, rx_has_data |-> TRUE, nack |-> ~ack,
                      irq |-> status.irq \/ ack]
        /\ controller' = (controller \/ (ack /\ ~status.irq))

\* Fault: the callback is not made for a byte that gets no acknowledge.
AcknowledgeOnly ==
    /\ queued > 0
    /\ PadAcknowledges(tx_data)
    /\ queued' = queued - 1
    /\ Exchange
    /\ tx_busy' = FALSE
    /\ UNCHANGED <<tx_data, software, keystate, poll, reply, player, history>>

\* The callback of IoAcknowledge.  An unknown command raises an Error.
Acknowledge ==
    /\ queued > 0
    /\ IF pad.state = "IdHigh" /\ pad.command \notin {"Read", "Config"}
       THEN /\ software' = "crashed"
            /\ UNCHANGED <<port, pad, controller>>
       ELSE /\ queued' = queued - 1
            /\ Exchange
            /\ tx_busy' = FALSE
            /\ UNCHANGED <<tx_data, software>>
    /\ UNCHANGED <<keystate, poll, reply, player, history>>

\* Rx.  No interrupt means that the pad has nothing more to say.
Rx ==
    /\ software = "receiving"
    /\ status.rx_has_data
    /\ reply' = Append(reply, rx_data)
    /\ status' = [status EXCEPT !.rx_has_data = FALSE]
    /\ software' = IF controller THEN "acknowledging" ELSE "idle"
    /\ UNCHANGED <<tx_busy, tx_data, rx_data, queued, pad, keystate, controller, poll,
                   player, history>>

Resume == IF poll = << >> THEN "idle" ELSE "sending"

\* WriteControl with the acknowledge bit.
WriteControl ==
    /\ software = "acknowledging"
    /\ status.irq
    /\ status' = [status EXCEPT !.irq = FALSE]
    /\ software' = IF controller THEN "acknowledging" ELSE Resume
    /\ UNCHANGED <<tx_busy, tx_data, rx_data, queued, pad, keystate, controller, poll, reply,
                   player, history>>

\* Intc::WriteStatus.
WriteStatus ==
    /\ software = "acknowledging"
    /\ controller
    /\ controller' = FALSE
    /\ software' = IF status.irq THEN "acknowledging" ELSE Resume
    /\ UNCHANGED <<port, pad, keystate, poll, reply, player, history>>

-----------------------------------------------------------------------------
(* The main thread.                                                         *)

HatCalls(h) ==
    << <<"Up", h = "Up">>, <<"Down", h = "Down">>, <<"Left", h = "Left">>,
       <<"Right", h = "Right">> >>

\* SDL_JOYHATMOTION: also with the position of the last event that changed a key,
\* when the switch comes back from a position in between.
MoveHat(h) ==
    /\ calls = << >>
    /\ calls' = HatCalls(h)
    /\ UNCHANGED <<port, pad, keystate, guest, cleared, history>>

\* SDL_JOYBUTTONDOWN and SDL_JOYBUTTONUP.
PressButton(key, down) ==
    /\ calls = << >>
    /\ calls' = << <<key, down>> >>
    /\ UNCHANGED <<port, pad, keystate, guest, cleared, history>>

\* SetKeystate, first half: the bit becomes 0.
ClearBit ==
    /\ calls # << >> /\ ~cleared
    /\ cleared' = TRUE
    /\ keystate' = keystate \cup {Head(calls)[1]}
    /\ untouched' = untouched \ {Head(calls)[1]}
    /\ UNCHANGED <<port, pad, guest, calls, held>>

\* ... and second half: it becomes what it shall be.
SetBit ==
    /\ cleared
    /\ cleared' = FALSE
    /\ calls' = Tail(calls)
    /\ IF Head(calls)[2]
       THEN UNCHANGED <<keystate, held>>
       ELSE /\ keystate' = keystate \ {Head(calls)[1]}
            /\ held' = held \ {Head(calls)[1]}
    /\ UNCHANGED <<port, pad, guest, untouched>>

-----------------------------------------------------------------------------
Software == Tx \/ Rx \/ WriteControl \/ WriteStatus

Player ==
    \/ \E h \in Hats : MoveHat(h)
    \/ \E key \in Buttons, down \in BOOLEAN : PressButton(key, down)
    \/ ClearBit \/ SetBit

Next == (\E bytes \in Polls : StartPoll(bytes)) \/ Software \/ Acknowledge \/ Player

\* Software goes on with a poll it has begun, and the scheduler fires what is
\* queued.  Nothing is assumed of the player.
Spec == Init /\ [][Next]_vars /\ WF_vars(Software) /\ WF_vars(Acknowledge)

-----------------------------------------------------------------------------
(* What must hold of the port.                                              *)

\* Software and pad keep in step: the pad never takes another byte for the command, and
\* when a poll is over, however it ended, the pad waits for the first byte of the next,
\* and no interrupt is left over.
PadWaitsBetweenPolls ==
    /\ software # "crashed"
    /\ software = "idle" => pad.state = "Idle" /\ queued = 0 /\ ~status.irq /\ ~controller

\* A key that is held during the whole poll is reported, and one that is
\* released and left alone during the whole poll is not, whatever the player
\* does to the others between the bytes.
KeysAreReported ==
    software = "idle" /\ Len(reply) = 5 =>
        LET reported == (reply[4].keys \cap Low) \cup (reply[5].keys \cap High)
        IN  held \subseteq reported /\ untouched \cap reported = {}

\* A poll that was begun ends.
PollsEnd == software = "sending" ~> software = "idle"
=============================================================================
