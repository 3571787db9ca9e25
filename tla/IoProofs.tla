-------------------------------- MODULE IoProofs --------------------------------
(***************************************************************************)
(* The safety properties of the joypad port, for any polls that give the    *)
(* pad what it waits for, any buttons and any positions of the hat switch.  *)
(***************************************************************************)
EXTENDS Io, TLAPS

\* How many bytes of a poll the pad has taken, by what it waits for.
Taken(n) ==
  /\ n \in 0 .. 4
  /\ n = 0 <=> pad.state = "Idle"
  /\ n = 1 <=> pad.state = "IdLow"
  /\ n = 2 <=> pad.state = "IdHigh"
  /\ n = 3 <=> pad.state = "ReadLow"
  /\ n = 4 <=> pad.state = "ReadHigh"

\* The byte that goes to the pad next is one it waits for, and those after it
\* are all that it will acknowledge.
Fits(byte, rest) ==
  /\ pad.state = "Idle" /\ byte = "Select" =>
       /\ Len(rest) >= 2 /\ rest[1] \in {"Read", "Config"}
       /\ rest[1] = "Read" => Len(rest) >= 4
  /\ pad.state = "IdLow" =>
       /\ byte \in {"Read", "Config"} /\ Len(rest) >= 1
       /\ byte = "Read" => Len(rest) >= 3
  /\ pad.state = "IdHigh" =>
       /\ pad.command \in {"Read", "Config"}
       /\ pad.command = "Read" => Len(rest) >= 2
  /\ pad.state = "ReadLow" => Len(rest) >= 1

More == poll # << >> /\ Fits(Head(poll), Tail(poll))

\* Nothing is under way in the port; no interrupt is left over.
Ready == queued = 0 /\ ~tx_busy /\ status.tx_ready
Silent == ~status.irq /\ ~controller

\* Where port, pad and interrupt controller are, by what software does next.
Sending == Ready /\ ~status.rx_has_data /\ Silent /\ Taken(Len(reply)) /\ More

InFlight ==
  /\ queued = 1 /\ tx_busy /\ ~status.tx_ready /\ ~status.rx_has_data /\ Silent
  /\ Taken(Len(reply)) /\ Fits(tx_data, poll)

Answering ==
  /\ Ready /\ status.rx_has_data
  /\ status.irq <=> pad.state # "Idle"
  /\ controller <=> pad.state # "Idle"
  /\ Len(reply) \in 0 .. 4
  /\ pad.state # "Idle" => Taken(Len(reply) + 1) /\ More

Acknowledging ==
  /\ Ready /\ ~status.rx_has_data /\ (status.irq \/ controller)
  /\ pad.state # "Idle" /\ Taken(Len(reply)) /\ More

InStep ==
  /\ software \in {"idle", "sending", "receiving", "acknowledging"}
  /\ software = "idle" => Ready /\ ~status.rx_has_data /\ Silent /\ pad.state = "Idle"
  /\ software = "sending" => Sending
  /\ software = "receiving" => InFlight \/ Answering
  /\ software = "acknowledging" => Acknowledging

\* A byte of keys reports those that are held, and none of those left alone.
Reports(keys, part) == held \cap part \subseteq keys /\ untouched \cap part \cap keys = {}

Reported ==
  /\ held \subseteq keystate /\ untouched \cap keystate = {}
  /\ software = "receiving" /\ queued = 0 =>
       /\ Len(reply) = 3 => Reports(rx_data.keys, Low)
       /\ Len(reply) = 4 => Reports(rx_data.keys, High)
  /\ Len(reply) >= 4 => Reports(reply[4].keys, Low)
  /\ Len(reply) >= 5 => Reports(reply[5].keys, High)

Between == cleared => calls # << >>

IInv == TypeOK /\ Between /\ InStep /\ Reported

-----------------------------------------------------------------------------
\* What is left of a sequence.
LEMMA TailFacts ==
  ASSUME NEW S, NEW q \in Seq(S), q # << >>
  PROVE  /\ Head(q) = q[1] /\ Head(q) \in S
         /\ Tail(q) \in Seq(S) /\ Len(Tail(q)) = Len(q) - 1 /\ Len(q) \in Nat \ {0}
         /\ Len(q) >= 2 => Tail(q)[1] = q[2]
PROOF
  OBVIOUS

\* A byte more.
LEMMA AppendFacts ==
  ASSUME NEW S, NEW q \in Seq(S), NEW e \in S
  PROVE  /\ Append(q, e) \in Seq(S) /\ Len(Append(q, e)) = Len(q) + 1 /\ Len(q) \in Nat
         /\ \A i \in 1 .. Len(q) : Append(q, e)[i] = q[i]
         /\ Append(q, e)[Len(q) + 1] = e
PROOF
  OBVIOUS

\* What a player does concerns neither port nor software, and it makes held and
\* untouched smaller.
LEMMA PlayerStep ==
  ASSUME IInv, Player
  PROVE  IInv'
PROOF
  <1>1. /\ TypeOK /\ Between /\ InStep /\ Reported
        /\ calls \in Seq(Key \X BOOLEAN)
    BY DEF IInv, TypeOK
  <1>2. UNCHANGED <<port, pad, guest>>
    BY DEF Player, MoveHat, PressButton, ClearBit, SetBit, guest
  <1>3. InStep'
    BY <1>1, <1>2 DEF InStep, Sending, InFlight, Answering, Acknowledging, Ready, Silent, More,
         Taken, Fits, port, guest
  <1>4. ASSUME calls # << >>
        PROVE  /\ Head(calls)[1] \in Key /\ Head(calls)[2] \in BOOLEAN
               /\ Tail(calls) \in Seq(Key \X BOOLEAN)
    BY <1>1, <1>4, TailFacts
  <1>5. TypeOK' /\ Between' /\ held' \subseteq held /\ untouched' \subseteq untouched
        /\ held' \subseteq keystate' /\ untouched' \cap keystate' = {}
    <2>1. ASSUME NEW h \in Hats, MoveHat(h)
          PROVE  /\ calls' \in Seq(Key \X BOOLEAN) /\ ~cleared
                 /\ UNCHANGED <<keystate, cleared, held, untouched>>
      <3>1. HatCalls(h) \in Seq(Key \X BOOLEAN)
        <4>1. /\ <<"Up", h = "Up">> \in Key \X BOOLEAN
              /\ <<"Down", h = "Down">> \in Key \X BOOLEAN
              /\ <<"Left", h = "Left">> \in Key \X BOOLEAN
              /\ <<"Right", h = "Right">> \in Key \X BOOLEAN
          <5>1. {"Up", "Down", "Left", "Right"} \subseteq Key
            BY DEF Key, Low
          <5>2. /\ (h = "Up") \in BOOLEAN /\ (h = "Down") \in BOOLEAN
                /\ (h = "Left") \in BOOLEAN /\ (h = "Right") \in BOOLEAN
            BY Zenon
          <5> QED BY <5>1, <5>2, Zenon
        <4>2. ASSUME NEW S, NEW a \in S, NEW b \in S, NEW c \in S, NEW d \in S
              PROVE  <<a, b, c, d>> \in Seq(S)
          OBVIOUS
        <4>3. << <<"Up", h = "Up">>, <<"Down", h = "Down">>, <<"Left", h = "Left">>,
                 <<"Right", h = "Right">> >> \in Seq(Key \X BOOLEAN)
          BY <4>1, <4>2, Zenon
        <4> QED BY <4>3, Zenon DEF HatCalls
      <3> QED BY <1>1, <2>1, <3>1 DEF MoveHat, Between, history
    <2>2. ASSUME NEW key \in Buttons, NEW down \in BOOLEAN, PressButton(key, down)
          PROVE  /\ calls' \in Seq(Key \X BOOLEAN) /\ ~cleared
                 /\ UNCHANGED <<keystate, cleared, held, untouched>>
      <3>1. <<key, down>> \in Key \X BOOLEAN
        BY IoAssumption
      <3> QED BY <1>1, <2>2, <3>1 DEF PressButton, Between, history
    <2>3. CASE UNCHANGED <<keystate, cleared, held, untouched>> /\ ~cleared
               /\ calls' \in Seq(Key \X BOOLEAN)
      BY <1>1, <1>2, <2>3 DEF TypeOK, Reported, Between, port, guest
    <2>4. CASE ClearBit
      BY <1>1, <1>2, <1>4, <2>4 DEF ClearBit, TypeOK, Reported, Between, port, guest
    <2>5. CASE SetBit
      BY <1>1, <1>2, <1>4, <2>5 DEF SetBit, TypeOK, Reported, Between, port, guest
    <2> QED BY <1>1, <2>1, <2>2, <2>3, <2>4, <2>5 DEF Player, TypeOK
  <1>6. Reported'
    BY <1>1, <1>2, <1>5 DEF Reported, Reports, port, guest
  <1> QED BY <1>3, <1>5, <1>6 DEF IInv

\* Software begins a poll: the pad waits for the first byte.
LEMMA StartPollStep ==
  ASSUME IInv, NEW bytes \in Polls, StartPoll(bytes)
  PROVE  IInv'
PROOF
  <1>1. /\ TypeOK /\ Between /\ InStep /\ Reported /\ software = "idle"
        /\ calls \in Seq(Key \X BOOLEAN)
    BY DEF IInv, TypeOK, StartPoll
  <1>2. /\ bytes \in Seq(Byte) /\ bytes # << >>
        /\ bytes[1] = "Select" =>
              /\ Len(bytes) >= 3 /\ bytes[2] \in {"Read", "Config"}
              /\ bytes[2] = "Read" => Len(bytes) >= 5
    BY IoAssumption
  <1>3. /\ Head(bytes) = bytes[1] /\ Len(Tail(bytes)) = Len(bytes) - 1 /\ Len(bytes) \in Nat
        /\ Len(bytes) >= 2 => Tail(bytes)[1] = bytes[2]
    BY <1>2, TailFacts
  <1>4. /\ software' = "sending" /\ poll' = bytes /\ reply' = << >>
        /\ UNCHANGED <<port, pad, keystate, controller, player>>
        /\ held' \subseteq keystate /\ untouched' \subseteq Key \ keystate
    BY DEF StartPoll
  <1>5. TypeOK'
    BY <1>1, <1>2, <1>4 DEF TypeOK, port, player
  <1>6. Len(reply') = 0
    BY <1>4
  <1>7. Fits(Head(bytes), Tail(bytes))
    BY <1>1, <1>2, <1>3 DEF Fits, InStep
  <1>8. Sending'
    BY <1>1, <1>2, <1>4, <1>6, <1>7
       DEF InStep, Sending, Ready, Silent, Taken, More, Fits, port
  <1>9. InStep'
    BY <1>4, <1>8 DEF InStep
  <1>10. Reported' /\ Between'
    BY <1>1, <1>4, <1>6 DEF Reported, Between, player
  <1> QED BY <1>5, <1>9, <1>10 DEF IInv

\* A byte is sent.
LEMMA TxStep ==
  ASSUME IInv, Tx
  PROVE  IInv'
PROOF
  <1>1. /\ TypeOK /\ Between /\ InStep /\ Reported /\ Sending
        /\ poll \in Seq(Byte) /\ poll # << >> /\ Fits(Head(poll), Tail(poll))
    BY DEF IInv, TypeOK, Tx, InStep, Sending, More
  <1>2. Head(poll) \in Byte /\ Tail(poll) \in Seq(Byte)
    BY <1>1, TailFacts
  <1>3. /\ tx_data' = Head(poll) /\ queued' = 1 /\ tx_busy' /\ tx_busy' = TRUE
        /\ status' = [status EXCEPT !.tx_ready = FALSE]
        /\ poll' = Tail(poll) /\ software' = "receiving"
        /\ UNCHANGED <<rx_data, pad, keystate, controller, reply, player, history>>
    BY <1>1 DEF Tx, Sending, Ready
  <1>4. /\ status' \in [tx_ready : BOOLEAN, rx_has_data : BOOLEAN, nack : BOOLEAN, irq : BOOLEAN]
        /\ ~status'.tx_ready /\ ~status'.rx_has_data /\ ~status'.irq
    BY <1>1, <1>3 DEF TypeOK, Sending, Silent
  <1>5. TypeOK'
    BY <1>1, <1>2, <1>3, <1>4 DEF TypeOK, player, history
  <1>6. InFlight'
    BY <1>1, <1>3, <1>4 DEF Sending, InFlight, Silent, Taken, Fits
  <1>7. InStep'
    BY <1>3, <1>6 DEF InStep
  <1>8. Reported' /\ Between'
    BY <1>1, <1>3 DEF Reported, Reports, Between, player, history
  <1> QED BY <1>5, <1>7, <1>8 DEF IInv

\* The pad takes it and answers.  It knows the command.
LEMMA AcknowledgeStep ==
  ASSUME IInv, Acknowledge
  PROVE  IInv'
PROOF
  <1>1. /\ TypeOK /\ Between /\ InStep /\ Reported
        /\ poll \in Seq(Byte) /\ pad \in [state : PadState, command : Byte] /\ tx_data \in Byte
    BY DEF IInv, TypeOK
  <1>2. software = "receiving" /\ InFlight
    BY <1>1 DEF InStep, Sending, InFlight, Answering, Acknowledging, Ready, Acknowledge
  <1>3. pad.state = "IdHigh" => pad.command \in {"Read", "Config"}
    BY <1>2 DEF InFlight, Fits
  <1>4. /\ queued' = 0 /\ tx_busy' = FALSE
        /\ pad' = [state |-> NextState(tx_data),
                   command |-> IF pad.state = "IdLow" THEN tx_data ELSE pad.command]
        /\ rx_data' = PadAnswer
        /\ status' = [tx_ready |-> TRUE, rx_has_data |-> TRUE,
                      nack |-> ~PadAcknowledges(tx_data), irq |-> PadAcknowledges(tx_data)]
        /\ controller' = PadAcknowledges(tx_data)
        /\ UNCHANGED <<tx_data, software, keystate, poll, reply, player, history>>
    <2>1. /\ queued' = queued - 1 /\ Exchange /\ tx_busy' = FALSE
          /\ UNCHANGED <<tx_data, software, keystate, poll, reply, player, history>>
      BY <1>3 DEF Acknowledge
    <2>2. queued = 1 /\ ~status.irq /\ ~controller
      BY <1>2 DEF InFlight, Silent
    <2>3. PadAcknowledges(tx_data) \in BOOLEAN
      BY Zenon DEF PadAcknowledges
    <2>4. /\ (status.irq \/ PadAcknowledges(tx_data)) = PadAcknowledges(tx_data)
          /\ (controller \/ (PadAcknowledges(tx_data) /\ ~status.irq)) = PadAcknowledges(tx_data)
      BY <2>2, <2>3
    <2>5. /\ pad' = [state |-> NextState(tx_data),
                     command |-> IF pad.state = "IdLow" THEN tx_data ELSE pad.command]
          /\ rx_data' = PadAnswer
          /\ status' = [tx_ready |-> TRUE, rx_has_data |-> TRUE,
                        nack |-> ~PadAcknowledges(tx_data),
                        irq |-> status.irq \/ PadAcknowledges(tx_data)]
          /\ controller' = (controller \/ (PadAcknowledges(tx_data) /\ ~status.irq))
      BY <2>1, Zenon DEF Exchange
    <2>6. queued' = 0
      BY <2>1, <2>2
    <2> QED BY <2>1, <2>4, <2>5, <2>6, Zenon
  <1>5. /\ pad.state \in PadState /\ pad.command \in Byte
        /\ pad'.state = NextState(tx_data)
        /\ pad'.command = IF pad.state = "IdLow" THEN tx_data ELSE pad.command
        /\ PadAcknowledges(tx_data) <=> pad'.state # "Idle"
        /\ PadAcknowledges(tx_data) \in BOOLEAN
    BY <1>1, <1>4 DEF PadAcknowledges
  <1>6. TypeOK'
    <2>1. pad' \in [state : PadState, command : Byte]
      BY <1>1, <1>4, <1>5 DEF NextState, PadState
    <2>2. rx_data' \in Answer
      BY <1>1, <1>4, <1>5 DEF PadAnswer, Answered, Answer, PadState, TypeOK
    <2>3. status' \in [tx_ready : BOOLEAN, rx_has_data : BOOLEAN, nack : BOOLEAN, irq : BOOLEAN]
      BY <1>4, <1>5
    <2> QED BY <1>1, <1>4, <1>5, <2>1, <2>2, <2>3 DEF TypeOK, player, history
  <1>7. Len(reply) \in 0 .. 4
    BY <1>2 DEF InFlight, Taken
  <1>8. ASSUME pad'.state # "Idle"
        PROVE  Taken(Len(reply) + 1)' /\ More'
    <2>1. poll # << >> /\ Len(poll) >= 1
      BY <1>1, <1>2, <1>5, <1>8 DEF InFlight, Fits, NextState, PadState
    <2>2. /\ Head(poll) = poll[1] /\ Len(Tail(poll)) = Len(poll) - 1 /\ Len(poll) \in Nat
      BY <1>1, <2>1, TailFacts
    <2>3. Taken(Len(reply) + 1)'
      <3>1. Taken(Len(reply)) /\ Fits(tx_data, poll) /\ reply' = reply
        BY <1>2, <1>4 DEF InFlight
      <3>2. pad'.state = NextState(tx_data)
        BY <1>5
      <3>3. CASE pad.state = "Idle"
        BY <1>7, <1>8, <3>1, <3>2, <3>3 DEF Taken, NextState
      <3>4. CASE pad.state = "IdLow"
        BY <1>7, <1>8, <3>1, <3>2, <3>4 DEF Taken, NextState
      <3>5. CASE pad.state = "IdHigh"
        <4>1. pad'.state = "ReadLow"
          BY <1>8, <3>2, <3>5 DEF NextState
        <4>2. Len(reply) = 2
          BY <1>7, <3>1, <3>5 DEF Taken
        <4> QED BY <3>1, <4>1, <4>2 DEF Taken
      <3>6. CASE pad.state = "ReadLow"
        <4>1. pad'.state = "ReadHigh"
          BY <3>2, <3>6 DEF NextState
        <4>2. Len(reply) = 3
          BY <1>7, <3>1, <3>6 DEF Taken
        <4> QED BY <3>1, <4>1, <4>2 DEF Taken
      <3>7. CASE pad.state = "ReadHigh"
        BY <1>8, <3>2, <3>7 DEF NextState
      <3> QED BY <1>5, <3>3, <3>4, <3>5, <3>6, <3>7 DEF PadState
    <2>4. Fits(Head(poll), Tail(poll))'
      BY <1>2, <1>4, <1>5, <1>8, <2>2 DEF InFlight, Fits, NextState, PadState
    <2> QED BY <1>4, <2>1, <2>3, <2>4 DEF More
  <1>9. Answering'
    BY <1>4, <1>5, <1>7, <1>8 DEF Answering, Ready
  <1>10. InStep'
    BY <1>2, <1>4, <1>9 DEF InStep
  <1>11. Reported'
    <2>1. Len(reply) = 3 => rx_data'.keys = keystate \cap Low
      BY <1>2, <1>4 DEF InFlight, Taken, PadAnswer, Answered
    <2>2. Len(reply) = 4 => rx_data'.keys = keystate \cap High
      BY <1>2, <1>4 DEF InFlight, Taken, PadAnswer, Answered
    <2> QED BY <1>1, <1>4, <2>1, <2>2 DEF Reported, Reports, history
  <1> QED BY <1>1, <1>4, <1>6, <1>10, <1>11 DEF IInv, Between, player

\* Software takes the answer, and knows by the interrupt whether the pad has more.
LEMMA RxStep ==
  ASSUME IInv, Rx
  PROVE  IInv'
PROOF
  <1>1. /\ TypeOK /\ Between /\ InStep /\ Reported
        /\ reply \in Seq(Answer) /\ rx_data \in Answer
    BY DEF IInv, TypeOK
  <1>2. Answering /\ queued = 0 /\ software = "receiving"
    BY <1>1 DEF InStep, InFlight, Answering, Ready, Rx
  <1>3. /\ reply' = Append(reply, rx_data)
        /\ status' = [status EXCEPT !.rx_has_data = FALSE]
        /\ software' = IF pad.state # "Idle" THEN "acknowledging" ELSE "idle"
        /\ UNCHANGED <<tx_busy, tx_data, rx_data, queued, pad, keystate, controller, poll,
                       player, history>>
    BY <1>2 DEF Rx, Answering
  <1>4. /\ reply' \in Seq(Answer) /\ Len(reply') = Len(reply) + 1 /\ Len(reply) \in 0 .. 4
        /\ \A i \in 1 .. Len(reply) : reply'[i] = reply[i]
        /\ reply'[Len(reply) + 1] = rx_data
    BY <1>1, <1>2, <1>3, AppendFacts DEF Answering
  <1>5. /\ status' \in [tx_ready : BOOLEAN, rx_has_data : BOOLEAN, nack : BOOLEAN, irq : BOOLEAN]
        /\ status'.tx_ready = status.tx_ready /\ status'.irq = status.irq
        /\ ~status'.rx_has_data
    BY <1>1, <1>3 DEF TypeOK
  <1>6. TypeOK'
    BY <1>1, <1>3, <1>4, <1>5 DEF TypeOK, player, history
  <1>7. ASSUME pad.state # "Idle"
        PROVE  InStep'
    <2>1. Taken(Len(reply) + 1) /\ More /\ status.irq /\ Ready
      BY <1>2, <1>7 DEF Answering
    <2>2. Taken(Len(reply))' /\ More'
      BY <1>3, <1>4, <2>1 DEF Taken, More, Fits
    <2>3. Ready' /\ pad'.state # "Idle" /\ status'.irq
      BY <1>3, <1>5, <1>7, <2>1 DEF Ready
    <2>4. Acknowledging'
      BY <1>5, <2>2, <2>3 DEF Acknowledging
    <2>5. software' = "acknowledging"
      BY <1>3, <1>7
    <2> QED BY <2>4, <2>5 DEF InStep
  <1>8. ASSUME pad.state = "Idle"
        PROVE  InStep'
    <2>1. Ready' /\ Silent' /\ pad'.state = "Idle"
      BY <1>2, <1>3, <1>5, <1>8 DEF Answering, Ready, Silent
    <2>2. software' = "idle"
      BY <1>3, <1>8
    <2> QED BY <1>5, <2>1, <2>2 DEF InStep
  <1>9. Reported'
    <2>1. Len(reply') >= 4 => Reports(reply'[4].keys, Low)
      BY <1>1, <1>2, <1>4 DEF Reported
    <2>2. Len(reply') >= 5 => Reports(reply'[5].keys, High)
      BY <1>1, <1>2, <1>4 DEF Reported
    <2> QED BY <1>1, <1>3, <2>1, <2>2 DEF Reported, Reports, history
  <1> QED BY <1>1, <1>3, <1>6, <1>7, <1>8, <1>9 DEF IInv, Between, player

\* It acknowledges the interrupt in both places and goes on.
LEMMA HandlerStep ==
  ASSUME IInv, WriteControl \/ WriteStatus
  PROVE  IInv'
PROOF
  <1>1. /\ TypeOK /\ Between /\ InStep /\ Reported /\ Acknowledging
    BY DEF IInv, InStep, WriteControl, WriteStatus
  <1>2. Resume = "sending"
    BY <1>1 DEF Acknowledging, More, Resume
  <1>3. /\ UNCHANGED <<tx_busy, tx_data, rx_data, queued, pad, keystate, poll, reply,
                       player, history>>
        /\ controller' \in BOOLEAN
        /\ status' = [status EXCEPT !.irq = status'.irq] /\ status'.irq \in BOOLEAN
        /\ software' = IF status'.irq \/ controller' THEN "acknowledging" ELSE "sending"
    <2>1. CASE WriteControl
      BY <1>1, <1>2, <2>1 DEF WriteControl, TypeOK
    <2>2. CASE WriteStatus
      BY <1>1, <1>2, <2>2 DEF WriteStatus, TypeOK, port
    <2> QED BY <2>1, <2>2
  <1>4. /\ status' \in [tx_ready : BOOLEAN, rx_has_data : BOOLEAN, nack : BOOLEAN, irq : BOOLEAN]
        /\ status'.tx_ready = status.tx_ready /\ status'.rx_has_data = status.rx_has_data
    BY <1>1, <1>3 DEF TypeOK
  <1>5. TypeOK'
    BY <1>1, <1>3, <1>4 DEF TypeOK, player, history
  <1>6. InStep'
    BY <1>1, <1>3, <1>4
       DEF InStep, Sending, Acknowledging, Ready, Silent, Taken, More, Fits
  <1>7. Reported' /\ Between'
    BY <1>1, <1>3 DEF Reported, Reports, Between, player, history
  <1> QED BY <1>5, <1>6, <1>7 DEF IInv

-----------------------------------------------------------------------------
LEMMA InitIInv == Init => IInv
PROOF
  <1> SUFFICES ASSUME Init PROVE IInv
    OBVIOUS
  <1>1. TypeOK
    <2>1. /\ poll \in Seq(Byte) /\ reply \in Seq(Answer) /\ calls \in Seq(Key \X BOOLEAN)
          /\ held \subseteq Key /\ untouched \subseteq Key /\ keystate \subseteq Key
      BY DEF Init
    <2>2. tx_data \in Byte /\ pad \in [state : PadState, command : Byte]
      BY DEF Init, Byte, PadState
    <2>3. rx_data \in Answer
      BY DEF Init, Answer, Answered
    <2> QED BY IoAssumption, <2>1, <2>2, <2>3 DEF Init, TypeOK
  <1>2. InStep /\ Between
    BY DEF Init, InStep, Ready, Silent, Between
  <1>3. Reported
    BY DEF Init, Reported
  <1> QED BY <1>1, <1>2, <1>3 DEF IInv

LEMMA NextIInv == IInv /\ [Next]_vars => IInv'
PROOF
  <1> SUFFICES ASSUME IInv, [Next]_vars PROVE IInv'
    OBVIOUS
  <1>1. CASE Next
    BY <1>1, PlayerStep, StartPollStep, TxStep, AcknowledgeStep, RxStep, HandlerStep
       DEF Next, Software
  <1>2. CASE UNCHANGED vars
    BY <1>2 DEF IInv, TypeOK, Between, InStep, Sending, InFlight, Answering, Acknowledging,
         Ready, Silent, More, Taken, Fits, Reported, Reports, vars, port, guest, player, history
  <1> QED BY <1>1, <1>2

\* In every reachable state software, port and pad are at the same byte.
THEOREM Safety == Spec => []IInv
PROOF
  <1> QED BY InitIInv, NextIInv, PTL DEF Spec

\* Types: in particular a transfer never begins before the last is acknowledged.
THEOREM TypeCorrect == Spec => []TypeOK
PROOF
  <1>1. IInv => TypeOK
    BY DEF IInv
  <1> QED BY <1>1, Safety, PTL

\* Whatever polls software makes, the pad never takes another byte for the command,
\* and waits for the first byte when a poll has ended.
THEOREM PadWaitsBetweenPollsHolds == Spec => []PadWaitsBetweenPolls
PROOF
  <1>1. IInv => PadWaitsBetweenPolls
    BY DEF IInv, InStep, Ready, Silent, PadWaitsBetweenPolls
  <1> QED BY <1>1, Safety, PTL

\* Keys that are held during a poll are reported, and keys left alone are not,
\* whatever the main thread writes between the bytes.
THEOREM KeysAreReportedHolds == Spec => []KeysAreReported
PROOF
  <1>1. ASSUME IInv, software = "idle", Len(reply) = 5
        PROVE  LET reported == (reply[4].keys \cap Low) \cup (reply[5].keys \cap High)
               IN  held \subseteq reported /\ untouched \cap reported = {}
    <2>1. held \subseteq Low \cup High
      BY <1>1 DEF IInv, TypeOK, Key
    <2> QED BY <1>1, <2>1 DEF IInv, Reported, Reports
  <1>2. IInv => KeysAreReported
    BY <1>1 DEF KeysAreReported
  <1> QED BY <1>2, Safety, PTL
=============================================================================
