SPECIFICATION Spec
CONSTANTS
  Polls <- MCPolls
  Buttons = {"Cross"}
  Hats = {"Centered", "Up", "Down", "Right"}
INVARIANTS TypeOK PadWaitsBetweenPolls KeysAreReported
PROPERTIES PollsEnd
