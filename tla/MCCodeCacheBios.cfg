SPECIFICATION Spec
CONSTANTS
  PageWords = 4
  Pages = 2
  Boot <- MCBoot
  Rom <- MCRom
  Entries <- MCEntries
  Stored = {1, 5, 6}
  Written = {"Plain", "End"}
  BufferSize = 15
INVARIANT BiosEnteredPhysically
CHECK_DEADLOCK FALSE
