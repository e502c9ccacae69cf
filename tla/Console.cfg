CONSTANTS
  Width = 2
  Height = 2
  Chars = {"a"}
  TerminalKeys = {3, 29}
  PressedKeys <- MCPressedKeys
  MaxEvents = 3
  BlinkFrames = 1
  CommandLines <- MCCommandLines
  Readable = {"bios.bin", "a.asm"}
  FontFiles = {}
  Loadable = {}
SPECIFICATION Spec
INVARIANT ScreenIsPaper
INVARIANT TerminalCurrent
INVARIANT CursorInFrame
PROPERTY WindowCatchesUp
PROPERTY HaltEnds
CHECK_DEADLOCK FALSE
