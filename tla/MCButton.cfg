SPECIFICATION FairSpec
CONSTANTS
  DEBOUNCE_TICKS = 3
  SHORT_TICKS = 3
  SERIAL_TICKS = 2
  long_press_ticks = 5
  short_press_ticks = 4
  TickBits = 5
  MaxPresses = 3
INVARIANTS TypeOK
PROPERTIES Debounces ClicksExact Settles
