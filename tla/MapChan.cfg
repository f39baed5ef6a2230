\* Two writers overlap on a subscriber with room for one message.
SPECIFICATION Spec
CONSTANTS
  w1 = w1  w2 = w2  s1 = s1  s2 = s2
  Writers = {w1, w2}
  Subs = {s1, s2}
  Buffer = 1
  MaxMsgs = 3
INVARIANTS NeverPanics NoSilentGap DropsCounted
CHECK_DEADLOCK FALSE
