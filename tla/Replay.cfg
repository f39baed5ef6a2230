\* Two speakers, one of whom may be removed while it is sending, a channel that is
\* swept and made again, and somebody who joins it.
SPECIFICATION Spec
CONSTANTS
  s1 = s1  s2 = s2  j1 = j1  json = json  msgpack = msgpack
  Speakers = {s1, s2}
  Joiners = {j1}
  Codecs = {json, msgpack}
  CodecOf <- JustOne
  Backlog = 1
  Values = {1, 2}
  Sweeps = TRUE
  EncodeFails = TRUE
  MaxSeq = 3
  Nobody = Nobody
  MaxDiacritics = 2
  MaxText = 5
INVARIANTS OneOrder NoGap FiltersAgree
CHECK_DEADLOCK FALSE
