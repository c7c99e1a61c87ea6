\* Two producers of two messages, two consumers and one closing thread.
CONSTANTS
  Mailbox = mailbox
  Producers = {p1, p2}
  Consumers = {c1, c2}
  Closers = {k1}
  MaxPushes = 2

SPECIFICATION Spec

INVARIANTS
  Conservation
  NulloptIsFinal
  NoLostWakeup

PROPERTIES
  CloseReleasesConsumers
  EveryMessageTaken
