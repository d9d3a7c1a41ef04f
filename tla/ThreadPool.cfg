SPECIFICATION FairSpec
CONSTANTS
  Senders = {s1, s2, s3}
  NoSender = NoSender
INVARIANTS
  NoUseAfterDelete
  NoSenderForgotten
PROPERTIES
  EveryThreadReaped
