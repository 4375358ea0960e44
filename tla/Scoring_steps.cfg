SPECIFICATION Spec
CONSTANTS
  corruption = corruption
  other = other
  Topics = {corruption, other}
  Weight <- MCWeight
  Base = 20
  Top = 20
  Scale = 12
  MaxMentions = 4
CHECK_DEADLOCK FALSE
INVARIANTS
  TypeOK
PROPERTIES
  BadNewsNeverHelps GoodNewsNeverHurts OneMentionIsBounded
