\* All the mappers, one at a time.
SPECIFICATION Spec
CONSTANTS
  Unset = Unset
  \* The largest ROMs; 32 KB of RAM, and one bank of it in an MBC3.
  Mbc1Banks = 128
  Mbc2Banks = 16
  Mbc3Banks = 256
  Mbc5Banks = 512
  Mbc1Ram = 3
  Mbc3Ram = 2
  Mbc5Ram = 3
  Bytes = {1, 2}
  Mbc3Bytes = {1}
  \* Values on both sides of every mask, and those that enable RAM.
  Mbc1Values = {0, 1, 2, 3, 10, 17, 31, 32, 255}
  Mbc2Values = {0, 1, 10, 15, 16, 26, 255}
  Mbc5Values = {0, 1, 3, 9, 10, 255}
  \* A000, A0FF, A100, A1FF, A200 and BFFF.
  RamAddresses = {40960, 41215, 41216, 41471, 41472, 49151}
  EnableValues = {0, 10}
  BankValues = {0, 128}
  SelectValues = {0, 4, 8, 11, 12}
  LatchValues = {0, 1, 2}
  \* Counters of the clock with one value, at least, beyond the valid ones.
  TCyclesPerSecond = 2
  SecondsMax = 2
  SecondsHard = 3
  MinutesMax = 1
  MinutesHard = 3
  HoursMax = 1
  HoursHard = 3
  DayLow = 2
  Written = {0, 1, 3, 6}
  \* The same beside the registers of its mapper.
  Mbc3Second = 1
  Mbc3SecondsMax = 1
  Mbc3SecondsHard = 2
  Mbc3MinutesMax = 0
  Mbc3MinutesHard = 1
  Mbc3HoursMax = 0
  Mbc3HoursHard = 1
  Mbc3DayLow = 2
  Mbc3Written = {0}
INVARIANTS
  TypeOK
  EveryBankInReach
  RamKeepsItsBanks
  LatchIsOneInstant
PROPERTIES
  StoresGoWhereChosen
  SecondsAddUp
  BecomesValid
CHECK_DEADLOCK TRUE
