SPECIFICATION AllSpec
CONSTANTS
  Prio = {1, 2, 3}
  MaxAO = 3
  Capacity = 2
  MaxNest = 2
  Radix = 3
  CobsBlockMax = 3
  MaxMessage = 8
  PrintMax = 6
  Directives <- SomeDirectives
  MaxFormat = 2
  Sig = {s1, s2}
  MaxTests = 3
  MaxEvents = 2
  LineWidth = 80
  NameLen = {14, 29, 80, 81}
  Fake = {f, g}
  ArgHistoryLen = 2
  CallHistoryLen = 3
  MaxSettings = 1
  MaxCalls = 4
INVARIANTS ContextConsistent RunsHighest AssertionsHold PacketsSurvive PrintedWhole ReportSound FakeRecordsCalls
