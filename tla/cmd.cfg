SPECIFICATION CmdSpec
CONSTANTS
  Numbers <- MCNumbers
  Names <- MCWords
  ValueOf <- MCValue
  CPU_CORE_COUNT = 4
  AllCores = 9
  Lines <- AllLines
INVARIANT CalledAsTyped
