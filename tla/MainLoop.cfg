CONSTANTS
  A = A
  B = B
  Esc = Esc
  P = P
  CtrlQ = CtrlQ
  short = short
  long = long
  Width = 2
  ButtonBit <- TheButtons
  SaveLength <- TheLengths
  MaxSaves = 3
  MaxPending = 3
  Sessions <- AllSessions
SPECIFICATION FairSpec
INVARIANTS TypeOK ReportIsSnapshot KeysAgree
PROPERTIES EventsLeaveTheFrame QuitServed SavesComeBack
