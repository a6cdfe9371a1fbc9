SPECIFICATION OSpec
CONSTANTS
  m1 = m1
  m2 = m2
  m3 = m3
  k1 = k1
  c1 = c1
  NoCorr = NoCorr
  NoMsg = NoMsg
  Msgs = {m1, m2, m3}
  Keys = {k1}
  Corrs = {c1}
  KeyOf <- MCKeyOf
  CorrOf <- MCCorrOf
  Configs <- MCQueue
  Cap = 2
PROPERTIES
  QueueArrivalOrder
