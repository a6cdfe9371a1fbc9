SPECIFICATION FairSpec
CONSTANTS
  m1 = m1
  m2 = m2
  m3 = m3
  k1 = k1
  c1 = c1
  NoCorr = NoCorr
  NoMsg = NoMsg
  Msgs = {m1, m2, m3}
  Keys = {k1}
  Corrs = {c1}
  KeyOf <- MCKeyOf
  CorrOf <- MCCorrOf
  Configs <- MCConfigs
  Cap = 2
INVARIANTS
  TypeOK SlotsExact WorkConserving SkipExclusive QueueSerial ReplaceLeavesOne
  CancelReaches SaturationExact AnsweredOnce
PROPERTIES
  ImplementsContract EveryEnvelopeSettles
