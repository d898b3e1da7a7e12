SPECIFICATION FairSpec
CONSTANTS
  t1 = t1
  t2 = t2
  t3 = t3
  request = request
  killer = killer
  Thread <- MCThread
  Parcel <- MCParcel
  None = None
INVARIANTS
  TypeOK
  NoLostWakeup
PROPERTIES
  ImplementsOnePlace
  Progress
