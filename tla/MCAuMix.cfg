SPECIFICATION FedSpec
CONSTANTS
  t1 = t1
  t2 = t2
  s1 = s1
  Threads = {t1, t2}
  Sources = {s1}
  Fed = {s1}
  NoSource = NoSource
  Free = Free
  Mixer = Mixer
  WishFrames = 2
  MaxFrames = 4
  Ptime = 1
  MaxLag = 1
  FileFrames = 1
  MayFail = TRUE
INVARIANTS NoLostWakeup ListedAlive MixerAlive
PROPERTIES ImplementsBridge EnabledServed CallsReturn MixerEnds SoundReturns
