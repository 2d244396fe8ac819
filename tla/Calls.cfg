SPECIFICATION Spec
CONSTANTS
  People = {ann, bob}
  Providers = {jitsi, vendor}
  Origins = {jitsi}
  Tx = {t1, t2}
  MaxCalls = 2
  NoOrigin = none
SYMMETRY Interchangeable
INVARIANT CallsSound
INVARIANT FrameOrigin
