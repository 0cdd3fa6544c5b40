SPECIFICATION LiveSpec
CONSTANTS
  decode = decode
  coded = coded
  params = params
  Buffers <- MCBuffers
  Refs = {r1, r2, r3}
  Attachable <- MCAttachable
  MaxAttached = 1
  Client = Client
  NoBuffer = NoBuffer
INVARIANTS CountsExact ReleasedOnce FreeHoldsNothing Conserved
CHECK_DEADLOCK FALSE
PROPERTY ReleaseCompletes
