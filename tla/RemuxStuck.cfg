\* A write that fails while ffmpeg has more to say.
CONSTANTS
  Size = 3
  MaxRead = 2
  Pipe = 1
  Readers = {r1, r2}
SPECIFICATION Spec
INVARIANTS
  WaitedFfmpegCanExit
