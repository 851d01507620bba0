\* One failing Pa_OpenDefaultStream is enough.
SPECIFICATION Spec
CONSTANT MaxSongs = 2
INVARIANT
  OnlyValidStreamsUsed
