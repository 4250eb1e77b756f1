SPECIFICATION Spec
CONSTANTS
  Ports = {"audio_in", "audio_out", "midi_in", "midi_out"}
  Inputs = {"audio_in", "midi_in"}
  Midi = {"midi_in", "midi_out"}
  MaxSlices = 1
  MaxCount = 3
  Width = 16
INVARIANTS
  InBounds
  OnceUntilCrossed
  HintExact
  Complete
  OnlyLeaksSurvive
PROPERTY Fused
