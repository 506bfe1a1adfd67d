SPECIFICATION TextSpec
CONSTANTS
  Sample = {0, 127, 128, 143, 144, 159, 160, 191, 193, 194, 224, 225, 236, 237, 239, 240, 241, 243, 244, 245, 248}
  MaxLen = 4
INVARIANT AcceptsExactlyUtf8
