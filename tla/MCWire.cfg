SPECIFICATION Spec
CONSTANT Depth = 5
INVARIANTS RoundTrip SizeIsLength CutIsNotMisread SignedBytesAgree CloneIsEqual
