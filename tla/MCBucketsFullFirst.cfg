SPECIFICATION Spec
CONSTANTS
  Lengths = {2, 4}
  MaxLength = 5
  Verify = TRUE
INVARIANT PaddingChecked
