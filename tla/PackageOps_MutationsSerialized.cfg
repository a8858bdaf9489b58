\* What a comment says and the operations do not do: MutationsSerialized.
SPECIFICATION Spec
CONSTANTS
  Ops <- OneOfEach
  Kind <- KindIsName
  MaxLines = 0
INVARIANT MutationsSerialized
