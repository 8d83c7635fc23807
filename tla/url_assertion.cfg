SPECIFICATION Spec
INVARIANTS
  PortOrPasswordIsTaken
