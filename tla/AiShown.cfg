SPECIFICATION Spec

CONSTANTS
  Provider = {p, q}
  None = None

INVARIANT SentToTheProviderShown

CHECK_DEADLOCK FALSE
