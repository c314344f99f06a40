CONSTANTS
    Handlers = {h1}
    Capacity = 1
SPECIFICATION Spec
INVARIANT SerializedWrites
