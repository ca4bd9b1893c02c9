SPECIFICATION Spec
CONSTANTS
    Instances = {i1}
    Calls = {c1}
    Asks <- Whats
    None = None
INVARIANTS
    ListedResourcesReadable
