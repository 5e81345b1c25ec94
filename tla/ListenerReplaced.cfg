CONSTANTS
    Manifests <- MCManifests
    Caps <- MCCaps
    HTTP = "http"
    Unscoped = {"global"}
    Paths <- MCPaths
    MaxAddresses = 2
    Moving = {4}
SPECIFICATION Spec
PROPERTY
    ReplacementStays
