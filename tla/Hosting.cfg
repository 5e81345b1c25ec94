CONSTANTS
    Manifests <- MCManifests
    Caps <- MCCaps
    HTTP = "http"
    Unscoped = {"global"}
    Paths <- MCPaths
    MaxAddresses = 3
    Moving = {4}
SPECIFICATION Spec
INVARIANTS
    DependencyOutlivesDependent
    CallsStayInside
    ExitLeavesNothing
PROPERTIES
    VisibleListenerStays
    HostExits
