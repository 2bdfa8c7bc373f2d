\* Two services that may want one port; a pod on this node and one elsewhere.
CONSTANTS
    near = near  far = far 
    Workers = {w1}
    Services = {"a", "b"}
    Ports = {30080}
    NoPort = NoPort
    NoApp = NoApp
    Specs <- MCSpecs
    App <- MCApp
    ListensOn <- MCListensOn
    Here = {near}
    MaxEvents = 4
SPECIFICATION FairSpec
PROPERTIES EndpointsConverge PortsConverge Answered
CHECK_DEADLOCK FALSE
