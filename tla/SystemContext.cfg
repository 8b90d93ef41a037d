CONSTANTS
    Env = Env
    AgentsMd = AgentsMd
    Skills = Skills
    Keys = {Env, AgentsMd, Skills}
    Values = {v1, v2}
    Fails = {AgentsMd}
    MayBeEmpty = {Skills}
    Unavailable = Unavailable
    Empty = Empty
    None = None
SPECIFICATION Spec
INVARIANT PromptTellsAll
CHECK_DEADLOCK FALSE
