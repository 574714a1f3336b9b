CONSTANTS
    Ids <- MCIds
    Rels <- MCOneRel
    Alphabet <- MCAlphabet
    Kinds = {fact}
    WsIds = {"w"}
    DefaultWs = "w"
    Global = Global
    NoNode = NoNode
    None = None
    Procs = {p1}
    Paths = {"out"}
    FormatArgs = {"jsonl", "png"}
    MaxDepth = 3
    MaxHops = 2
    MaxK = 1
    MaxLimit = 1
    MaxPuts = 2
SPECIFICATION Spec
INVARIANT NodeShowsIncidentEdges
