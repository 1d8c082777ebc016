SPECIFICATION Spec
CONSTANTS
    Workers = {w1}
    Messages = {m1, m2}
    NoMessage = NoMessage
    Sent = {"fetch"}
    MaxBatch = 2
    MaxDeaths = 0
PROPERTY
    FullPipeline
