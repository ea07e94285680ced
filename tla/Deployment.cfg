SPECIFICATION DeploymentSpec
CONSTANTS
    Directories = {d1, d2, d3}
    NoRecord = NoRecord
INVARIANTS DeploymentTypeOK Findable
PROPERTY RecordedIsComplete
