SPECIFICATION Spec
CONSTANTS
    Keys = {"git", "jq", "tesseract"}
    Core = {"git"}
    Provisioned = {"git", "jq"}
    MaxOutside = 1
PROPERTIES RemovedStaysRemoved
CHECK_DEADLOCK FALSE
