SPECIFICATION Spec
CONSTANTS
    Flags <- Checked
    Sizes = {1, 2}
    MaxSerial = 3
    Prompt = TRUE
INVARIANTS SettledAsSet ShownConfigured IdleIsLive
PROPERTIES NeverBack
