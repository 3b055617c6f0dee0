SPECIFICATION Spec
CONSTANTS
    Subjects = {a, b}
    a = a
    b = b
    None = None
    MaxGeneration = 2
PROPERTIES
    StaleRotationIsQuiet
