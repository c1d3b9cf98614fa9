CONSTANTS
    Size = 4
    Char = {z, a}
    Zero = z
    MaxLen = 5
SPECIFICATION Spec
PROPERTY ImplementsOverwriteQueue
