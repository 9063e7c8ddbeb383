SPECIFICATION FairSpec
CONSTANTS
    Fields = {"f", "g"}
    Values = {1}
    Zero = 0
    MaxWrites = 2
    ControlDepth = 1
    UpdateDepth = 1
    EventCap = 1
    CommandDepth = 1
INVARIANTS
    AnswersTrue
    OutBufMirrors
    StreamEndsInOrder
PROPERTY
    NobodyHangs
