SPECIFICATION MCSpec
CONSTANTS
    Messages = {A, B}
    Threads = {A, B}
    ThreadOf <- OwnThread
    NoThread = NoThread
    Boxes = {"Imbox", "Later"}
    BulkActions = {"unseen"}
    MaxCalls = 2
    Queries = {q1, q2}
    NoQuery = NoQuery
    PageSize = 1
    MaxHits = 2
    Conversations = {A, B}
    NoConversation = NoConversation
    MaxChanges = 1
SYMMETRY Symmetry
INVARIANT ReadIsExplained
INVARIANT ResultsAnswerTheQuery
INVARIANT SubjectIsItsOwn
CHECK_DEADLOCK FALSE
