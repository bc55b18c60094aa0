SPECIFICATION Spec
CONSTANTS
    Handles = {"h1", "h2"}
    NotARequest = NotARequest
    Words <- MCWords
    Texts <- MCTexts
    Writes <- MCWrites
    Answers <- MCAnswers
    Length <- MCLength
    Sizes = {1, 2, 3}
    Closed = Closed
INVARIANTS
    TypeOK
    AnswerInOrder
    CommandsUnderstood
    ArgumentsUnderstood
CHECK_DEADLOCK FALSE
