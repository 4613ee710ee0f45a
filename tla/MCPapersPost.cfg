SPECIFICATION PostsSpec
CHECK_DEADLOCK FALSE
CONSTANTS
    Banks = {"b1"}
    MaxQuestions = 2
    Payloads <- MCPayloads
    Normal <- MCNormal
    Exams = {"e1"}
    Forms <- MCForms
    Sitters = {"ada"}
    Raw <- MCRaw
PROPERTIES
    PostedQuestionsAreAdded
