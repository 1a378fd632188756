SPECIFICATION Spec
CONSTANT Subjects = {"toClaude", "fromClaude", "toResponses", "framer", "told", "socket", "payload", "thinking", "rules", "alias", "images"}
CHECK_DEADLOCK FALSE
INVARIANTS
    
    TranscriptsAreWhole
    RequestIsWhole
    PayloadIsAccepted
    ThinkingIsAccepted
    AliasesAreSound
