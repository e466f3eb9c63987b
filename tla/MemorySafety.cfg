\* One message, one prompt and two requests against a store that knows a
\* profile; memory may be switched off and on.
SPECIFICATION MemSpec
CONSTANTS
    i1 = i1
    None = None
    Message = {m1}
    Prompt = {p1}
    Request = {r1, r2}
    MemoryId = {i1, i2}
    Proposals <- MCProposals
    Edits <- MCEdits
    Stores <- MCStores
INVARIANT OffMeansQuiet
INVARIANT SensitiveIsConfirmed
INVARIANT SlotHasOneValue
PROPERTY RevokedIsNotPrompted
CHECK_DEADLOCK FALSE
