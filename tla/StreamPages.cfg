CONSTANTS
    Page = {p1}
    Prompt = {p1}
    Topics <- OneTopic
    Handler = {h1}
    Cap = 2
    MaxVersion = 3
SPECIFICATION FairSpec
INVARIANTS
    TypeOK
    NothingSlipsBetween
    KickCoversMutation
PROPERTY
    PromptPageCatchesUp
