SPECIFICATION FairSpec
CONSTANTS
    r1 = r1
    t1 = t1
    Requests = {r1, r2}
    Seeds = {k1}
    Tenants = {t1, t2}
    Tokens <- MCTokens
    NewUsages = {"SIGNING"}
    NoTenant = NoTenant
INVARIANTS
    TypeOK
    AnswersMeanWhatTheySay
    
    EffectsAreRecorded
    RecordsMatchAnswers
    SuccessOnRecordIsReal
PROPERTIES
    RequestsAnswered
CHECK_DEADLOCK FALSE
