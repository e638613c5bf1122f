SPECIFICATION FairSpec
CONSTANTS
    account_external_ref = account_external_ref
    customer_name = customer_name
    h1 = h1
    h2 = h2
    Sessions = {s1, s2}
    Types = {account_external_ref, customer_name}
    Reals = {v1, v2}
    Hexes = {h1, h2}
    MAX_COLLISION_RETRIES = 2
    CaseFiles <- MCCaseFiles
INVARIANTS TypeOK AnswersResolve OneTokenPerEntity
PROPERTIES CallsEnd ReviewsAgree
