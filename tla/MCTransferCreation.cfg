SPECIFICATION FairSpec
CONSTANTS
    form = form
    page = page
    anna = anna
    share = share
    Tabs = {form, page}
    User <- Anna
    Purpose <- Purposes
    NoShare = NoShare
    Choices <- Entries
    ApiKeys = {9}
    NoKey = NoKey
    Requests = {r1, r2}
    Nothing = Nothing
    MaxSubmissions = 2
    MaxCrashes = 1
    MaxPolls = 2
CHECK_DEADLOCK FALSE
INVARIANTS
    TypeOK
    PaidOnce
    AnswersFit
    LosersSeeWinners
    ShownIsTrue
    QuoteIsFair
PROPERTIES
    OutcomeGetsShown
    ImplementsSharePayment
