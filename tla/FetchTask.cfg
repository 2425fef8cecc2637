\* A server that keeps to the protocol, and one that may do anything.
SPECIFICATION FairSpec
CONSTANTS
    DefaultSleep = 10
    WaitFor = 204
    WaitForState = "Unknown"
    RetryAfters <- SomeRetryAfters
    InitialJobs <- Early
    Servers <- AnyServer
INVARIANTS NeverPollsEarly AnswersWhenSettled
PROPERTIES ImplementsContract SettledIsAnswered
