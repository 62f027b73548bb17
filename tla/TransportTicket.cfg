SPECIFICATION FairSpec
CONSTANTS
    write = write
    read = read
    poll = poll
    Calls <- Polls
    Commands <- PollOnly
    Mutating <- None
    Deadlined <- None
    Decoded <- None
    Replies <- MCReplies
    MaxRetries = 2
    Limited = FALSE
    Burst = 1
    TicketLogin = TRUE
INVARIANTS
    BadCredentialsExitTwo
CHECK_DEADLOCK FALSE
