SPECIFICATION ItemReviewSpec
CONSTANTS
    Raisable <- MCRaisable
    Skeptics = 2
    ReviewMaxRounds = 2
    Changes <- MCChanges
    Stashes <- MCStashes
    MaxRaised = 2
    MaxReviews = 2
PROPERTIES TheUsersStashStands
CHECK_DEADLOCK FALSE
