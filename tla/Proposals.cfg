SPECIFICATION InboxSpec
CONSTANTS
    Asker = "writer"
    Suggested <- SmallItems
    ProposalOf <- SmallProposals
    Ordinal <- SmallOrdinals
    Sort <- SmallSorts
    Needs <- SmallNeeds
    NoItem = "none"
    MaxUndoable = 1
    MaxThings = 5
    MaxAsked = 3
    MaxOutside = 1
    MaxStopped = 1
    MaxInAll = 4
INVARIANT Honest
PROPERTY StartSettles
CHECK_DEADLOCK FALSE
