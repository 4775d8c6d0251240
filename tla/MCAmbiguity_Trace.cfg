SPECIFICATION Spec
CONSTANT
    Programs <- Ambiguous
INVARIANT RejectedLeavesNoTrace
