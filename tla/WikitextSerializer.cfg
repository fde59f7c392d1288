CONSTANT Requests <- MCRequests
SPECIFICATION Spec
INVARIANTS ReadsBack SourceKept
PROPERTY Ends
