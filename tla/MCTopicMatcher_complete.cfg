SPECIFICATION Spec
INVARIANT MatchComplete
