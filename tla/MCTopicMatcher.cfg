SPECIFICATION Spec
INVARIANT MatchSound
