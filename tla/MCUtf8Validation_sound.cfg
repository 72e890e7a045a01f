SPECIFICATION Spec
INVARIANT Utf8Sound
