SPECIFICATION Spec
INVARIANT Utf8Complete
INVARIANT Utf8NoForbiddenCharacter
