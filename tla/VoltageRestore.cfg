SPECIFICATION Spec
INVARIANT DefaultRestored
