SPECIFICATION Spec
CONSTANT Urls = {"own", "other"}
INVARIANT DisableCanRestore
CHECK_DEADLOCK FALSE
