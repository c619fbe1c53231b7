SPECIFICATION Spec
CONSTANT Services = {"booking", "flight"}
INVARIANT SafeToRerun
