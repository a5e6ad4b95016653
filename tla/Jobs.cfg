SPECIFICATION Spec
CONSTANT Jobs <- MCJobs
INVARIANT ComputeUndisturbed
INVARIANT OutputsRight
PROPERTY Terminates
