\* Expressions, and searches of a small tree alone and disturbed.
CONSTANT Jobs <- All
SPECIFICATION Spec
INVARIANTS ParseIsReference EvalIsReference WalkTruth DeleteTruth AllOrNothing
