CONSTANT Scripts <- MCScripts
SPECIFICATION Spec
INVARIANTS HalfDuplex Quiescent
PROPERTIES ImplementsChannel TransactionsEnd
