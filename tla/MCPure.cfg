SPECIFICATION PureSpec
CHECK_DEADLOCK FALSE
INVARIANTS ValuesExact ConfigSound MessagesExact
