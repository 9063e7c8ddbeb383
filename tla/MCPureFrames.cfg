SPECIFICATION PureSpec
CHECK_DEADLOCK FALSE
INVARIANT FramesNegotiated
