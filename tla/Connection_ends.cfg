SPECIFICATION Spec
CONSTANTS
    creator = creator
    second = second
    other = other
    open = open
    first = first
    data = data
    back = back
    reply = reply
    Senders = {creator, second, other}
    Creator = creator
    EndOf <- MC_EndOf
    Script <- MC_Script
    Open = open
    Reply = reply
    Bad = {data}
    Empty = {first, back}
    Kinds = {"peer", "data", "request", "order"}
    Attempts <- MC_Attempts
    MayDie = {"a", "b"}
    Buffer = 2
    NoOne = noOne
    Garbled = garbled
INVARIANTS TypeOK LockKept ExitCause
PROPERTIES NoDangling InOrder NeverHangs
CHECK_DEADLOCK FALSE
