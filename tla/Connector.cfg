SPECIFICATION FairSpec
CONSTANTS
    a = a
    b = b
    c = c
    x = x
    h1 = h1
    h2 = h2
    None = None
    Prompts = {a, b, c}
    Chats = {x}
    ChatOf <- MCChatOf
    Confirms = {c}
    Async = {a, b}
    NumQ <- MCNumQ
    Typed <- MCTyped
    LookupFails <- MCLookupFails
    Handlers = {h1}
    DoubleTaps = FALSE
INVARIANTS
    
    FreeChatIsServed
PROPERTIES
    OnePromptPerChat
    ImplementsLifecycle
    EventuallyClaimed
CHECK_DEADLOCK FALSE
