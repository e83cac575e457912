SPECIFICATION Spec
CONSTANTS
    Chats = {chat1, chat2}
    Streams = {}
    Embedders = {}
    Threshold = 3
INVARIANT OneProbeAtATime
