SPECIFICATION FailoverSpec
CONSTANTS
    chat = chat  agent = agent
    Run = {chat, agent}
    Chat = chat
    Listed = 3
    Unusable = {2}
    Keys = 2
    Messages <- MCMessages
    MaxRetries = 2
    Soon = 1
    MaxGarbled = 1
    MaxStalls = 1
    MaxWaits = 1
    MaxLapses = 1

    
PROPERTIES
    LadderEnds
CHECK_DEADLOCK FALSE
