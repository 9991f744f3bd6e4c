SPECIFICATION FairSpec
CONSTANT MaxConns <- MCMaxConns
INVARIANTS EndpointConsistent NoUnexpectedEvent
PROPERTIES StopCompletes HandshakeEnds Reconnects
