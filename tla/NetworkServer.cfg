\* Two connections and two requests; somebody presents cards.
SPECIFICATION CardSpec
CONSTANTS
  MaxConns = 2
  Req = {1, 2}
  Kind <- MCKind
  Long = {1}
  Backlog = 1
  MaxCards = 2
  Blank = {2}
  MaxRestarts = 1
  NoConn = NoConn
INVARIANTS TypeOK AnswersOnlyToAsker OneAccepted ServesForever
PROPERTIES AnsweredBeforeNext BacklogServed
CHECK_DEADLOCK FALSE
