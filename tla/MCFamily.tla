------------------------------ MODULE MCFamily ------------------------------
EXTENDS Family

Paths == {1, 2, 3, 4, 8}
Single(width, bound) == [binary |-> FALSE, width |-> width, upsets |-> bound]
Binary(width, bound) == [binary |-> TRUE, width |-> width, upsets |-> bound]
AllFaults == {"crash", "call", "throttle", "unanswered", "unconfirmed", "exhausted",
              "slow", "loss", "stop", "hold", "cleanup"}
Settings == {Single(8, 0), Single(4, 1), Binary(2, 1)}
=============================================================================
