--------------------------- MODULE MCSctpStrReset ---------------------------
(* What the users of A and B do in the runs of SctpStrReset. *)
EXTENDS SctpStrReset, TLC

CONSTANTS A, B

FirstNumbers == A :> 10 @@ B :> 20
AllOrSecond == {{}, {1}}

User(resetsA, resetsB, addsA, deny, reqsA, reqsB, msgs) ==
    [resets |-> A :> resetsA @@ B :> resetsB, adds |-> A :> addsA @@ B :> {},
     deny |-> deny, reqs |-> A :> reqsA @@ B :> reqsB, msgs |-> msgs]

Users ==
    { User({"out", "in", "both"}, {}, {"out"}, {B}, 2, 0, 0),   \* resets
      User({"out"}, {}, {"out", "in", "both"}, {B}, 2, 0, 0),   \* additions
      User({"out"}, {"out"}, {"out"}, {}, 1, 1, 2),             \* crossing requests
      User({}, {"in"}, {}, {}, 0, 1, 3),                        \* reset at the peer's wish
      User({"out"}, {}, {}, {}, 2, 0, 4) }                      \* resets between messages
=============================================================================
