----------------------- MODULE MCConversationRuns -----------------------
(* Model values and constants for checking ConversationRuns. *)
EXTENDS ConversationRuns

CONSTANTS m1, m2, m3, q1, j1

OneMsg    == {m1}
TwoMsgs   == {m1, m2}
ThreeMsgs == {m1, m2, m3}
NoRequest == {}
OneRedo   == {q1}
OneJoin   == {j1}
PairSymmetry == Permutations(TwoMsgs)
MsgSymmetry == Permutations(ThreeMsgs)
AnyWay    == {"plain", "enqueue", "steer"}
=============================================================================
