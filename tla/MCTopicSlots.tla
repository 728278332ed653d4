------------------------------ MODULE MCTopicSlots ------------------------------
(* A small instance of TopicSlots for TLC.                                  *)
EXTENDS TopicSlots, TLC

SomeMessages == 1..3

Remark(s, i, c) == [status |-> s, importance |-> i, confidence |-> c]

\* A topic that is certain, a weak one that is new or repeated, one given up.
SomeRemarks ==
  {Remark("none", 80, "high"), Remark("none", 0, "low"), Remark("resolved", 50, "low")}

\* Nothing in the module orders the topics.
AnyTopics == Permutations(Topics)
=============================================================================
