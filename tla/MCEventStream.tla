---------------------------- MODULE MCEventStream ----------------------------
EXTENDS EventStream

CONSTANTS p1, p2

MCOnePublisher  == {p1}
MCTwoPublishers == {p1, p2}
=============================================================================
