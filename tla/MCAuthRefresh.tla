---------------------------- MODULE MCAuthRefresh ----------------------------
EXTENDS AuthRefresh

CONSTANTS h1, h2

\* One handler: requests are served one after another, as in the unit test.
MCOneHandler == {h1}

\* Two handlers serving requests of the same client concurrently.
MCTwoHandlers == {h1, h2}

=============================================================================
