-------------------------------- MODULE MCMeet --------------------------------
(* Two meets with one platform and two, run as two days or alone.          *)
EXTENDS Meet

CONSTANTS m1, m2, p1, p2

MCMeetOrder == <<m1, m2>>
MCPlatformCount == [m \in {m1, m2} |-> IF m = m1 THEN 1 ELSE 2]
MCPasswordOf == [m \in {m1, m2} |-> IF m = m1 THEN p1 ELSE p2]

Of(m, n) == [meet |-> m, number |-> n]

\* One day of m1 with its platform linked; two days with a password each, the first
\* without a meet, the second with a platform of its own and one of another meet.
MCSavedForms ==
  {[numDays |-> 1, numPlatforms |-> 1, perDay |-> FALSE, password |-> NoPassword,
    days |-> <<[meet |-> m1, password |-> p1, ids |-> <<Of(m1, 1)>>]>>],
   [numDays |-> 2, numPlatforms |-> 2, perDay |-> TRUE, password |-> p2,
    days |-> <<[meet |-> NoMeet, password |-> p1, ids |-> <<NoId, NoId>>],
               [meet |-> m2, password |-> p2, ids |-> <<Of(m2, 1), Of(m1, 1)>>]>>]}
===============================================================================
