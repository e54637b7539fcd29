----------------------------- MODULE MCRouteWalk -----------------------------
\* Instances of RouteWalk for TLC.
EXTENDS RouteWalk

\* The addresses of one and two digits out of 1, 2 and 5 (the smallest, an
\* inner and the largest pipe), those of three and four digits out of 1 and 5,
\* and the master.
MCNodes == { a \in TreeAddress :
               \A k \in 0..3 : k < DigitCount(a)
                    => Digit(a, k) \in (IF DigitCount(a) > 2 THEN {1, 5} ELSE {1, 2, 5}) }
=============================================================================
