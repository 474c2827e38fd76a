---- MODULE MC_Inheritance ----
EXTENDS Inheritance
CONSTANTS p1, p2, p3, v1, v2, draft, r1, r2, none, nolink, untouched
\* No links; a line p1 -> p2 -> p3; a project with two parents.
Starts == {{}, {<<p1, p2, TRUE, v1>>, <<p2, p3, TRUE, draft>>},
           {<<p1, p2, TRUE, draft>>, <<p1, p3, FALSE, v1>>}}
====
