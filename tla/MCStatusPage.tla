---------------------------- MODULE MCStatusPage ----------------------------
(* Model-checking instances of PageCharts: two endpoints, three files. *)
EXTENDS PageCharts

Say(a, b) == <<a, b>>

\* One endpoint changes twice, the other appears late and stays as it is, and
\* the overall status is another one after each file.
ThreeFiles == {<< Say("healthy", "absent"), Say("down", "degraded"), Say("healthy", "degraded") >>}
LateMessage == {<<2, 2>>}

\* A forced timestamp, then one round after the other; and a second round
\* that ends after the third, its second checker after the first of both.
Rounds == {<< <<1, 1>>, <<3, 2>>, <<4, 5>> >>,
           << <<1, 1>>, <<5, 3>>, <<4, 2>> >>}

\* No change at all, and a long pause before the third file.
Quiet     == {<< Say("healthy", "healthy"), Say("healthy", "healthy"), Say("healthy", "healthy") >>}
LongPause == {<< <<1, 1>>, <<2, 2>>, <<13, 13>> >>}
Short     == {1}
Long      == {2}
=============================================================================
