------------------------ MODULE MCSubagentScheduler ------------------------
(* Instances of SubagentScheduler for TLC: the delegation trees, and the    *)
(* outside events of each run (the bound on what the user, the models and   *)
(* the operating system do).  Every run starts with a message to Main.      *)
EXTENDS SubagentScheduler

CONSTANTS Main, A, B, C

\* Main delegates to A, A to B
Chain == [c \in {A, B} |-> IF c = A THEN Main ELSE A]
\* Main delegates to A, A to B and C
Fan == [c \in {A, B, C} |-> IF c = A THEN Main ELSE A]
\* Main delegates to A, A to B, B to C: the three layers the code allows
Deep == [c \in {A, B, C} |-> CASE c = A -> Main [] c = B -> A [] c = C -> B]

Message == {<<"invoke", Main>>}
Alone == {Message}

\* both subagents ask a question, A runs out of steps, the user stops A
Questions == Message \cup
    {<<"interrupt", A>>, <<"interrupt", B>>, <<"recursion", A>>, <<"stop", A>>}

\* the user talks to A and stops it, B's model call fails once, the process
\* dies and starts again
Stops == Message \cup
    {<<"invoke", A>>, <<"stop", A>>, <<"transient", B>>, <<"restart", Main>>}

Chains == {Questions, Stops}

\* one of two children is stopped, the other fails and is retried
Reports == {Message \cup {<<"stop", B>>, <<"error", C>>, <<"retry", C>>}}

\* the user stops one subagent
StopA == {Message \cup {<<"stop", A>>}}
StopB == {Message \cup {<<"stop", B>>}}

\* A's model call fails once and is retried, then A asks a question
RetriedQuestion == {Message \cup {<<"transient", A>>, <<"interrupt", A>>}}

\* A asks a question while its child works, and the user stops A
StoppedQuestion == {Message \cup {<<"interrupt", A>>, <<"stop", A>>}}
=============================================================================
