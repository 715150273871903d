------------------------------- MODULE MCApp -------------------------------
EXTENDS App
CONSTANTS a, u, v

By(ingress, up) == [ingress |-> ingress, up |-> up, opt |-> 1]
Conf(x, w) == [bots |-> (a :> x), watch |-> w]

Polled == Conf(By("poll", u), FALSE)
Away == Conf(By("poll", v), FALSE)
Hook == Conf(By("hook", u), TRUE)
Served == Conf(By("served", u), FALSE)
Gone == Conf(Absent, TRUE)
MCFiles == {Polled, Away, Hook, Served, Gone}

MCBudgets ==
    [first : {Polled}, edits : {{f} : f \in {Hook, Gone, Bad}}, moves : {{}}, stop : {TRUE}]
    \cup [first : {Polled}, edits : {{}}, moves : {{"logOut"}}, stop : {TRUE}]
    \cup [first : {Polled}, edits : {{Away}}, moves : {{"logOut"}}, stop : {FALSE}]
    \cup [first : {Served}, edits : {{Away}}, moves : {{"close"}}, stop : {FALSE}]
    \cup [first : {Polled}, edits : {{Gone, Polled}}, moves : {{}}, stop : {FALSE}]
    \cup [first : {Hook}, edits : {{}}, moves : {{"close"}}, stop : {FALSE}]
    \cup [first : {Hook}, edits : {{Away}}, moves : {{}}, stop : {TRUE}]

\* The file is edited while the process starts, and a move is asked for.
EarlyMove == [first : {Hook}, edits : {{Away}}, moves : {{"logOut"}}, stop : {FALSE}]
=============================================================================
