------------------------------ MODULE MCHamok ------------------------------
(* The instances of Hamok that TLC checks.                                 *)
EXTENDS Hamok

ThreePeers == {1, 2, 3}
EmptyLogs == [p \in Peers |-> NewLog]

\* A log whose entries are committed
Log(first, next) ==
    [firstIndex |-> first, nextIndex |-> next, commitIndex |-> next - 1,
     entries |-> [i \in first .. next - 1 |-> 0]]

Grid(grid, l) ==
    [grid |-> grid, leader |-> l, logs |-> EmptyLogs, joiners |-> {}, leavers |-> {},
     closers |-> {}, retries |-> 1, pauses |-> 0, owners |-> {}, storages |-> 0, lossy |-> FALSE,
     maxTerm |-> 2, maxIndex |-> 0, expires |-> FALSE]

\* Two peers that find each other, and one leaves or closes;
Pair == [Grid({}, Nil) EXCEPT !.joiners = {1, 2}, !.leavers = {1}, !.closers = {2}, !.pauses = 1]
\* the same over a network that loses messages;
LossyPair == [Pair EXCEPT !.pauses = 0, !.lossy = TRUE]
\* a third that joins two;
Joiner == [Grid({1, 2}, 1) EXCEPT !.joiners = {3}]
\* the same without elections, when the two have dropped the first entries of their logs,
\* and the leader writes, commits and drops others;
JoinsLog == [Joiner EXCEPT !.maxTerm = 1, !.maxIndex = 7, !.expires = TRUE,
                           !.logs = [EmptyLogs EXCEPT ![1] = Log(3, 6), ![2] = Log(3, 6)]]
\* two such that lead in turn;
Writers == [JoinsLog EXCEPT !.joiners = {}, !.maxTerm = 2, !.pauses = 1]
\* three that leave and close;
Leavers == [Grid({1, 2, 3}, 1) EXCEPT !.leavers = {1, 2, 3}, !.closers = {1}]
\* three, and a timer that fires without need;
Trio == [Grid({1, 2, 3}, 1) EXCEPT !.pauses = 1]
\* one with storages.
Owner == [Grid({}, Nil) EXCEPT !.owners = {1}, !.storages = 3, !.closers = {1}]
AllSettings == {Pair, LossyPair, Joiner, JoinsLog, Writers, Leavers, Trio, Owner}

\* A third that joins two which have two entries left.
JoinsShortLog ==
    {[JoinsLog EXCEPT !.logs = [EmptyLogs EXCEPT ![1] = Log(3, 5), ![2] = Log(3, 5)]]}
=============================================================================
