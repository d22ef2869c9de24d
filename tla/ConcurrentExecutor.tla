------------------------- MODULE ConcurrentExecutor -------------------------
(***************************************************************************)
(* ConcurrentExecutor (src/common/ConcurrentExecutor.ts): tasks wait in a  *)
(* queue, and at most maxConcurrencyLevel of them run at a time.           *)
(***************************************************************************)
EXTENDS Integers, Sequences

NewExecutor(maxConcurrencyLevel) ==
    [tasks |-> <<>>, running |-> {}, semaphore |-> maxConcurrencyLevel,
     maxConcurrencyLevel |-> maxConcurrencyLevel]

\* Mutant: a task starts whatever is running.
_runAlways(x) ==
    IF x.tasks = <<>> THEN x
    ELSE [x EXCEPT !.tasks = Tail(@), !.running = @ \cup {Head(x.tasks)}]

\* _run: the first task starts if there is room.
_run(x) ==
    IF x.tasks = <<>> \/ x.semaphore = 0 THEN x
    ELSE [x EXCEPT !.tasks = Tail(@), !.running = @ \cup {Head(x.tasks)},
                   !.semaphore = @ - 1]

\* Mutant: the latest task is the next.
executeFirst(x, task) == _run([x EXCEPT !.tasks = <<task>> \o @])

\* A task is added.
execute(x, task) == _run([x EXCEPT !.tasks = Append(@, task)])

\* Mutant: room for a task, but none starts.
Release(x, task) == [x EXCEPT !.running = @ \ {task}, !.semaphore = @ + 1]

\* A task is done, or has failed.
postProcess(x, task) ==
    LET semaphore == x.semaphore + 1
    IN  _run([x EXCEPT !.running = @ \ {task},
                       !.semaphore = IF semaphore > x.maxConcurrencyLevel
                                     THEN x.maxConcurrencyLevel ELSE semaphore])
=============================================================================
