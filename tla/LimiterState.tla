---------------------------- MODULE LimiterState ----------------------------
(***************************************************************************)
(* The closure state of one makeLimiter(max)                               *)
(* (packages/contract/src/concurrency.ts) as a value: the number of slots  *)
(* taken and the FIFO queue of waiting calls.  acquire and release are the *)
(* two synchronous functions that change it.                               *)
(***************************************************************************)
EXTENDS Integers, Sequences

DEFAULT_CLAUDE_CODE_MAX_CONCURRENCY == 3

\* A number that may be absent (an option not given, an unset or non-numeric
\* environment variable) is a sequence of at most one integer.
resolveClaudeCodeConcurrency(option, env) ==
    IF option # << >> THEN option[1]
    ELSE IF env # << >> /\ env[1] > 0 THEN env[1]
    ELSE DEFAULT_CLAUDE_CODE_MAX_CONCURRENCY

\* An explicit option is not validated when it is resolved, only here.
ceiling(max) == IF max < 1 THEN 1 ELSE max

noneActive == [active |-> 0, queue |-> << >>]

Admits(l, c) == l.active < c

\* Faulty variants: one slot too many; the newest call waits at the front.
acquireOneMore(l, t, c) ==
    IF l.active <= c THEN [l EXCEPT !.active = @ + 1]
                     ELSE [l EXCEPT !.queue = Append(@, t)]
acquireAtFront(l, t, c) ==
    IF Admits(l, c) THEN [l EXCEPT !.active = @ + 1]
                    ELSE [l EXCEPT !.queue = <<t>> \o @]

acquire(l, t, c) ==
    IF Admits(l, c) THEN [active |-> l.active + 1, queue |-> l.queue]
                    ELSE [active |-> l.active, queue |-> Append(l.queue, t)]

\* The call that a release hands its slot to, if one waits.
Passed(l) == IF l.queue = << >> THEN {} ELSE {Head(l.queue)}

\* Faulty variants: a slot handed over is not counted again; the
\* waiting call stays in the queue.
releaseUncounted(l) ==
    [active |-> l.active - 1,
     queue  |-> IF l.queue = << >> THEN << >> ELSE Tail(l.queue)]
releaseKeepingWaiter(l) ==
    IF l.queue = << >> THEN [l EXCEPT !.active = @ - 1] ELSE l

\* active drops and, within the same turn, the next waiting call takes it.
release(l) ==
    IF l.queue = << >> THEN [active |-> l.active - 1, queue |-> << >>]
                       ELSE [active |-> l.active, queue |-> Tail(l.queue)]
=============================================================================
