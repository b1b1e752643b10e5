------------------------------ MODULE MCConsole ------------------------------
EXTENDS Console

\* Lines that fit, one as long as tmp, and one that is longer.
SomeLines == {[cmd |-> CliNext, len |-> 1], [cmd |-> Retarget, len |-> 1],
              [cmd |-> CliPrev, len |-> LINE], [cmd |-> CliPrev, len |-> 1],
              [cmd |-> 5, len |-> LINE + 1]}

\* What no later step and no property depends on is left out: what a line was once
\* none of its characters is left, and the history of a command that is over.
Left(l) == \/ at > 0 /\ l = Len(typed)
           \/ \E i \in 1..Len(uart_rx_queue) : uart_rx_queue[i][1] = l
           \/ \E i \in 0..n - 1 : tmp[i][1] = l
LineLeft(l) == IF Left(l) THEN typed[l] ELSE typed[l].len < LINE
Over(t) == Idle(t) /\ (t = Cli => ~told)
Relevant ==
    <<recorded, blank, current, target, shown, pc, id, si, plays, sure, told, short,
      [t \in Tasks |-> IF Over(t) THEN <<>> ELSE <<cmd[t], alone[t], from[t]>>],
      [l \in 1..Len(typed) |-> LineLeft(l)],
      at, uart_rx_queue, tmp, n, ran, hurt>>
=============================================================================
