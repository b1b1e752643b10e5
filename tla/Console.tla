------------------------------- MODULE Console -------------------------------
(***************************************************************************)
(* The console: what is typed goes through the queue of the UART's         *)
(* interrupt routine (el_uart.c) into the line of uartInterfaceTask        *)
(* (user_main.c), which runs a line as a command (checkCommand in          *)
(* interface.c).  While the command runs nobody empties the queue.  The    *)
(* commands are those of Stations, and run together with the web server's. *)
(*                                                                         *)
(* Data.  A character is the number of its line and its place in it; place *)
(* 0 is the end of the line.                                               *)
(*                                                                         *)
(* ran and hurt are history: how often the command of a line was run; the  *)
(* lines a character of which was dropped, or that came after one that has *)
(* lost its end.                                                           *)
(***************************************************************************)
EXTENDS Stations, Sequences

CONSTANTS QUEUE,   \* UART_RX_QUEUE_SIZE (32)
          LINE,    \* size of tmp (64)
          Lines,   \* what can be typed: records of a command and a length
          TYPED    \* bound: lines

ASSUME ConsoleAssumption ==
    /\ QUEUE \in Nat \ {0} /\ LINE \in Nat \ {0} /\ TYPED \in Nat
    /\ \A l \in Lines : l.cmd \in Commands /\ l.len \in Nat \ {0}

VARIABLES typed,      \* the lines that were begun
          at,         \* the place that is typed next, or 0
          uart_rx_queue,
          tmp, n,     \* of uartInterfaceTask: the line, t
          ran, hurt   \* history

keyboard == <<typed, at>>
console  == <<keyboard, uart_rx_queue, tmp, n, ran, hurt>>
vars     == <<svars, console>>

Blank == [i \in 0..LINE - 1 |-> <<0, 0>>]

Init == /\ SInit
        /\ typed = <<>> /\ at = 0 /\ uart_rx_queue = <<>>
        /\ tmp = Blank /\ n = 0
        /\ ran = [l \in 1..TYPED |-> 0] /\ hurt = {}

-----------------------------------------------------------------------------
\* Somebody begins to type a line.
BeginLine == /\ at = 0 /\ Len(typed) < TYPED
             /\ \E l \in Lines : typed' = Append(typed, l)
             /\ at' = 1
             /\ UNCHANGED <<svars, uart_rx_queue, tmp, n, ran, hurt>>

\* uart_isr: a character has come, and is dropped when the queue is full.
uart_isr ==
    LET l    == Len(typed)
        end  == at > typed[l].len
        char == <<l, IF end THEN 0 ELSE at>>
    IN  /\ at > 0
        /\ at' = IF end THEN 0 ELSE at + 1
        /\ \/ /\ Len(uart_rx_queue) < QUEUE
              /\ uart_rx_queue' = Append(uart_rx_queue, char)
              /\ UNCHANGED hurt
           \/ /\ Len(uart_rx_queue) = QUEUE
              /\ hurt' = hurt \cup {l} \cup (IF end THEN {l + 1} ELSE {})
              /\ UNCHANGED uart_rx_queue
        /\ UNCHANGED <<svars, typed, tmp, n, ran>>

\* Where the next character goes: at the end of the line it begins again.
NextPlace == (n + 1) % LINE

\* A character of the line.
uart_getchar ==
    /\ Idle(Cli) /\ uart_rx_queue # <<>> /\ Head(uart_rx_queue)[2] # 0
    /\ tmp' = [tmp EXCEPT ![n] = Head(uart_rx_queue)]
    /\ n' = NextPlace
    /\ uart_rx_queue' = Tail(uart_rx_queue)
    /\ UNCHANGED <<svars, keyboard, ran, hurt>>

\* The line is all of line l.
Whole(l) == n = typed[l].len /\ \A i \in 0..n - 1 : tmp[i] = <<l, i + 1>>

\* Mutant: the next line is put after this one.
PlaceKept == n
PlaceReset == 0

\* The end of the line: it is run as a command.  What is left of a line may be
\* no command, or another.
checkCommand ==
    /\ Idle(Cli) /\ uart_rx_queue # <<>> /\ Head(uart_rx_queue)[2] = 0
    /\ \/ \E l \in 1..Len(typed) : /\ Whole(l)
                                   /\ Begin(Cli, typed[l].cmd)
                                   /\ ran' = [ran EXCEPT ![l] = @ + 1]
       \/ /\ n > 0 /\ ~\E l \in 1..Len(typed) : Whole(l)
          /\ \E i \in 0..n - 1 : tmp[i] # <<0, 0>> /\ Begin(Cli, typed[tmp[i][1]].cmd)
          /\ UNCHANGED ran
       \/ /\ ~\E l \in 1..Len(typed) : Whole(l)
          /\ UNCHANGED <<pc, cmd, id, si, recorded, blank, current, target, shown, hist, ran>>
    /\ tmp' = Blank /\ n' = PlaceReset
    /\ uart_rx_queue' = Tail(uart_rx_queue)
    /\ UNCHANGED <<plays, keyboard, hurt>>

Next == \/ BeginLine \/ uart_isr \/ uart_getchar \/ checkCommand
        \/ \E t \in Web : WebPlay(t) /\ UNCHANGED console
        \/ \E t \in Tasks : StationStep(t) /\ UNCHANGED console

Spec == Init /\ [][Next]_vars

-----------------------------------------------------------------------------
(* Properties *)

Chars == (1..TYPED) \X Nat

TypeOK ==
    /\ StationsTypeOK
    /\ typed \in Seq(Lines) /\ Len(typed) <= TYPED
    /\ at = 0 \/ (typed # <<>> /\ at \in 1..typed[Len(typed)].len + 1)
    /\ uart_rx_queue \in Seq(Chars) /\ Len(uart_rx_queue) <= QUEUE
    /\ tmp \in [0..LINE - 1 -> Chars \cup {<<0, 0>>}] /\ n \in 0..LINE - 1
    /\ ran \in [1..TYPED -> Nat] /\ hurt \subseteq 1..TYPED + 1

\* A line that is typed to its end, that fits, and of which nothing was dropped, is
\* run, or will be when its end is read from the queue; and no line is run twice.
LinesAreRun ==
    \A l \in 1..Len(typed) :
        /\ ran[l] <= 1
        /\ (l < Len(typed) \/ at = 0) /\ l \notin hurt /\ typed[l].len < LINE =>
             ran[l] = 1 \/ \E i \in 1..Len(uart_rx_queue) : uart_rx_queue[i] = <<l, 0>>
=============================================================================
