------------------------------ MODULE LinePipe ------------------------------
(***************************************************************************)
(* A child process that is spoken to in JSON lines: the pipe to its        *)
(* standard input, the pipe from its standard output, and the buffered     *)
(* reader at the caller's end of the latter.  StdioAgentAdapter            *)
(* (transports.py) and SubprocessJsonlModelClient (model_clients.py) drive *)
(* such a process in the same way: check that it lives, write one line,    *)
(* wait with select until the pipe is readable, read one line.             *)
(*                                                                         *)
(* The reader takes all that the pipe holds when it has no line left, and  *)
(* select does not see what the reader already holds.                      *)
(***************************************************************************)
EXTENDS Integers, Sequences

VARIABLES
    proc,     \* "running", "exited" by itself, or "terminated" by the caller
    stdin,    \* the lines written and not yet taken by the process
    pipe,     \* the lines the process wrote and the reader has not fetched
    buffer    \* the lines the reader has fetched and not yet returned

pipeVars == <<proc, stdin, pipe, buffer>>

InitPipe == proc = "running" /\ stdin = <<>> /\ pipe = <<>> /\ buffer = <<>>

Alive == proc = "running"     \* proc.poll() is None

\* select reports the pipe readable: a line has come, or the end of the file.
Readable == pipe # <<>> \/ ~Alive

\* The line readline returns, and NoLine at the end of the file.
Fetched == IF buffer = <<>> THEN pipe ELSE buffer
ReadsEof == Fetched = <<>> /\ ~Alive

\* readline.  The part of the first line it does not return stays in front.
ReadLine(rest) ==
    /\ Readable /\ Fetched # <<>>
    /\ buffer' = rest \o Tail(Fetched)
    /\ pipe' = IF buffer = <<>> THEN <<>> ELSE pipe
    /\ UNCHANGED stdin

WriteLine(line) ==
    /\ stdin' = Append(stdin, line)
    /\ UNCHANGED <<proc, pipe, buffer>>

\* The process takes a line and answers it with another.
Answer(line) ==
    /\ Alive
    /\ stdin # <<>>
    /\ stdin' = Tail(stdin)
    /\ pipe' = Append(pipe, line)
    /\ UNCHANGED <<proc, buffer>>

\* The process writes a line nobody asked for.
Babble(line) ==
    /\ Alive
    /\ pipe' = Append(pipe, line)
    /\ UNCHANGED <<proc, stdin, buffer>>

Exit ==
    /\ Alive
    /\ proc' = "exited"
    /\ stdin' = <<>>
    /\ UNCHANGED <<pipe, buffer>>

\* What terminate leaves of the channel.
Terminated ==
    /\ proc' = "terminated"
    /\ stdin' = <<>>
    /\ UNCHANGED <<pipe, buffer>>

============================================================================
