----------------------------- MODULE LineReader -----------------------------
(***************************************************************************)
(* Running a tool and reading what it prints                               *)
(* (src/src/utils/cmd_line_utils.cpp): run_cmd_read_lines calls back for   *)
(* every line, run_cmd shows the output on the screen.  The caller's       *)
(* thread reads the tool's output while another one reads its errors; both *)
(* pipes hold little, and the tool waits when one of them is full.  A read *)
(* returns whatever part of the text is there.                             *)
(*                                                                         *)
(* The text of a stream is a sequence of characters: newlines, and others. *)
(***************************************************************************)
EXTENDS Naturals, Sequences, SequencesExt

CONSTANTS
    Tools,      \* what a tool may print: sequences of <<stream, character>>
    Char,       \* the characters of these
    NewLines,   \* the characters that end a line
    PipeSize,   \* what a pipe holds
    ReadSize,   \* read_buf_size
    Prompt,     \* "> "
    NoThread

Stream == {"out", "err"}
Calls  == {"run_cmd_read_lines", "run_cmd"}

ASSUME ReaderAssumption ==
    /\ Tools \subseteq Seq(Stream \X Char)
    /\ PipeSize \in Nat \ {0} /\ ReadSize \in Nat \ {0}
    /\ NoThread \notin Stream
    \* On the screen a prompt can be told from the text.
    /\ Prompt \notin Char \cup NewLines

VARIABLES
    call,      \* the function that was called
    tool,      \* history: all the tool prints
    todo,      \* what it has yet to print
    exited,    \* whether it has ended
    pipe,      \* stream -> characters written and not read
    caller,    \* where the call is
    pc,        \* stream -> where the thread that reads it is
    str,       \* stream -> the part of buf that is left
    line_buf,  \* stream -> the start of a line whose end has not been read
    got_newline,
    lock,      \* the thread in the callback (callback_lock) or printing (print_lock)
    heard,     \* <<stream, line>> of each callback that has returned
    screen     \* <<stream, character>> on the screen

toolVars == <<tool, todo, exited>>
vars == <<call, toolVars, pipe, caller, pc, str, line_buf, got_newline, lock, heard, screen>>

Init ==
    /\ call \in Calls
    /\ tool \in Tools
    /\ todo = tool
    /\ exited = FALSE
    /\ pipe = [s \in Stream |-> <<>>]
    /\ caller = "start"
    /\ pc = [s \in Stream |-> "none"]
    /\ str = [s \in Stream |-> <<>>]
    /\ line_buf = [s \in Stream |-> <<>>]
    /\ got_newline = [s \in Stream |-> TRUE]
    /\ lock = NoThread
    /\ heard = <<>>
    /\ screen = <<>>

-----------------------------------------------------------------------------
(* The tool *)

ToolPrints ==
    /\ caller = "running"
    /\ todo # <<>>
    /\ LET s == Head(todo)[1] IN
         /\ Len(pipe[s]) < PipeSize
         /\ pipe' = [pipe EXCEPT ![s] = Append(@, Head(todo)[2])]
    /\ todo' = Tail(todo)
    /\ UNCHANGED <<call, tool, exited, caller, pc, str, line_buf, got_newline, lock, heard, screen>>

ToolExits ==
    /\ caller = "running"
    /\ todo = <<>>
    /\ ~exited
    /\ exited' = TRUE
    /\ UNCHANGED <<call, tool, todo, pipe, caller, pc, str, line_buf, got_newline, lock, heard, screen>>

-----------------------------------------------------------------------------
(* The calling thread *)

\* reproc_start, and the two readers; when it fails, -1 is returned.
Start ==
    /\ caller = "start"
    /\ \/ /\ caller' = "running"
          /\ pc' = [s \in Stream |-> "read"]
       \/ /\ caller' = "failed"
          /\ UNCHANGED pc
    /\ UNCHANGED <<call, toolVars, pipe, str, line_buf, got_newline, lock, heard, screen>>

\* error_thread.join, reproc_wait.
Return ==
    /\ caller = "running"
    /\ \A s \in Stream : pc[s] = "done"
    /\ exited
    /\ caller' = "returned"
    /\ UNCHANGED <<call, toolVars, pipe, pc, str, line_buf, got_newline, lock, heard, screen>>

-----------------------------------------------------------------------------
(* A reader *)

FirstN(seq, n) == SubSeq(seq, 1, n)
Drop(seq, n)   == SubSeq(seq, n + 1, Len(seq))

\* The position of the first newline, or that of the end.
LineEnd(seq) ==
    CHOOSE n \in 1 .. Len(seq) + 1 :
        /\ n <= Len(seq) => seq[n] \in NewLines
        /\ \A k \in 1 .. n - 1 : seq[k] \notin NewLines

\* What follows the newlines seq starts with.
SkipNewLines(seq) ==
    LET n == CHOOSE n \in 0 .. Len(seq) : /\ \A k \in 1 .. n : seq[k] \in NewLines
                                          /\ n < Len(seq) => seq[n + 1] \notin NewLines
    IN Drop(seq, n)

ReaderStep(s) ==
    /\ caller = "running"
    /\ UNCHANGED <<call, toolVars, caller>>

\* Mutant: the errors are read when all of the output has been.
ErrorsLastMutant(s) ==
    /\ ReaderStep(s)
    /\ pc[s] = "read"
    /\ s = "err" => pc["out"] = "done"
    /\ pipe[s] # <<>>
    /\ \E n \in 1 .. Len(pipe[s]) :
         /\ n <= ReadSize
         /\ str' = [str EXCEPT ![s] = FirstN(pipe[s], n)]
         /\ pipe' = [pipe EXCEPT ![s] = Drop(@, n)]
    /\ pc' = [pc EXCEPT ![s] = IF call = "run_cmd" THEN "print" ELSE "split"]
    /\ UNCHANGED <<line_buf, got_newline, lock, heard, screen>>

\* reproc_read returns some of what is in the pipe.
Read(s) ==
    /\ ReaderStep(s)
    /\ pc[s] = "read"
    /\ pipe[s] # <<>>
    /\ \E n \in 1 .. Len(pipe[s]) :
         /\ n <= ReadSize
         /\ str' = [str EXCEPT ![s] = FirstN(pipe[s], n)]
         /\ pipe' = [pipe EXCEPT ![s] = Drop(@, n)]
    /\ pc' = [pc EXCEPT ![s] = IF call = "run_cmd" THEN "print" ELSE "split"]
    /\ UNCHANGED <<line_buf, got_newline, lock, heard, screen>>

\* ... or an error, which ends the loop: a last line without newline is called back
\* too.  Of these only the end of the stream, once the tool has ended, is modelled.
EndOfStream(s) ==
    /\ ReaderStep(s)
    /\ pc[s] = "read"
    /\ pipe[s] = <<>> /\ exited
    /\ pc' = [pc EXCEPT ![s] = IF line_buf[s] = <<>> THEN "done" ELSE "leftover"]
    /\ UNCHANGED <<pipe, str, line_buf, got_newline, lock, heard, screen>>

\* Mutant: the start of the line replaces what was kept of it before.
ReplacedMutant(s) ==
    /\ ReaderStep(s)
    /\ pc[s] = "split"
    /\ LineEnd(str[s]) > Len(str[s])
    /\ line_buf' = [line_buf EXCEPT ![s] = IF str[s] = <<>> THEN @ ELSE str[s]]
    /\ str' = [str EXCEPT ![s] = <<>>]
    /\ pc' = [pc EXCEPT ![s] = "read"]
    /\ UNCHANGED <<pipe, got_newline, lock, heard, screen>>

\* Mutant: it is not looked for a newline.
WholeChunkMutant(s) ==
    /\ ReaderStep(s)
    /\ pc[s] = "split"
    /\ line_buf' = [line_buf EXCEPT ![s] = @ \o str[s]]
    /\ str' = [str EXCEPT ![s] = <<>>]
    /\ pc' = [pc EXCEPT ![s] = "read"]
    /\ UNCHANGED <<pipe, got_newline, lock, heard, screen>>

\* What is left of the chunk has no newline.
NoNewLine(s) ==
    /\ ReaderStep(s)
    /\ pc[s] = "split"
    /\ LineEnd(str[s]) > Len(str[s])
    /\ line_buf' = [line_buf EXCEPT ![s] = @ \o str[s]]
    /\ str' = [str EXCEPT ![s] = <<>>]
    /\ pc' = [pc EXCEPT ![s] = "read"]
    /\ UNCHANGED <<pipe, got_newline, lock, heard, screen>>

\* full_line.
FullLine(s) ==
    line_buf[s] \o (IF pc[s] = "leftover" THEN <<>> ELSE FirstN(str[s], LineEnd(str[s]) - 1))

\* The callback for a full line, or for the last one, begins ...
CallBack(s) ==
    /\ ReaderStep(s)
    /\ \/ pc[s] = "split" /\ LineEnd(str[s]) <= Len(str[s])
       \/ pc[s] = "leftover"
    /\ lock = NoThread
    /\ lock' = s
    /\ UNCHANGED <<pipe, pc, str, line_buf, got_newline, heard, screen>>

\* ... and ends; it never returns false.  The newlines that follow are skipped
\* as far as they have been read.
CallbackReturns(s) ==
    /\ ReaderStep(s)
    /\ lock = s
    /\ lock' = NoThread
    /\ heard' = Append(heard, <<s, FullLine(s)>>)
    /\ line_buf' = [line_buf EXCEPT ![s] = <<>>]
    /\ IF pc[s] = "leftover"
       THEN pc' = [pc EXCEPT ![s] = "done"] /\ str' = str
       ELSE /\ str' = [str EXCEPT ![s] = SkipNewLines(Drop(@, LineEnd(@) - 1))]
            /\ pc' = [pc EXCEPT ![s] = IF str'[s] = <<>> THEN "read" ELSE "split"]
    /\ UNCHANGED <<pipe, got_newline, screen>>

\* Mutant: the thread ends, and the call goes on.
SwallowedMutant(s) ==
    /\ ReaderStep(s)
    /\ lock = s
    /\ lock' = NoThread
    /\ pc' = [pc EXCEPT ![s] = "done"]
    /\ UNCHANGED <<pipe, str, line_buf, got_newline, heard, screen>>

\* The callback throws: out of the error thread, or past error_thread while it
\* is joinable, which both end the process (std::terminate).
CallbackThrows(s) ==
    /\ caller = "running"
    /\ lock = s
    /\ caller' = "terminated"
    /\ UNCHANGED <<call, toolVars, pipe, pc, str, line_buf, got_newline, lock, heard, screen>>

\* run_cmd: a chunk as it is shown, with a prompt at the start of each line.
Shown(s) ==
    LET text == str[s]
        starts(k) == IF k = 1 THEN got_newline[s]
                     ELSE text[k - 1] \in NewLines /\ text[k] \notin NewLines
    IN FlattenSeq([k \in 1 .. Len(text) |->
           (IF starts(k) THEN <<<<s, Prompt>>>> ELSE <<>>) \o <<<<s, text[k]>>>>])

\* Mutant: every chunk is taken for the start of a line.
ChunkIsLineMutant(s) ==
    /\ ReaderStep(s)
    /\ pc[s] = "print"
    /\ lock = NoThread
    /\ screen' = screen \o Shown(s)
    /\ str' = [str EXCEPT ![s] = <<>>]
    /\ pc' = [pc EXCEPT ![s] = "read"]
    /\ UNCHANGED <<pipe, line_buf, got_newline, lock, heard>>

\* The chunk is printed under the lock.
PrintChunk(s) ==
    /\ ReaderStep(s)
    /\ pc[s] = "print"
    /\ lock = NoThread
    /\ screen' = screen \o Shown(s)
    /\ got_newline' = [got_newline EXCEPT ![s] = Last(str[s]) \in NewLines]
    /\ str' = [str EXCEPT ![s] = <<>>]
    /\ pc' = [pc EXCEPT ![s] = "read"]
    /\ UNCHANGED <<pipe, line_buf, lock, heard>>

Reader(s) ==
    \/ Read(s) \/ EndOfStream(s) \/ NoNewLine(s)
    \/ CallBack(s) \/ CallbackReturns(s) \/ CallbackThrows(s)
    \/ PrintChunk(s)

Ended == caller \in {"returned", "failed", "terminated"}

Next ==
    \/ ToolPrints \/ ToolExits
    \/ Start \/ Return
    \/ \E s \in Stream : Reader(s)

\* The tool goes on and ends, threads run, and callbacks return or throw.
Fairness ==
    /\ WF_vars(ToolPrints \/ ToolExits)
    /\ WF_vars(Start \/ Return)
    /\ \A s \in Stream : WF_vars(Reader(s))

Spec == Init /\ [][Next]_vars /\ Fairness

-----------------------------------------------------------------------------
(* Properties *)

\* One callback at a time: lock is held by a thread with a line to call back.
TypeOK ==
    /\ call \in Calls
    /\ caller \in {"start", "running", "returned", "failed", "terminated"}
    /\ \A s \in Stream :
         /\ pc[s] \in {"none", "read", "split", "leftover", "print", "done"}
         /\ Len(pipe[s]) <= PipeSize /\ Len(str[s]) <= ReadSize
         /\ \A k \in 1 .. Len(line_buf[s]) : line_buf[s][k] \notin NewLines
    /\ lock \in Stream \cup {NoThread}
    /\ lock # NoThread => pc[lock] \in {"split", "leftover"}

\* The n-th smallest member of a set of positions.
Ranked(set, n) == {k \in set : Cardinality({l \in set : l <= k}) = n}
Nth(set, n)    == CHOOSE k \in Ranked(set, n) : TRUE

\* The text of stream s in a sequence of <<stream, character>>.
TextOf(seq, s) ==
    LET at == {k \in 1 .. Len(seq) : seq[k][1] = s}
    IN [n \in 1 .. Cardinality(at) |-> seq[Nth(at, n)][2]]

\* A sequence without the elements that are x.
Without(seq, x) ==
    LET at == {k \in 1 .. Len(seq) : seq[k] # x}
    IN [n \in 1 .. Cardinality(at) |-> seq[Nth(at, n)]]

\* The lines of a text, by their first and last characters; empty ones are left out.
Firsts(text) == {k \in 1 .. Len(text) : text[k] \notin NewLines /\ (k = 1 \/ text[k - 1] \in NewLines)}
Lasts(text)  == {k \in 1 .. Len(text) : text[k] \notin NewLines /\ (k = Len(text) \/ text[k + 1] \in NewLines)}

LinesOf(text) ==
    [n \in 1 .. Cardinality(Firsts(text)) |->
       SubSeq(text, Nth(Firsts(text), n), Nth(Lasts(text), n))]

LinesHeard(s) == Without(TextOf(heard, s), <<>>)

\* However the text is cut into chunks and the threads take turns, each line of
\* a stream is called back once and whole, in its order; and when the call
\* returns, all of them have been: an error in a callback is not passed over.
\* (Empty lines may or may not be called back; the callbacks ignore them.)
LinesAreHeard ==
    call = "run_cmd_read_lines" => \A s \in Stream :
        /\ IsPrefix(LinesHeard(s), LinesOf(TextOf(tool, s)))
        /\ caller = "returned" => LinesHeard(s) = LinesOf(TextOf(tool, s))

\* What the screen shows of a stream is its text, and a prompt before the first
\* character of each line and nowhere within one, however it is cut into chunks.
ScreenShowsText ==
    call = "run_cmd" => \A s \in Stream :
        LET shown   == TextOf(screen, s)
            text    == Without(shown, Prompt)
            prompts == {k \in 1 .. Len(shown) : shown[k] = Prompt}
        IN /\ IsPrefix(text, TextOf(tool, s))
           /\ caller = "returned" => text = TextOf(tool, s)
           /\ \A k \in prompts : k = 1 \/ shown[k - 1] \in NewLines
           /\ \A k \in 1 .. Len(shown) : shown[k] \notin NewLines \cup {Prompt} =>
                k # 1 /\ shown[k - 1] \notin NewLines

\* The call ends: the tool is not left waiting for someone to empty a pipe.
Returns == <>Ended

=============================================================================
