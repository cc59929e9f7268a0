-------------------------------- MODULE Loader --------------------------------
(***************************************************************************)
(* A run of the program and the files it loads: main evaluates the program,*)
(* require, require_relative and load evaluate files in the top            *)
(* environment, methods and blocks of one file run while another file is   *)
(* being evaluated, and at_exit handlers run at the end (eval_support.c,   *)
(* eval_dispatch.c, main.c).                                               *)
(*                                                                         *)
(* ev->current_file, which require_relative and __dir__ read, is saved and *)
(* put back by each of these in its own way.  A file is its directory and  *)
(* its name, which is what realpath makes of every spelling of its path.   *)
(*                                                                         *)
(* The text of a file is chosen while it runs, one statement at a time, and*)
(* stays: a second evaluation runs the same statements.  Every file has    *)
(* one more piece of code, its helper, which is the body of a method and of*)
(* a block that the file defines before anything else.                     *)
(***************************************************************************)
EXTENDS Naturals, Sequences, SequencesExt

CONSTANTS
    Files,          \* the files there are, records of dir and name
    Broken,         \* those that do not parse, or are not UTF-8
    Main,           \* the program
    Names,          \* the names that statements require and load
    Vocabulary,     \* the statements that programs are made of
    NoFile,         \* current_file of a program read from stdin, and no file at all
    Cwd,            \* the working directory
    LoadPath,       \* the directories of $LOAD_PATH, in order
    MaxFile,        \* statements of a file
    MaxHelper,      \* statements of a helper
    MaxStatements   \* statements of a program in all its files

ASSUME LoaderAssumption ==
    /\ Main \in Files \ Broken /\ NoFile \notin Files
    /\ \A f \in Files : {"dir", "name"} = DOMAIN f

VARIABLES
    code,      \* the statements chosen so far, of files and helpers
    stack,     \* the pieces of code being evaluated, the running one last
    current,   \* ev->current_file
    home,      \* the helpers that are defined, with their def_file
    loaded,    \* ev->loaded_files, latest last
    signal,    \* what travels: nothing, an error, or the SystemExit of exit
    handlers,  \* ev->at_exit_handlers, latest first
    phase,     \* main: the program, its handlers, or the end
    left,      \* the handlers main has yet to call
    ran,       \* history: the handlers called, by the order of registration
    due,       \* history: how many there were when the program ended
    circled    \* history: a file was required while it was being required

vars == <<code, stack, current, home, loaded, signal, handlers, phase, left, ran, due, circled>>

Texts == Files \cup {NoFile}
Parts == {"file", "helper"}
Units == Texts \X Parts

(***************************************************************************)
(* Statements.  One that is safe stands in a begin with a rescue.          *)
(***************************************************************************)
Loading ==
    [op : {"require_relative", "require", "require unless defined", "require ./", "load"},
     name : Names, safe : BOOLEAN]
Calling == [op : {"method", "bare", "block", "refused"}, of : Texts, safe : BOOLEAN]
Others  == [op : {"raise", "exit", "at_exit"}, safe : {FALSE}]
End     == [op |-> "end", safe |-> FALSE]

ASSUME VocabularyAssumption == Vocabulary \subseteq Loading \cup Calling \cup Others

(***************************************************************************)
(* Which file a path means.                                                *)
(***************************************************************************)
In(dir, name) == [dir |-> dir, name |-> name]
Existing(paths) == SelectSeq(paths, LAMBDA p : p \in Files)
FirstExisting(paths) == IF Existing(paths) = <<>> THEN NoFile ELSE Head(Existing(paths))

\* Beside the current file, which resolve_relative_path takes the directory of.
Beside(name) == IF current = NoFile THEN <<>> ELSE <<In(current.dir, name)>>

OnLoadPath(name) == [i \in DOMAIN LoadPath |-> In(LoadPath[i], name)]

\* A path without a slash is looked for under the current file as if that were
\* a directory, so only the load path is left.
Resolved(s) ==
    CASE s.op = "require_relative" -> FirstExisting(Beside(s.name))
      [] s.op = "require ./"       -> FirstExisting(Beside(s.name) \o OnLoadPath(s.name))
      [] s.op = "load"             -> FirstExisting(<<In(Cwd, s.name)>>)
      [] OTHER                     -> FirstExisting(OnLoadPath(s.name))

\* Mutant: only the file loaded last is compared.
HasLoadedLast(file) == loaded # <<>> /\ Last(loaded) = file
HasLoaded(file) == file \in ToSet(loaded)
MarkLoaded(file) == Append(loaded, file)

(***************************************************************************)
(* Pieces of code that run.                                                *)
(***************************************************************************)
Top == Last(stack)
Unit == <<Top.file, Top.part>>
Evaluating == stack # <<>> /\ signal = "none"

Activation(file, part, how) ==
    [file |-> file, part |-> part, how |-> how, pc |-> 1, saved |-> current, strayed |-> FALSE]

Times(file, part) == Len(SelectSeq(stack, LAMBDA a : a.file = file /\ a.part = part))

\* The bound: a piece of code is entered again inside itself once only.
Room(file, part) == Times(file, part) < 2

Written == FoldFunction(LAMBDA text, n : Len(text) + n, 0, code)
Bound(u) == IF u[2] = "file" THEN MaxFile ELSE MaxHelper

IsWritten == Top.pc \in DOMAIN code[Unit]

\* What the statement at hand may be: the one written there, or any if none is
\* yet and the bounds leave room.
Candidates ==
    IF IsWritten THEN {code[Unit][Top.pc]}
    ELSE IF Len(code[Unit]) < Bound(Unit) /\ Written < MaxStatements THEN Vocabulary \cup {End}
    ELSE {End}

Write(s) == code' = IF IsWritten THEN code ELSE [code EXCEPT ![Unit] = Append(@, s)]

Advanced == [stack EXCEPT ![Len(stack)].pc = @ + 1]
Advance == stack' = Advanced

Fail == signal' = "error" /\ UNCHANGED stack

\* The evaluation of a file: its helper is defined first, with its def_file.
Enter(file, how) ==
    /\ Room(file, "file")
    /\ stack' = Append(stack, Activation(file, "file", how))
    /\ current' = file
    /\ home' = [t \in {file} \cup DOMAIN home |-> IF t = file THEN current' ELSE home[t]]

(***************************************************************************)
(* eval_require, eval_require_relative, eval_require_path.                 *)
(***************************************************************************)
Requires == {"require_relative", "require", "require unless defined", "require ./"}

Require(s) ==
    /\ s.op \in Requires
    /\ s.op = "require unless defined" => Resolved(s) \notin DOMAIN home
    /\ Resolved(s) \in Files \ Broken /\ ~HasLoaded(Resolved(s))
    /\ Enter(Resolved(s), "require")
    /\ circled' = (circled \/ \E i \in DOMAIN stack :
                      stack[i].file = Resolved(s) /\ stack[i].how = "require")
    /\ UNCHANGED <<loaded, signal, handlers>>

\* Loaded before, or kept from the require by the condition around it.
RequireAgain(s) ==
    /\ s.op \in Requires
    /\ \/ HasLoaded(Resolved(s))
       \/ s.op = "require unless defined" /\ Resolved(s) \in Files \cap DOMAIN home
    /\ Advance
    /\ UNCHANGED <<current, home, loaded, signal, handlers, circled>>

Load(s) ==
    /\ s.op = "load" /\ Resolved(s) \in Files \ Broken
    /\ Enter(Resolved(s), "load")
    /\ UNCHANGED <<loaded, signal, handlers, circled>>

\* Not found, not readable or not parseable: LoadError.
LoadFails(s) ==
    /\ s.op \in Requires \cup {"load"} /\ Resolved(s) \in Broken \cup {NoFile}
    /\ Fail
    /\ UNCHANGED <<current, home, loaded, handlers, circled>>

(***************************************************************************)
(* Methods and blocks of other files.  A block restores the file it was    *)
(* made in, a method called on a receiver too; a call without a receiver   *)
(* does not, and neither does a block refused for its number of arguments. *)
(***************************************************************************)
SwitchTo(file) == IF file = NoFile THEN current ELSE file

Call(s) ==
    /\ s.op \in {"method", "bare", "block"} /\ s.of \in DOMAIN home
    /\ Room(s.of, "helper")
    /\ stack' = Append(stack, Activation(s.of, "helper", s.op))
    /\ current' = IF s.op = "bare" THEN current ELSE SwitchTo(home[s.of])
    /\ UNCHANGED <<home, loaded, signal, handlers, circled>>

RefusedBlock(s) ==
    /\ s.op = "refused" /\ s.of \in DOMAIN home
    /\ current' = SwitchTo(home[s.of])
    /\ signal' = "error"
    /\ stack' = [stack EXCEPT ![Len(stack)].strayed = TRUE]
    /\ UNCHANGED <<home, loaded, handlers, circled>>

Raise(s) ==
    /\ s.op = "raise" /\ Fail
    /\ UNCHANGED <<current, home, loaded, handlers, circled>>

Exit(s) ==
    /\ s.op = "exit"
    /\ signal' = "exit"
    /\ UNCHANGED <<stack, current, home, loaded, handlers, circled>>

\* The handler's block is the helper of the file at hand; its def_file is the
\* current file.
AtExit(s) ==
    /\ s.op = "at_exit"
    /\ handlers' = <<[file |-> Top.file, home |-> current, id |-> Len(handlers) + 1,
                      strayed |-> Top.strayed \/ Top.how = "bare"]>> \o handlers
    /\ Advance
    /\ UNCHANGED <<current, home, loaded, signal, circled>>

(***************************************************************************)
(* The end of a piece of code, by itself or with a signal.                 *)
(***************************************************************************)
\* Mutant: a signal on its way skips the assignment.
RestoredByValue(a) == IF a.how \in {"bare", "program"} \/ signal # "none" THEN current ELSE a.saved
Restored(a) == IF a.how \in {"bare", "program"} THEN current ELSE a.saved

\* The activations without the last, whose caller has strayed with it if the
\* call put nothing back.
Popped ==
    [i \in 1 .. Len(stack) - 1 |->
        IF i = Len(stack) - 1 /\ Top.how = "bare" /\ Top.strayed
        THEN [stack[i] EXCEPT !.strayed = TRUE] ELSE stack[i]]

Return(s) ==
    /\ s.op = "end"
    /\ stack' = IF Len(stack) = 1 THEN <<>> ELSE [Popped EXCEPT ![Len(stack) - 1].pc = @ + 1]
    /\ current' = Restored(Top)
    /\ loaded' = IF Top.how = "require" THEN MarkLoaded(Top.file) ELSE loaded
    /\ UNCHANGED <<home, signal, handlers, circled>>

Step ==
    /\ Evaluating /\ phase # "over"
    /\ \E s \in Candidates :
           /\ Write(s)
           /\ \/ Require(s) \/ RequireAgain(s) \/ Load(s) \/ LoadFails(s)
              \/ Call(s) \/ RefusedBlock(s) \/ Raise(s) \/ Exit(s) \/ AtExit(s) \/ Return(s)
    /\ UNCHANGED <<phase, left, ran, due>>

Rescued == signal = "error" /\ code[Unit][Top.pc].safe

\* Mutant: the statement that failed is evaluated again.
RescueAgain ==
    /\ stack # <<>> /\ Rescued
    /\ signal' = "none" /\ UNCHANGED stack
    /\ UNCHANGED <<code, current, home, loaded, handlers, phase, left, ran, due, circled>>

Rescue ==
    /\ stack # <<>> /\ Rescued
    /\ signal' = "none" /\ Advance
    /\ UNCHANGED <<code, current, home, loaded, handlers, phase, left, ran, due, circled>>

\* eval_require_path returns the signal without marking the file.
Unwind ==
    /\ stack # <<>> /\ signal # "none" /\ ~Rescued
    /\ stack' = Popped
    /\ current' = Restored(Top)
    /\ UNCHANGED <<code, home, loaded, signal, handlers, phase, left, ran, due, circled>>

(***************************************************************************)
(* main, after the program.                                                *)
(***************************************************************************)
\* Mutant: the list is walked in the order of registration.
AllHandlersOldestFirst == Reverse(handlers)
AllHandlers == handlers

\* An error other than SystemExit is printed and ends the run.
ProgramEnds ==
    /\ phase = "program" /\ stack = <<>>
    /\ phase' = IF signal = "error" THEN "over" ELSE "handlers"
    /\ left' = IF signal = "error" THEN <<>> ELSE AllHandlers
    /\ due' = Len(handlers)
    /\ UNCHANGED <<code, stack, current, home, loaded, signal, handlers, ran, circled>>

NextHandler == Tail(left)

RunHandler ==
    /\ phase = "handlers" /\ stack = <<>> /\ left # <<>> /\ signal = "none"
    /\ LET h == Head(left)
       IN  /\ stack' = <<[Activation(h.file, "helper", "handler") EXCEPT !.strayed = h.strayed]>>
           /\ current' = SwitchTo(h.home)
           /\ ran' = Append(ran, h.id)
    /\ left' = NextHandler
    /\ UNCHANGED <<code, home, loaded, signal, handlers, phase, due, circled>>

\* With the registers still set, by exit or by an earlier handler, call_block
\* returns before it evaluates the body.
SkipHandler ==
    /\ phase = "handlers" /\ stack = <<>> /\ left # <<>> /\ signal # "none"
    /\ current' = SwitchTo(Head(left).home)
    /\ left' = NextHandler
    /\ UNCHANGED <<code, stack, home, loaded, signal, handlers, phase, ran, due, circled>>

RunEnds ==
    /\ phase = "handlers" /\ stack = <<>> /\ left = <<>>
    /\ phase' = "over"
    /\ UNCHANGED <<code, stack, current, home, loaded, signal, handlers, left, ran, due, circled>>

Init ==
    /\ code = [u \in Units |-> <<>>]
    /\ current \in {Main, NoFile}
    /\ stack = <<Activation(current, "file", "program")>>
    /\ home = [t \in {current} |-> current]
    /\ loaded = <<>> /\ signal = "none" /\ handlers = <<>>
    /\ phase = "program" /\ left = <<>> /\ ran = <<>> /\ due = 0 /\ circled = FALSE

Next == Step \/ Rescue \/ Unwind \/ ProgramEnds \/ RunHandler \/ SkipHandler \/ RunEnds

\* One thread evaluates the program and nothing in it waits for anything.
Spec == Init /\ [][Next]_vars /\ WF_vars(Next)

(***************************************************************************)
(* Properties                                                              *)
(***************************************************************************)
\* require_relative and __dir__ mean the directory of the file they are
\* written in, however files, methods, blocks and handlers call each other and
\* whichever of them fail.  The code's exceptions: inside a method called
\* without a receiver, and after a block was refused for its arguments.
CurrentFileHonest ==
    (Evaluating /\ Top.how # "bare" /\ ~Top.strayed /\ Top.file # NoFile) =>
        current = Top.file

\* A file that require has evaluated to its end is not evaluated by require
\* again, under whatever path, unless it was required inside itself.
LoadedOnce == circled \/ IsInjective(loaded)

\* The handlers registered by the program run latest first, each once, and all
\* of them unless exit ended the program or one of them fails.
HandlersLatestFirst ==
    phase = "over" =>
        /\ IsPrefix(ran, [i \in 1 .. due |-> due + 1 - i])
        /\ signal = "none" => Len(ran) = due

Circle == \E i, j \in DOMAIN stack :
              i < j /\ stack[i].file = stack[j].file /\ stack[i].part = stack[j].part

\* Every run ends, with the handlers that register handlers and the files that
\* are required again after a failure, unless a piece of code runs inside itself.
RunsEnd == <>(phase = "over" \/ Circle)
=============================================================================
