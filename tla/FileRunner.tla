----------------------------- MODULE FileRunner -----------------------------
(***************************************************************************)
(* main (main.go): the flags, and the runs of a source file and of a koko   *)
(* file, the bytecode a run with -o has written.  The process may die at    *)
(* any point; the koko file stays as it is then.  The program of the source *)
(* file is given by its bytecode; the machine and the tree-walking engine   *)
(* are modules of their own.                                                *)
(***************************************************************************)
EXTENDS Serialization

CONSTANTS Bytecodes, MaxRuns

ASSUME FileRunnerAssumption ==
    Bytecodes \subseteq [consts : Seq(Constant), ins : Seq(Byte)] /\ MaxRuns \in Nat

NoFile == <<-1>>

VARIABLES
    source,      \* the bytecode of the source file
    koko,        \* the bytes of the koko file
    flags,       \* of the current run
    phase,       \* where main is; idle when no run is under way
    rest,        \* what Deserialize has not read yet
    constants,   \* what it has read
    result,      \* what the last run did, with the bytecode it ran
    runs
vars == <<source, koko, flags, phase, rest, constants, result, runs>>

\* The arguments: none, the source file, the koko file (its name ends in .koko).
Flags == [engine : {"vm", "evaluator", "other"}, out : BOOLEAN, koko : BOOLEAN,
          args : {"none", "source", "koko file", "two"}]
NoProgram == [consts |-> <<>>, ins |-> <<>>]
Did(what, b) == [what |-> what, bytecode |-> b]

\* A faulty Invalid: -o with the evaluator is let through.
LenientInvalid(f) == f.engine = "other" \/ (f.koko /\ (f.engine = "evaluator" \/ f.out))
Invalid(f) ==
    \/ f.engine = "other"
    \/ f.koko /\ (f.engine = "evaluator" \/ f.out)
    \/ f.out /\ f.engine # "vm"
    \/ f.args = "two"
    \/ f.args = "none" /\ (f.koko \/ f.out)

RunsKoko(f) == f.koko \/ (f.args = "koko file" /\ f.engine = "vm" /\ ~f.out)

Init ==
    /\ source \in Bytecodes /\ koko = NoFile
    /\ flags \in {f \in Flags : f.args = "none" /\ f.engine = "vm" /\ ~f.out /\ ~f.koko}
    /\ phase = "idle" /\ rest = <<>> /\ constants = <<>> /\ runs = 0
    /\ result = Did("nothing", NoProgram)

\* A run names the file it means: source text is not run as koko, nor koko as source.
Invoke ==
    /\ phase = "idle" /\ runs < MaxRuns /\ runs' = runs + 1
    /\ \E f \in Flags :
        /\ ~Invalid(f) => (f.args \in {"none"} \/ (f.args = "koko file") = RunsKoko(f))
        /\ flags' = f
        /\ phase' = IF Invalid(f) THEN "idle"
                    ELSE IF f.args = "none" THEN "repl"
                    ELSE IF RunsKoko(f) THEN "read koko" ELSE "source"
        /\ result' = IF Invalid(f) THEN Did("usage", NoProgram) ELSE Did("nothing", NoProgram)
    /\ UNCHANGED <<source, koko, rest, constants>>

End(what, b) == phase' = "idle" /\ result' = Did(what, b)

Repl == phase = "repl" /\ End("repl", NoProgram) /\ UNCHANGED <<source, koko, flags, rest, constants, runs>>

\* A file that cannot be read or created and the errors of parser and compiler end the run
\* before any file is touched.
RunSource ==
    /\ phase = "source"
    /\ \/ End("rejected", NoProgram)
       \/ flags.engine = "evaluator" /\ End("evaluated", NoProgram)
       \/ flags.engine = "vm" /\ ~flags.out /\ End("ran", source)
       \/ flags.engine = "vm" /\ flags.out /\ phase' = "created" /\ UNCHANGED result
    /\ koko' = IF phase' = "created" THEN <<>> ELSE koko      \* os.Create truncates
    /\ UNCHANGED <<source, flags, rest, constants, runs>>

\* The file is created before the bytecode is serialized.  Write may stop half-way,
\* with an error or with the process.
WriteKoko ==
    /\ phase = "created"
    /\ LET bytes == SerializeBytecode(source)
       IN  IF SerializePanics(source) THEN End("panicked", NoProgram) /\ UNCHANGED koko
           ELSE \/ koko' = bytes /\ End("written", source)
                \/ \E k \in 0..(Len(bytes) - 1) :
                        koko' = SubSeq(bytes, 1, k) /\ End("could not write", NoProgram)
    /\ UNCHANGED <<source, flags, rest, constants, runs>>

\* The error of ReadFile is dropped: a file that is not there has no bytes.
ReadKoko ==
    /\ phase = "read koko" /\ phase' = "deserialize"
    /\ rest' = (IF koko = NoFile THEN <<>> ELSE koko) /\ constants' = <<>>
    /\ UNCHANGED <<source, koko, flags, result, runs>>

\* A faulty EndOfBytes: a file without instructions is a program without any.
EndOfBytesAccepted == End("ran koko", [consts |-> constants, ins |-> <<>>])
EndOfBytes == End("panicked", NoProgram)

\* A constant a step; the instructions are all the bytes after their mark.
Deserialize ==
    /\ phase = "deserialize"
    /\ UNCHANGED <<source, koko, flags, runs>>
    /\ \/ /\ rest = <<>> /\ EndOfBytes /\ UNCHANGED <<rest, constants>>
       \/ /\ rest # <<>> /\ rest[1] = BytecodeMark
          /\ End("ran koko", [consts |-> constants, ins |-> Tail(rest)])
          /\ UNCHANGED <<rest, constants>>
       \/ /\ rest # <<>> /\ rest[1] # BytecodeMark
          /\ LET r == DeserializeConstant(rest)
             IN  IF r = Panicked THEN End("panicked", NoProgram) /\ UNCHANGED <<rest, constants>>
                 ELSE /\ rest' = Drop(rest, r.n) /\ constants' = Append(constants, r.object)
                      /\ UNCHANGED <<phase, result>>

\* The process dies between two steps; the user may also edit the source.
Crash == phase # "idle" /\ End("died", NoProgram) /\ UNCHANGED <<source, koko, flags, rest, constants, runs>>
Edit == phase = "idle" /\ runs < MaxRuns /\ source' \in Bytecodes
            /\ UNCHANGED <<koko, flags, phase, rest, constants, result, runs>>

Main == Repl \/ RunSource \/ WriteKoko \/ ReadKoko \/ Deserialize
Next == Invoke \/ Main \/ Crash \/ Edit
Spec == Init /\ [][Next]_vars

-----------------------------------------------------------------------------
(***************************************************************************)
(* Properties.                                                              *)
(***************************************************************************)
Whole(bytes) == \E b \in Bytecodes : ~SerializePanics(b) /\ bytes = SerializeBytecode(b)

HasString(b) == \E c \in ToSet(b.consts) : c[1] = "STRING"
LoadsOrRefuses ==
    (phase = "idle" /\ RunsKoko(flags) /\ Whole(koko)) =>
        \/ result.what \in {"died", "usage"}
        \/ result.what = "ran koko" /\ koko = SerializeBytecode(result.bytecode)
        \/ result.what = "panicked" /\ \E b \in Bytecodes : HasString(b) /\ koko = SerializeBytecode(b)
StringsRefused == result.what = "ran koko" => ~HasString(result.bytecode)

\* A koko file that was written whole runs as the program it was made from, whatever
\* runs, deaths and failed writes came before, when none of its constants is a string;
\* with a string, wherever it stands, it is refused, and no file, whole or cut, ever runs
\* with one (the check of the length in String.Deserialize).
LoadsWhatIsWritten == LoadsOrRefuses /\ StringsRefused

\* A koko file cut short by an error or a death is refused, or it runs the beginning of
\* the program with all of its constants: never other constants or other code.
RunsOnlyPrefixes ==
    result.what = "ran koko" =>
        \E b \in Bytecodes : /\ result.bytecode.consts = b.consts
                             /\ IsPrefix(result.bytecode.ins, b.ins)

\* A run with -o runs no program, and only a run with -o touches the koko file (the
\* usage in README.md: the engine must be the VM then).
OutputOnlyCompiles ==
    [][/\ koko' # koko => flags.out /\ flags.engine = "vm"
       /\ flags'.out => result'.what \notin {"ran", "evaluated", "ran koko"}]_vars
=============================================================================
