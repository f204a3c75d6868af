---------------------------- MODULE LogRotation ----------------------------
(***************************************************************************)
(* The log file of src/src/log.c and its rotation.  _log is called by the  *)
(* program and, between any two of its steps, by handle_signal of          *)
(* src/src/jabber_bind.c: two activations of the same code, of which the   *)
(* handler's runs to its end while the other waits.                        *)
(*                                                                         *)
(* Lines are numbered and of one size; a file is a number, and a name      *)
(* holds a file.  rename() onto a name that is taken replaces its file.    *)
(***************************************************************************)
EXTENDS Integers, Sequences, FiniteSets

CONSTANTS
    RotateSizes,    \* values of rotate_size, in lines; 0 turns rotation off
    MaxLines,       \* bound: lines logged
    MaxSignals,     \* bound: signals
    MaxSeconds      \* bound: the clock

ASSUME LogAssumption ==
    /\ RotateSizes \subseteq Nat
    /\ MaxLines \in Nat /\ MaxSignals \in Nat /\ MaxSeconds \in Nat

VARIABLES
    rotate_size,    \* log_conf.rotate_size
    verbose,        \* does log_conf.level let INFO, the handler's level, pass?
    mayFail,        \* can rename() and fopen() fail?
    stream,         \* log_conf.file: a FILE, or one of the values below
    held,           \* the FILE an activation has read, or opened, to use next
    shut,           \* those of stdout and stderr that were closed
    named,          \* the file called log_conf.filename, or NoFile
    rotated,        \* the file with a date in its name, by the second
    files,          \* the number of files made
    overwritten,    \* the files that rename() put another in the place of
    written,        \* where each line went: a file, stdout or stderr
    pc,             \* where an activation of _log is
    second,         \* the date of the name an activation renames to
    now, signals,
    undefined       \* has a FILE or the name been used after it was freed?

confVars == <<rotate_size, verbose, mayFail>>
nameVars == <<named, rotated, files, overwritten>>
fileVars == <<stream, held, shut, nameVars>>
countVars == <<second, now, signals, undefined>>
vars == <<confVars, fileVars, written, pc, countVars>>

NoFile == 0

Null   == -1
Closed == -2    \* log_conf.file points to what fclose() has freed
Stdout == -3
Stderr == -4

Activations == {"main", "handler"}

-----------------------------------------------------------------------------
(* The handler's activation is the one that runs, if there is one. *)
At(a, label) ==
    /\ ~undefined
    /\ a = "main" => pc["handler"] = "idle"
    /\ pc[a] = label

Goto(a, label) == pc' = [pc EXCEPT ![a] = label]

(* A signal may come after log_conf.file was read and before libc is done   *)
(* with it: each mention of log_conf.file is a step, and each use another.  *)
Read(a, f) == held' = [held EXCEPT ![a] = f]

Drop(a) == Read(a, Null)

(* FILEs that may be handed to libc. *)
IsOpen(f) == f \notin {Null, Closed} \cup shut

Uses(a, label) == At(a, label) /\ IsOpen(held[a])

(* The places where what was read is used. *)
Using == {"write", "flush", "tell", "closing", "leave"}

(* Where log_quit has freed log_conf.filename. *)
Quitting == {"leave", "quit"}

(* A closed FILE is used, or a name that was freed. *)
UseFreed(a) ==
    /\ \/ \E label \in Using : At(a, label) /\ ~IsOpen(held[a])
       \/ At(a, "rename") /\ pc["main"] \in Quitting
    /\ undefined' = TRUE
    /\ UNCHANGED <<confVars, fileVars, written, pc, second, now, signals>>

(* The program logs a line of its own. *)
Log ==
    /\ At("main", "idle")
    /\ Len(written) < MaxLines
    /\ Goto("main", "print")
    /\ UNCHANGED <<confVars, fileVars, written, countVars>>

(* Mutant: the handler does not ask for the level. *)
HandleSignalAtAnyLevel ==
    /\ At("handler", "idle")
    /\ signals < MaxSignals
    /\ signals' = signals + 1
    /\ Goto("handler", "print")
    /\ UNCHANGED <<confVars, fileVars, written, second, now, undefined>>

(* handle_signal; _log returns at once from a level that is not logged. *)
HandleSignal ==
    /\ At("handler", "idle")
    /\ signals < MaxSignals
    /\ signals' = signals + 1
    /\ IF verbose THEN Goto("handler", "print") ELSE UNCHANGED pc
    /\ UNCHANGED <<confVars, fileVars, written, second, now, undefined>>

-----------------------------------------------------------------------------
(* _log *)

(* "Log output not set." goes to stderr, and so do the lines from then on. *)
Output == IF stream = Null THEN Stderr ELSE stream

FindOutput(a) ==
    /\ At(a, "print")
    /\ stream' = Output
    /\ Read(a, Output)
    /\ Goto(a, "write")
    /\ UNCHANGED <<confVars, shut, nameVars, written, countVars>>

(* vfprintf(), and log_conf.file is read for fflush(). *)
PrintLine(a) ==
    /\ Uses(a, "write")
    /\ written' = Append(written, held[a])
    /\ Read(a, stream)
    /\ Goto(a, "flush")
    /\ UNCHANGED <<confVars, stream, shut, nameVars, countVars>>

Flush(a) ==
    /\ Uses(a, "flush")
    /\ Drop(a)
    /\ Goto(a, "check")
    /\ UNCHANGED <<confVars, stream, shut, nameVars, written, countVars>>

Check(a) ==
    /\ At(a, "check")
    /\ Goto(a, IF stream # Stdout /\ rotate_size > 0 THEN "size" ELSE "idle")
    /\ UNCHANGED <<confVars, fileVars, written, countVars>>

(* log_conf.file is read again for ftell(). *)
AskSize(a) ==
    /\ At(a, "size")
    /\ Read(a, stream)
    /\ Goto(a, "tell")
    /\ UNCHANGED <<confVars, stream, shut, nameVars, written, countVars>>

LinesOf(f) == {n \in DOMAIN written : written[n] = f}

(* Mutant: one line more than the size is allowed. *)
MayExceedSize(f) ==
    IF f > NoFile THEN {Cardinality(LinesOf(f)) > rotate_size} ELSE BOOLEAN

(* ftell() of stderr is the size of a file or -1, which is the largest      *)
(* number there is to the unsigned size it is compared with.               *)
MayReachSize(f) ==
    IF f > NoFile THEN {Cardinality(LinesOf(f)) >= rotate_size} ELSE BOOLEAN

TellSize(a) ==
    /\ Uses(a, "tell")
    /\ \E reached \in MayReachSize(held[a]) :
        Goto(a, IF reached THEN "close" ELSE "idle")
    /\ Drop(a)
    /\ UNCHANGED <<confVars, stream, shut, nameVars, written, countVars>>

-----------------------------------------------------------------------------
(* log_rotate *)

(* fclose(): what others have read of this FILE is freed memory.  What      *)
(* fopen() has just returned to one of them is another FILE.               *)
Fclose(f) ==
    /\ stream' = IF stream = f THEN Closed ELSE stream
    /\ held' = [a \in Activations |->
                    IF held[a] = f /\ pc[a] # "store" THEN Closed ELSE held[a]]
    /\ shut' = shut \cup ({f} \cap {Stdout, Stderr})

LogRotate(a) ==
    /\ At(a, "close")
    /\ Read(a, stream)
    /\ Goto(a, "closing")
    /\ UNCHANGED <<confVars, stream, shut, nameVars, written, countVars>>

CloseFile(a) ==
    /\ Uses(a, "closing")
    /\ Fclose(held[a])
    /\ Goto(a, "forget")
    /\ UNCHANGED <<confVars, nameVars, written, countVars>>

Forget(a) ==
    /\ At(a, "forget")
    /\ stream' = Null
    /\ Drop(a)
    /\ second' = [second EXCEPT ![a] = now]
    /\ Goto(a, "rename")
    /\ UNCHANGED <<confVars, shut, nameVars, written, now, signals, undefined>>

(* Nobody looks at what rename() returns; there may be no file to rename. *)
Rename(a) ==
    /\ At(a, "rename")
    /\ pc["main"] \notin Quitting
    /\ \/ /\ named # NoFile
          /\ rotated' = [rotated EXCEPT ![second[a]] = named]
          /\ overwritten' = overwritten \cup ({rotated[second[a]]} \ {NoFile})
          /\ named' = NoFile
       \/ /\ mayFail \/ named = NoFile
          /\ UNCHANGED <<named, rotated, overwritten>>
    /\ Goto(a, "open")
    /\ UNCHANGED <<confVars, stream, held, shut, files, written, countVars>>

(* Mutant: fopen() for writing in a new file. *)
OpenNewFile(a) ==
    /\ files' = files + 1
    /\ named' = files'
    /\ Read(a, named')

(* fopen() for appending. *)
OpenNamed(a) ==
    /\ files' = files + (IF named = NoFile THEN 1 ELSE 0)
    /\ named' = (IF named = NoFile THEN files' ELSE named)
    /\ Read(a, named')

Open(a) ==
    /\ At(a, "open")
    /\ \/ OpenNamed(a)
       \/ mayFail /\ Drop(a) /\ UNCHANGED <<named, files>>
    /\ Goto(a, "store")
    /\ UNCHANGED <<confVars, stream, shut, rotated, overwritten, written, countVars>>

(* What fopen() returned becomes log_conf.file. *)
Store(a) ==
    /\ At(a, "store")
    /\ stream' = held[a]
    /\ Drop(a)
    /\ Goto(a, IF held[a] = Null THEN "default" ELSE "idle")
    /\ UNCHANGED <<confVars, shut, nameVars, written, countVars>>

(* stdout, unless a signal has made it stderr. *)
Default(a) ==
    /\ At(a, "default")
    /\ stream' = IF stream = Null THEN Stdout ELSE stream
    /\ Goto(a, "idle")
    /\ UNCHANGED <<confVars, held, shut, nameVars, written, countVars>>

-----------------------------------------------------------------------------
(* log_quit; the signals are handled until the process ends. *)
Quit ==
    /\ At("main", "idle")
    /\ IF stream \in {Null, Stdout}
       THEN Goto("main", "quit") /\ UNCHANGED held
       ELSE Goto("main", "leave") /\ Read("main", stream)
    /\ UNCHANGED <<confVars, stream, shut, nameVars, written, countVars>>

CloseAtQuit ==
    /\ Uses("main", "leave")
    /\ Fclose(held["main"])
    /\ Goto("main", "quit")
    /\ UNCHANGED <<confVars, nameVars, written, countVars>>

Tick ==
    /\ ~undefined
    /\ now < MaxSeconds
    /\ now' = now + 1
    /\ UNCHANGED <<confVars, fileVars, written, pc, second, signals, undefined>>

(* After log_init: a file of its own, or stdout. *)
Init ==
    /\ rotate_size \in RotateSizes
    /\ verbose \in BOOLEAN
    /\ mayFail \in BOOLEAN
    /\ files \in {0, 1}
    /\ named = files
    /\ stream = IF files = 1 THEN named ELSE Stdout
    /\ held = [a \in Activations |-> Null]
    /\ shut = {}
    /\ rotated = [s \in 0..MaxSeconds |-> NoFile]
    /\ overwritten = {}
    /\ written = <<>>
    /\ pc = [a \in Activations |-> "idle"]
    /\ second = [a \in Activations |-> 0]
    /\ now = 0
    /\ signals = 0
    /\ undefined = FALSE

Logs(a) == FindOutput(a) \/ PrintLine(a) \/ Flush(a) \/ Check(a) \/ AskSize(a) \/ TellSize(a)

Rotates(a) ==
    \/ LogRotate(a) \/ CloseFile(a) \/ Forget(a) \/ Rename(a)
    \/ Open(a) \/ Store(a) \/ Default(a)

Next ==
    \/ Log \/ HandleSignal \/ Quit \/ CloseAtQuit \/ Tick
    \/ \E a \in Activations : Logs(a) \/ Rotates(a) \/ UseFreed(a)

Spec == Init /\ [][Next]_vars

-----------------------------------------------------------------------------
(* Properties *)

Labels ==
    {"idle", "print", "check", "size", "close", "forget", "rename", "open",
     "store", "default", "quit"} \cup Using

Files == (1..files) \cup {Null, Closed, Stdout, Stderr}

(* Every variable has its type. *)
LogTypeOK ==
    /\ rotate_size \in Nat
    /\ verbose \in BOOLEAN /\ mayFail \in BOOLEAN
    /\ files \in Nat
    /\ named \in 0..files
    /\ stream \in Files
    /\ held \in [Activations -> Files]
    /\ shut \subseteq {Stdout, Stderr}
    /\ rotated \in [0..MaxSeconds -> 0..files]
    /\ overwritten \subseteq 1..files
    /\ written \in Seq((1..files) \cup {Stdout, Stderr})
    /\ pc \in [Activations -> Labels]
    /\ second \in [Activations -> 0..MaxSeconds]
    /\ now \in 0..MaxSeconds
    /\ signals \in Nat
    /\ undefined \in BOOLEAN

(* A FILE that was closed, or the name log_quit has freed, is used in four   *)
(* ways only, each of which needs a signal that is logged: the signal comes *)
(* in log_quit or after it; the handler writes to what log_rotate has       *)
(* closed, or to a stderr that a handler before it has closed, while the    *)
(* program is in log_rotate; the handler closes the FILE that the program   *)
(* has read from log_conf.file and not yet used; or a rotation has closed   *)
(* stdout, which fopen() had failed to replace.                            *)
ClosedFileUsedAfterSignal ==
    undefined =>
        /\ verbose
        /\ \/ pc["main"] \in Quitting
           \/ /\ rotate_size > 0
              /\ \/ /\ pc["handler"] = "write"
                    /\ pc["main"] \in {"forget", "rename", "open", "store", "default"}
                 \/ pc["handler"] = "idle" /\ held["main"] = Closed
                 \/ mayFail /\ Stdout \in shut

(* The lines that are in a file with a name, or were shown. *)
Found ==
    {n \in DOMAIN written :
        written[n] < NoFile \/ written[n] \in {named} \cup {rotated[s] : s \in DOMAIN rotated}}

(* A line that was logged is lost in one way only: in a file that a second  *)
(* rotation in one second has put another in the place of.                 *)
LostOnlyByOverwriting ==
    \A n \in DOMAIN written : n \in Found \/ written[n] \in overwritten

(* After a call the file with the name of the log is smaller than           *)
(* rotate_size, whatever a signal logged in between, unless rename() or     *)
(* fopen() fails.                                                          *)
RotatedInTime ==
    /\ \A a \in Activations : pc[a] = "idle"
    /\ rotate_size > 0
    /\ ~mayFail
    /\ named # NoFile
    => Cardinality(LinesOf(named)) < rotate_size
=============================================================================
