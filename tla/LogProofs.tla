----------------------------- MODULE LogProofs -----------------------------
(***************************************************************************)
(* What holds of LogRotation for any sizes, any number of lines, signals   *)
(* and seconds.  The inductive invariant says what log_conf.file can be at *)
(* each place where a signal finds the program.                            *)
(***************************************************************************)
EXTENDS LogRotation, FiniteSetTheorems, SequenceTheorems, TLAPS

(* Where the program's activation may have read log_conf.file, or will.     *)
Logging ==
    {"idle", "print", "write", "flush", "check", "size", "tell", "close", "closing",
     "leave"}

(* The places in log_rotate where log_conf.file is not a file that is open. *)
Rotating == {"rename", "open", "store", "default"}

(* What the program's own activation leaves where a signal may come. *)
MainAgrees ==
    /\ pc["main"] \in Logging => stream \notin {Null, Closed}
    /\ pc["main"] = "forget" => stream = Closed
    /\ pc["main"] \in Rotating => stream # Closed
    /\ pc["main"] = "quit" => stream \in {Closed, Stdout}

(* A handler that has printed found the stream open, and owns it. *)
HandlerAgrees ==
    /\ pc["handler"] = "write" => stream # Null
    /\ pc["handler"] \in {"flush", "check", "size", "tell", "close", "closing"} =>
        IsOpen(stream)
    /\ pc["handler"] \in {"size", "tell", "close", "closing"} => stream # Stdout
    /\ pc["handler"] = "forget" => stream = Closed
    /\ pc["handler"] \in Rotating => stream = Null
    /\ pc["handler"] \in {"size", "tell", "close", "closing", "forget"} \cup Rotating =>
        pc["main"] \notin {"forget", "quit"}

(* What was read from log_conf.file is still there, or was closed by the    *)
(* rotation of a signal.                                                   *)
HeldAgrees ==
    /\ pc["main"] \in Using =>
        /\ held["main"] # Null
        /\ held["main"] = stream \/ (held["main"] = Closed /\ verbose /\ rotate_size > 0)
    /\ pc["main"] = "leave" => held["main"] # Stdout
    /\ pc["handler"] \in Using => held["handler"] = stream
    /\ \A a \in Activations : pc[a] = "store" => held[a] \in {Null} \cup 1..files

(* stderr is log_conf.file only after a signal, and is not closed then but  *)
(* where the handler finds it so.                                          *)
StderrAgrees ==
    stream = Stderr =>
        /\ verbose /\ rotate_size > 0
        /\ Stderr \in shut => pc["handler"] = "write" /\ pc["main"] \in Rotating

StreamInv ==
    /\ pc["handler"] \notin Quitting
    /\ pc["handler"] # "idle" => verbose
    /\ \A a \in Activations :
        pc[a] \in {"size", "tell", "close", "closing", "forget"} \cup Rotating => rotate_size > 0
    /\ Stdout \in shut => mayFail /\ verbose /\ rotate_size > 0
    /\ files = 0 => stream = Stdout /\ \A a \in Activations :
            pc[a] \in {"idle", "print", "write", "flush", "check", "quit"}
    /\ stream = Stdout => files = 0 \/ mayFail
    /\ \A a \in Activations : pc[a] = "default" => mayFail
    /\ \A a \in Activations : pc[a] = "store" /\ held[a] = Null => mayFail
    /\ pc["main"] \in {"size", "tell", "close", "closing"} /\ stream = Stdout => verbose
    /\ ~undefined =>
        /\ pc["handler"] \notin {"forget"} \cup Rotating => MainAgrees
        /\ HandlerAgrees
        /\ HeldAgrees
        /\ StderrAgrees

(* A file that was made keeps a name until another is put in its place. *)
NameInv ==
    \A f \in 1..files :
        f = named \/ f \in overwritten \/ \E s \in DOMAIN rotated : rotated[s] = f

IsSmall(f) == Cardinality(LinesOf(f)) < rotate_size

(* Only an activation that is about to look at the size, or to rename the   *)
(* file, finds the log file big.                                           *)
SizeInv ==
    rotate_size > 0 /\ ~mayFail /\ named # NoFile /\ ~IsSmall(named) =>
        \/ /\ stream = named
           /\ \E a \in Activations :
                pc[a] \in {"flush", "check", "size", "tell", "close", "closing"}
        \/ \E a \in Activations : pc[a] \in {"forget", "rename"}

LogInv ==
    /\ LogTypeOK
    /\ StreamInv
    /\ ClosedFileUsedAfterSignal
    /\ NameInv
    /\ SizeInv

USE DEF NoFile, Null, Closed, Stdout, Stderr, Activations

LEMMA LogInit == Init => LogInv
<1> SUFFICES ASSUME Init PROVE LogInv
  OBVIOUS
<1>1. LogTypeOK
  <2>1. written \in Seq((1..files) \cup {Stdout, Stderr})
    BY EmptySeq DEF Init
  <2>2. named \in 0..files /\ stream \in Files /\ held \in [Activations -> Files]
    BY DEF Init, Files
  <2>3. rotated \in [0..MaxSeconds -> 0..files] /\ now \in 0..MaxSeconds
    BY LogAssumption DEF Init
  <2>4. pc \in [Activations -> Labels]
    BY DEF Init, Labels
  <2>5. overwritten \subseteq 1..files /\ second \in [Activations -> 0..MaxSeconds]
    BY LogAssumption DEF Init
  <2> QED
    BY <2>1, <2>2, <2>3, <2>4, <2>5, LogAssumption DEF Init, LogTypeOK
<1>2. StreamInv
  BY DEF Init, StreamInv, MainAgrees, HandlerAgrees, HeldAgrees, StderrAgrees,
         Logging, Rotating, Using, Quitting
<1>3. ClosedFileUsedAfterSignal
  BY DEF Init, ClosedFileUsedAfterSignal
<1>4. NameInv
  BY DEF Init, NameInv
<1>5. SizeInv
  <2>1. LinesOf(named) = {}
    BY DEF Init, LinesOf
  <2>2. Cardinality({}) = 0
    BY FS_EmptySet
  <2> QED
    BY <1>1, <2>1, <2>2 DEF Init, SizeInv, IsSmall, LogTypeOK
<1> QED
  BY <1>1, <1>2, <1>3, <1>4, <1>5 DEF LogInv

(* The lines of the log's file can be counted. *)
LEMMA LinesCounted ==
    ASSUME LogTypeOK
    PROVE  Cardinality(LinesOf(named)) \in Nat
<1>1. Len(written) \in Nat /\ DOMAIN written = 1..Len(written)
  BY DEF LogTypeOK
<1>2. IsFiniteSet(DOMAIN written)
  BY <1>1, FS_Interval
<1>3. LinesOf(named) \in SUBSET DOMAIN written
  BY DEF LinesOf
<1> QED
  BY <1>2, <1>3, FS_Subset, FS_CardinalityType

(* More files leave the lines' type as it is. *)
LEMMA SeqMonotone ==
    ASSUME NEW S, NEW T, S \subseteq T, NEW s \in Seq(S)
    PROVE  s \in Seq(T)
<1>1. /\ Len(s) \in Nat /\ s = [i \in 1..Len(s) |-> s[i]]
      /\ \A i \in 1..Len(s) : s[i] \in T
  BY ElementOfSeq, LenProperties
<1> QED
  BY <1>1

LEMMA LogKeepsInv ==
    ASSUME LogInv, Log
    PROVE  LogInv'
<1> USE DEF LogInv, Log, At, Goto, Read, Drop, confVars, nameVars, fileVars, countVars
<1>1. LogTypeOK'
  BY LogAssumption DEF LogTypeOK, Labels, Using, Files
<1>2. StreamInv'
  BY DEF LogTypeOK, Files, StreamInv, MainAgrees, HandlerAgrees, HeldAgrees, StderrAgrees,
         Logging, Rotating, Using, Quitting, IsOpen
<1>3. ClosedFileUsedAfterSignal'
  BY DEF ClosedFileUsedAfterSignal
<1>4. NameInv'
  BY DEF LogTypeOK, NameInv
<1>5. SizeInv'
  BY DEF LogTypeOK, SizeInv, IsSmall, LinesOf
<1> QED
  BY <1>1, <1>2, <1>3, <1>4, <1>5

LEMMA HandleSignalKeepsInv ==
    ASSUME LogInv, HandleSignal
    PROVE  LogInv'
<1> USE DEF LogInv, HandleSignal, At, Goto, Read, Drop, confVars, nameVars, fileVars, countVars
<1>1. LogTypeOK'
  BY LogAssumption DEF LogTypeOK, Labels, Using, Files
<1>2. StreamInv'
  BY DEF LogTypeOK, Files, StreamInv, MainAgrees, HandlerAgrees, HeldAgrees, StderrAgrees,
         Logging, Rotating, Using, Quitting, IsOpen
<1>3. ClosedFileUsedAfterSignal'
  BY DEF ClosedFileUsedAfterSignal
<1>4. NameInv'
  BY DEF LogTypeOK, NameInv
<1>5. SizeInv'
  BY DEF LogTypeOK, SizeInv, IsSmall, LinesOf
<1> QED
  BY <1>1, <1>2, <1>3, <1>4, <1>5

LEMMA PrintKeepsInv ==
    ASSUME LogInv, NEW a \in Activations, FindOutput(a)
    PROVE  LogInv'
<1> USE DEF LogInv, FindOutput, At, Goto, Read, Drop, confVars, nameVars, fileVars, countVars
<1>1. LogTypeOK'
  BY LogAssumption DEF LogTypeOK, Labels, Using, Files, Output
<1>2. StreamInv'
  <2>1. Output # Null
    BY DEF Output
  <2>2. stream # Null => Output = stream
    BY DEF Output
  <2>3. stream = Null => Output = Stderr
    BY DEF Output
  <2>4. CASE a = "main"
    <3>1. stream' = stream
      BY <2>2, <2>4 DEF StreamInv, MainAgrees, HandlerAgrees, Logging, Rotating
    <3> QED
      BY <2>1, <2>2, <2>4, <3>1 DEF LogTypeOK, StreamInv, MainAgrees, HandlerAgrees,
         HeldAgrees, StderrAgrees, Logging, Rotating, Using, Quitting, IsOpen
  <2>5. CASE a = "handler" /\ stream # Null
    BY <2>2, <2>5 DEF LogTypeOK, StreamInv, MainAgrees, HandlerAgrees,
       HeldAgrees, StderrAgrees, Logging, Rotating, Using, Quitting, IsOpen
  <2>6. CASE a = "handler" /\ stream = Null
    <3>1. pc["main"] \in Rotating
      BY <2>6 DEF LogTypeOK, StreamInv, MainAgrees, Logging, Rotating, Labels, Using
    <3>2. verbose /\ rotate_size > 0
      BY <2>6, <3>1 DEF StreamInv
    <3> QED
      BY <2>3, <2>6, <3>1, <3>2 DEF LogTypeOK, StreamInv, MainAgrees, HandlerAgrees,
         HeldAgrees, StderrAgrees, Logging, Rotating, Using, Quitting, IsOpen
  <2> QED
    BY <2>4, <2>5, <2>6
<1>3. ClosedFileUsedAfterSignal'
  BY DEF ClosedFileUsedAfterSignal
<1>4. NameInv'
  BY DEF LogTypeOK, NameInv, Output
<1>5. SizeInv'
  BY DEF LogTypeOK, SizeInv, IsSmall, LinesOf, Output
<1> QED
  BY <1>1, <1>2, <1>3, <1>4, <1>5

LEMMA PrintLineKeepsInv ==
    ASSUME LogInv, NEW a \in Activations, PrintLine(a)
    PROVE  LogInv'
<1> USE DEF LogInv, PrintLine, At, Goto, Read, Drop, confVars, nameVars, fileVars, countVars
<1>1. LogTypeOK'
  <2>1. held[a] \in (1..files) \cup {Stdout, Stderr}
    BY DEF LogTypeOK, Files, Uses, IsOpen
  <2>2. written' \in Seq((1..files) \cup {Stdout, Stderr})
    <3>1. written \in Seq((1..files) \cup {Stdout, Stderr})
      BY DEF LogTypeOK
    <3>2. Append(written, held[a]) \in Seq((1..files) \cup {Stdout, Stderr})
      BY ONLY <2>1, <3>1, AppendProperties
    <3>3. files' = files
      OBVIOUS
    <3> QED
      BY <3>2, <3>3
  <2> QED
    BY <2>2 DEF LogTypeOK, Labels, Using, Files
<1>2. StreamInv'
  BY DEF LogTypeOK, Files, StreamInv, MainAgrees, HandlerAgrees, HeldAgrees, StderrAgrees,
         Logging, Rotating, Using, Quitting, IsOpen, Uses
<1>3. ClosedFileUsedAfterSignal'
  BY DEF ClosedFileUsedAfterSignal, Uses
<1>4. NameInv'
  BY DEF LogTypeOK, NameInv, Uses
<1>5. SizeInv'
  <2>1. CASE held[a] = named
    <3>1. stream = named \/ named = Null \/ named = Closed
      BY <2>1 DEF StreamInv, HeldAgrees, Using, Uses, IsOpen
    <3>2. stream' = stream /\ named' = named /\ named \in Nat /\ pc'[a] = "flush"
      BY DEF LogTypeOK
    <3> QED
      BY <3>1, <3>2 DEF SizeInv
  <2>2. CASE held[a] # named
    <3>1. written \in Seq((1..files) \cup {Stdout, Stderr}) /\ named' = named
      BY DEF LogTypeOK
    <3>2. held[a] \in (1..files) \cup {Stdout, Stderr}
      BY DEF LogTypeOK, Files, Uses, IsOpen
    <3>3. /\ Len(written') = Len(written) + 1
          /\ \A i \in 1..Len(written) : written'[i] = written[i]
          /\ written'[Len(written) + 1] = held[a]
          /\ written' \in Seq((1..files) \cup {Stdout, Stderr})
      BY ONLY <3>1, <3>2, AppendProperties, written' = Append(written, held[a])
    <3>4. /\ DOMAIN written = 1..Len(written) /\ Len(written) \in Nat
          /\ DOMAIN written' = 1..(Len(written) + 1)
      BY <3>1, <3>3, LenProperties
    <3>5. LinesOf(named)' = LinesOf(named)
      BY <2>2, <3>1, <3>3, <3>4 DEF LinesOf
    <3>6. IsSmall(named)' = IsSmall(named)
      BY <3>5 DEF IsSmall
    <3>7. /\ \A b \in Activations \ {a} : pc'[b] = pc[b]
          /\ pc[a] = "write" /\ pc'[a] = "flush"
          /\ UNCHANGED <<rotate_size, mayFail, named, stream>>
      BY DEF LogTypeOK, Uses
    <3> QED
      BY <3>6, <3>7 DEF SizeInv
  <2> QED
    BY <2>1, <2>2
<1> QED
  BY <1>1, <1>2, <1>3, <1>4, <1>5

LEMMA FlushKeepsInv ==
    ASSUME LogInv, NEW a \in Activations, Flush(a)
    PROVE  LogInv'
<1> USE DEF LogInv, Flush, At, Goto, Read, Drop, confVars, nameVars, fileVars, countVars
<1>1. LogTypeOK'
  BY LogAssumption DEF LogTypeOK, Labels, Using, Files, Uses
<1>2. StreamInv'
  BY DEF LogTypeOK, Files, StreamInv, MainAgrees, HandlerAgrees, HeldAgrees, StderrAgrees,
         Logging, Rotating, Using, Quitting, IsOpen, Uses
<1>3. ClosedFileUsedAfterSignal'
  BY DEF ClosedFileUsedAfterSignal, Uses
<1>4. NameInv'
  BY DEF LogTypeOK, NameInv, Uses
<1>5. SizeInv'
  BY DEF LogTypeOK, SizeInv, IsSmall, LinesOf, Uses
<1> QED
  BY <1>1, <1>2, <1>3, <1>4, <1>5

LEMMA CheckKeepsInv ==
    ASSUME LogInv, NEW a \in Activations, Check(a)
    PROVE  LogInv'
<1> USE DEF LogInv, Check, At, Goto, Read, Drop, confVars, nameVars, fileVars, countVars
<1>1. LogTypeOK'
  BY LogAssumption DEF LogTypeOK, Labels, Using, Files
<1>2. StreamInv'
  BY DEF LogTypeOK, Files, StreamInv, MainAgrees, HandlerAgrees, HeldAgrees, StderrAgrees,
         Logging, Rotating, Using, Quitting, IsOpen
<1>3. ClosedFileUsedAfterSignal'
  BY DEF ClosedFileUsedAfterSignal
<1>4. NameInv'
  BY DEF LogTypeOK, NameInv
<1>5. SizeInv'
  BY DEF LogTypeOK, SizeInv, IsSmall, LinesOf
<1> QED
  BY <1>1, <1>2, <1>3, <1>4, <1>5

LEMMA AskSizeKeepsInv ==
    ASSUME LogInv, NEW a \in Activations, AskSize(a)
    PROVE  LogInv'
<1> USE DEF LogInv, AskSize, At, Goto, Read, Drop, confVars, nameVars, fileVars, countVars
<1>1. LogTypeOK'
  BY LogAssumption DEF LogTypeOK, Labels, Using, Files
<1>2. StreamInv'
  BY DEF LogTypeOK, Files, StreamInv, MainAgrees, HandlerAgrees, HeldAgrees, StderrAgrees,
         Logging, Rotating, Using, Quitting, IsOpen
<1>3. ClosedFileUsedAfterSignal'
  BY DEF ClosedFileUsedAfterSignal
<1>4. NameInv'
  BY DEF LogTypeOK, NameInv
<1>5. SizeInv'
  BY DEF LogTypeOK, SizeInv, IsSmall, LinesOf
<1> QED
  BY <1>1, <1>2, <1>3, <1>4, <1>5

LEMMA TellSizeKeepsInv ==
    ASSUME LogInv, NEW a \in Activations, TellSize(a)
    PROVE  LogInv'
<1> USE DEF LogInv, TellSize, At, Goto, Read, Drop, confVars, nameVars, fileVars, countVars
<1>1. LogTypeOK'
  BY LogAssumption DEF LogTypeOK, Labels, Using, Files, Uses, MayReachSize
<1>2. StreamInv'
  <2>1. /\ pc[a] = "tell" /\ pc'[a] \in {"idle", "close"} /\ IsOpen(held[a])
        /\ \A b \in Activations \ {a} : pc'[b] = pc[b] /\ held'[b] = held[b]
        /\ held'[a] = Null
        /\ UNCHANGED <<stream, shut, files, undefined, verbose, mayFail, rotate_size>>
        /\ a = "main" => pc["handler"] = "idle"
        /\ ~undefined
    BY DEF LogTypeOK, Uses
  <2> HIDE DEF TellSize
  <2>2. CASE a = "main"
    BY <2>1, <2>2 DEF LogTypeOK, StreamInv, MainAgrees, HandlerAgrees, HeldAgrees,
       StderrAgrees, Logging, Rotating, Using, Quitting, IsOpen
  <2>3. CASE a = "handler"
    BY <2>1, <2>3 DEF LogTypeOK, StreamInv, MainAgrees, HandlerAgrees, HeldAgrees,
       StderrAgrees, Logging, Rotating, Using, Quitting, IsOpen
  <2> QED
    BY <2>2, <2>3
<1>3. ClosedFileUsedAfterSignal'
  BY DEF ClosedFileUsedAfterSignal, Uses
<1>4. NameInv'
  BY DEF LogTypeOK, NameInv, Uses, MayReachSize
<1>5. SizeInv'
  <2>1. /\ UNCHANGED <<stream, written, rotate_size, mayFail, named>>
        /\ pc[a] = "tell" /\ pc'[a] \in {"idle", "close"}
        /\ \A b \in Activations \ {a} : pc'[b] = pc[b]
    BY DEF LogTypeOK, Uses
  <2>2. IsSmall(named)' = IsSmall(named)
    BY <2>1 DEF IsSmall, LinesOf
  <2>3. rotate_size > 0 /\ named # NoFile /\ ~IsSmall(named) /\ stream = named
            => pc'[a] = "close"
    <3> SUFFICES ASSUME rotate_size > 0, named # NoFile, ~IsSmall(named), stream = named
                 PROVE  pc'[a] = "close"
      OBVIOUS
    <3>1. held[a] = named
      BY DEF StreamInv, HeldAgrees, Using, Uses, IsOpen
    <3>2. Cardinality(LinesOf(named)) >= rotate_size
      BY LinesCounted DEF IsSmall, LogTypeOK
    <3>3. held[a] > NoFile
      BY <3>1 DEF LogTypeOK
    <3>4. MayReachSize(held[a]) = {Cardinality(LinesOf(held[a])) >= rotate_size}
      BY <3>3 DEF MayReachSize
    <3>5. \A reached \in MayReachSize(held[a]) : reached
      BY <3>1, <3>2, <3>4
    <3> QED
      BY <3>5 DEF LogTypeOK
  <2> QED
    BY <2>1, <2>2, <2>3 DEF SizeInv
<1> QED
  BY <1>1, <1>2, <1>3, <1>4, <1>5

LEMMA LogRotateKeepsInv ==
    ASSUME LogInv, NEW a \in Activations, LogRotate(a)
    PROVE  LogInv'
<1> USE DEF LogInv, LogRotate, At, Goto, Read, Drop, confVars, nameVars, fileVars, countVars
<1>1. LogTypeOK'
  BY LogAssumption DEF LogTypeOK, Labels, Using, Files
<1>2. StreamInv'
  BY DEF LogTypeOK, Files, StreamInv, MainAgrees, HandlerAgrees, HeldAgrees, StderrAgrees,
         Logging, Rotating, Using, Quitting, IsOpen
<1>3. ClosedFileUsedAfterSignal'
  BY DEF ClosedFileUsedAfterSignal
<1>4. NameInv'
  BY DEF LogTypeOK, NameInv
<1>5. SizeInv'
  BY DEF LogTypeOK, SizeInv, IsSmall, LinesOf
<1> QED
  BY <1>1, <1>2, <1>3, <1>4, <1>5

LEMMA CloseFileKeepsInv ==
    ASSUME LogInv, NEW a \in Activations, CloseFile(a)
    PROVE  LogInv'
<1> USE DEF LogInv, CloseFile, At, Goto, Read, Drop, confVars, nameVars, fileVars, countVars
<1>1. LogTypeOK'
  BY LogAssumption DEF LogTypeOK, Labels, Using, Files, Uses, Fclose
<1>2. StreamInv'
  BY DEF LogTypeOK, Files, StreamInv, MainAgrees, HandlerAgrees, HeldAgrees, StderrAgrees,
         Logging, Rotating, Using, Quitting, IsOpen, Uses, Fclose
<1>3. ClosedFileUsedAfterSignal'
  BY DEF ClosedFileUsedAfterSignal, Uses
<1>4. NameInv'
  BY DEF LogTypeOK, NameInv, Uses, Fclose
<1>5. SizeInv'
  BY DEF LogTypeOK, SizeInv, IsSmall, LinesOf, Uses, Fclose
<1> QED
  BY <1>1, <1>2, <1>3, <1>4, <1>5

LEMMA ForgetKeepsInv ==
    ASSUME LogInv, NEW a \in Activations, Forget(a)
    PROVE  LogInv'
<1> USE DEF LogInv, Forget, At, Goto, Read, Drop, confVars, nameVars, fileVars, countVars
<1>1. LogTypeOK'
  BY LogAssumption DEF LogTypeOK, Labels, Using, Files
<1>2. StreamInv'
  BY DEF LogTypeOK, Files, StreamInv, MainAgrees, HandlerAgrees, HeldAgrees, StderrAgrees,
         Logging, Rotating, Using, Quitting, IsOpen
<1>3. ClosedFileUsedAfterSignal'
  BY DEF ClosedFileUsedAfterSignal
<1>4. NameInv'
  BY DEF LogTypeOK, NameInv
<1>5. SizeInv'
  BY DEF LogTypeOK, SizeInv, IsSmall, LinesOf
<1> QED
  BY <1>1, <1>2, <1>3, <1>4, <1>5

LEMMA RenameKeepsInv ==
    ASSUME LogInv, NEW a \in Activations, Rename(a)
    PROVE  LogInv'
<1> USE DEF LogInv, Rename, At, Goto, Read, Drop, confVars, nameVars, fileVars, countVars
<1>1. LogTypeOK'
  <2>1. rotated' \in [0..MaxSeconds -> 0..files] /\ named' \in 0..files
    BY DEF LogTypeOK
  <2>2. overwritten' \subseteq 1..files
    <3>1. second[a] \in 0..MaxSeconds
      BY DEF LogTypeOK
    <3>2. rotated[second[a]] \in 0..files
      BY <3>1 DEF LogTypeOK
    <3>3. {rotated[second[a]]} \ {NoFile} \subseteq 1..files
      BY <3>2 DEF LogTypeOK
    <3> QED
      BY <3>3 DEF LogTypeOK
  <2> QED
    BY <2>1, <2>2 DEF LogTypeOK, Labels, Using, Files
<1>2. StreamInv'
  BY DEF LogTypeOK, Files, StreamInv, MainAgrees, HandlerAgrees, HeldAgrees, StderrAgrees,
         Logging, Rotating, Using, Quitting, IsOpen
<1>3. ClosedFileUsedAfterSignal'
  BY DEF ClosedFileUsedAfterSignal
<1>4. NameInv'
  <2>1. CASE UNCHANGED <<named, rotated, overwritten>>
    BY <2>1 DEF NameInv
  <2>2. CASE /\ rotated' = [rotated EXCEPT ![second[a]] = named]
             /\ overwritten' = overwritten \cup ({rotated[second[a]]} \ {NoFile})
             /\ named' = NoFile
    <3> SUFFICES ASSUME NEW f \in 1..files
                 PROVE  f \in overwritten' \/ \E s \in DOMAIN rotated' : rotated'[s] = f
      BY DEF NameInv
    <3>1. /\ second[a] \in DOMAIN rotated /\ DOMAIN rotated' = DOMAIN rotated
          /\ rotated'[second[a]] = named
          /\ \A s \in DOMAIN rotated \ {second[a]} : rotated'[s] = rotated[s]
      BY <2>2 DEF LogTypeOK
    <3>2. f # NoFile
      BY DEF LogTypeOK
    <3>3. f = named \/ f \in overwritten \/ \E s \in DOMAIN rotated : rotated[s] = f
      BY DEF NameInv
    <3>4. CASE f = named
      BY <3>1, <3>4
    <3>5. CASE f \in overwritten
      BY <2>2, <3>5
    <3>6. ASSUME NEW s \in DOMAIN rotated, rotated[s] = f
          PROVE  f \in overwritten' \/ \E r \in DOMAIN rotated' : rotated'[r] = f
      <4>1. CASE s = second[a]
        BY <2>2, <3>2, <3>6, <4>1
      <4>2. CASE s # second[a]
        BY <3>1, <3>6, <4>2
      <4> QED
        BY <4>1, <4>2
    <3> QED
      BY <3>3, <3>4, <3>5, <3>6
  <2> QED
    BY <2>1, <2>2
<1>5. SizeInv'
  BY DEF LogTypeOK, SizeInv, IsSmall, LinesOf
<1> QED
  BY <1>1, <1>2, <1>3, <1>4, <1>5

LEMMA OpenKeepsInv ==
    ASSUME LogInv, NEW a \in Activations, Open(a)
    PROVE  LogInv'
<1> USE DEF LogInv, Open, At, Goto, Read, Drop, confVars, nameVars, fileVars, countVars
<1>1. LogTypeOK'
  <2>1. files \in Nat /\ files' \in Nat /\ named' \in 0..files' /\ 1..files \subseteq 1..files'
    BY DEF LogTypeOK, OpenNamed
  <2>2. held' \in [Activations -> (1..files') \cup {Null, Closed, Stdout, Stderr}]
    <3>1. held' = [held EXCEPT ![a] = held'[a]]
      BY DEF LogTypeOK, OpenNamed
    <3>2. held'[a] = Null \/ (held'[a] = named' /\ named' # NoFile)
      BY DEF LogTypeOK, OpenNamed
    <3>3. PICK x : x = held'[a]
      OBVIOUS
    <3>4. x \in (1..files') \cup {Null, Closed, Stdout, Stderr}
      BY <2>1, <3>2, <3>3
    <3>5. held' = [held EXCEPT ![a] = x]
      BY <3>1, <3>3
    <3>6. held \in [Activations -> (1..files') \cup {Null, Closed, Stdout, Stderr}]
      BY <2>1 DEF LogTypeOK, Files
    <3> QED
      BY ONLY <3>4, <3>5, <3>6
  <2>3. /\ stream' \in Files' /\ rotated' \in [0..MaxSeconds -> 0..files']
        /\ overwritten' \subseteq 1..files'
    <3>1. 0..files \subseteq 0..files'
      BY <2>1 DEF LogTypeOK, OpenNamed
    <3> QED
      BY <2>1, <3>1 DEF LogTypeOK, Files
  <2>4. written' \in Seq((1..files') \cup {Stdout, Stderr})
    <3>1. (1..files) \cup {Stdout, Stderr} \subseteq (1..files') \cup {Stdout, Stderr}
      BY <2>1
    <3>2. written \in Seq((1..files) \cup {Stdout, Stderr})
      BY DEF LogTypeOK
    <3> QED
      BY <3>1, <3>2, SeqMonotone
  <2>5. pc' \in [Activations -> Labels]
    BY DEF LogTypeOK, Labels
  <2> QED
    BY <2>1, <2>2, <2>3, <2>4, <2>5 DEF LogTypeOK, Files
<1>2. StreamInv'
  <2>1. /\ pc[a] = "open" /\ pc' = [pc EXCEPT ![a] = "store"]
        /\ UNCHANGED <<stream, shut, undefined, verbose, mayFail, rotate_size>>
        /\ held' = [held EXCEPT ![a] = held'[a]]
        /\ (held'[a] = Null /\ mayFail) \/ held'[a] \in 1..files'
        /\ a = "main" => pc["handler"] = "idle"
        /\ ~undefined
    BY DEF LogTypeOK, OpenNamed
  <2>2. files' = 0 => files = 0
    BY DEF LogTypeOK, OpenNamed
  <2>3. files # 0
    BY <2>1 DEF StreamInv
  <2> HIDE DEF Open
  <2>4. \A b \in Activations : b # a => held'[b] = held[b] /\ pc'[b] = pc[b]
    BY <2>1 DEF LogTypeOK
  <2>5. pc'[a] = "store"
    BY <2>1 DEF LogTypeOK
  <2>6. 1..files \subseteq 1..files'
    BY DEF LogTypeOK, Open, OpenNamed
  <2> QED
    BY <2>1, <2>2, <2>3, <2>4, <2>5, <2>6 DEF LogTypeOK, StreamInv, MainAgrees,
       HandlerAgrees, HeldAgrees, StderrAgrees, Logging, Rotating, Using, Quitting, IsOpen
<1>3. ClosedFileUsedAfterSignal'
  BY DEF ClosedFileUsedAfterSignal
<1>4. NameInv'
  BY DEF LogTypeOK, NameInv, OpenNamed
<1>5. SizeInv'
  <2>1. /\ pc[a] = "open" /\ \A b \in Activations \ {a} : pc'[b] = pc[b]
        /\ UNCHANGED <<stream, written, rotate_size, mayFail>>
    BY DEF LogTypeOK
  <2>2. CASE named' = named
    <3>1. IsSmall(named)' = IsSmall(named)
      BY <2>1, <2>2 DEF IsSmall, LinesOf
    <3> QED
      BY <2>1, <2>2, <3>1 DEF SizeInv
  <2>3. CASE named' = files + 1
    <3>1. \A n \in DOMAIN written : written[n] # files + 1
      <4>1. \A n \in DOMAIN written : written[n] \in (1..files) \cup {Stdout, Stderr}
        BY ElementOfSeq, LenProperties DEF LogTypeOK
      <4> QED
        BY <4>1 DEF LogTypeOK
    <3>2. LinesOf(named)' = {}
      BY <2>1, <2>3, <3>1 DEF LinesOf
    <3>3. rotate_size > 0 => IsSmall(named)'
      BY <2>1, <3>2, FS_EmptySet DEF IsSmall, LogTypeOK
    <3> QED
      BY <2>1, <3>3 DEF SizeInv
  <2> QED
    BY <2>2, <2>3 DEF OpenNamed
<1> QED
  BY <1>1, <1>2, <1>3, <1>4, <1>5

LEMMA StoreKeepsInv ==
    ASSUME LogInv, NEW a \in Activations, Store(a)
    PROVE  LogInv'
<1> USE DEF LogInv, Store, At, Goto, Read, Drop, confVars, nameVars, fileVars, countVars
<1>1. LogTypeOK'
  BY LogAssumption DEF LogTypeOK, Labels, Using, Files
<1>2. StreamInv'
  <2>1. held[a] \in {Null} \cup 1..files /\ (held[a] = Null => mayFail)
    BY DEF StreamInv, HeldAgrees
  <2>2. files # 0 /\ rotate_size > 0
    BY DEF StreamInv, Rotating
  <2>3. held[a] \notin {Closed, Stdout, Stderr}
    BY <2>1 DEF LogTypeOK
  <2>4. CASE a = "main"
    BY <2>1, <2>2, <2>3, <2>4 DEF LogTypeOK, StreamInv, MainAgrees,
       HandlerAgrees, HeldAgrees, StderrAgrees, Logging, Rotating, Using, Quitting, IsOpen
  <2>5. CASE a = "handler"
    <3>1. stream = Null /\ pc["main"] \notin {"forget", "quit"}
      BY <2>5 DEF StreamInv, HandlerAgrees, Rotating
    <3>2. pc["main"] \in Using => held["main"] = Closed /\ verbose
      BY <2>5, <3>1 DEF StreamInv, HeldAgrees
    <3> QED
      BY <2>1, <2>2, <2>3, <2>5, <3>1, <3>2 DEF LogTypeOK, StreamInv, MainAgrees,
         HandlerAgrees, HeldAgrees, StderrAgrees, Logging, Rotating, Using, Quitting, IsOpen
  <2> QED
    BY <2>4, <2>5
<1>3. ClosedFileUsedAfterSignal'
  BY DEF ClosedFileUsedAfterSignal
<1>4. NameInv'
  BY DEF LogTypeOK, NameInv
<1>5. SizeInv'
  <2>1. /\ pc[a] = "store" /\ pc'[a] \in {"default", "idle"}
        /\ \A b \in Activations \ {a} : pc'[b] = pc[b]
        /\ UNCHANGED <<named, written, rotate_size, mayFail>>
    BY DEF LogTypeOK
  <2>2. IsSmall(named)' = IsSmall(named)
    BY <2>1 DEF IsSmall, LinesOf
  <2>3. CASE a = "main"
    BY <2>1, <2>2, <2>3 DEF SizeInv
  <2>4. CASE a = "handler"
    <3>1. stream = Null /\ named # Null
      BY <2>4 DEF StreamInv, HandlerAgrees, Rotating, LogTypeOK
    <3> QED
      BY <2>1, <2>2, <2>4, <3>1 DEF SizeInv
  <2> QED
    BY <2>3, <2>4
<1> QED
  BY <1>1, <1>2, <1>3, <1>4, <1>5

LEMMA DefaultKeepsInv ==
    ASSUME LogInv, NEW a \in Activations, Default(a)
    PROVE  LogInv'
<1> USE DEF LogInv, Default, At, Goto, Read, Drop, confVars, nameVars, fileVars, countVars
<1>1. LogTypeOK'
  BY LogAssumption DEF LogTypeOK, Labels, Using, Files
<1>2. StreamInv'
  BY DEF LogTypeOK, Files, StreamInv, MainAgrees, HandlerAgrees, HeldAgrees, StderrAgrees,
         Logging, Rotating, Using, Quitting, IsOpen
<1>3. ClosedFileUsedAfterSignal'
  BY DEF ClosedFileUsedAfterSignal
<1>4. NameInv'
  BY DEF LogTypeOK, NameInv
<1>5. SizeInv'
  BY DEF LogTypeOK, SizeInv, IsSmall, LinesOf
<1> QED
  BY <1>1, <1>2, <1>3, <1>4, <1>5

LEMMA QuitKeepsInv ==
    ASSUME LogInv, Quit
    PROVE  LogInv'
<1> USE DEF LogInv, Quit, At, Goto, Read, Drop, confVars, nameVars, fileVars, countVars
<1>1. LogTypeOK'
  <2>1. held' \in [Activations -> Files]
    BY DEF LogTypeOK
  <2>2. pc' \in [Activations -> Labels]
    BY DEF LogTypeOK, Labels, Using
  <2> QED
    BY <2>1, <2>2 DEF LogTypeOK, Files
<1>2. StreamInv'
  BY DEF LogTypeOK, Files, StreamInv, MainAgrees, HandlerAgrees, HeldAgrees, StderrAgrees,
         Logging, Rotating, Using, Quitting, IsOpen
<1>3. ClosedFileUsedAfterSignal'
  BY DEF ClosedFileUsedAfterSignal
<1>4. NameInv'
  BY DEF LogTypeOK, NameInv
<1>5. SizeInv'
  BY DEF LogTypeOK, SizeInv, IsSmall, LinesOf
<1> QED
  BY <1>1, <1>2, <1>3, <1>4, <1>5

LEMMA CloseAtQuitKeepsInv ==
    ASSUME LogInv, CloseAtQuit
    PROVE  LogInv'
<1> USE DEF LogInv, CloseAtQuit, At, Goto, Read, Drop, confVars, nameVars, fileVars, countVars
<1>1. LogTypeOK'
  BY LogAssumption DEF LogTypeOK, Labels, Using, Files, Uses, Fclose
<1>2. StreamInv'
  BY DEF LogTypeOK, Files, StreamInv, MainAgrees, HandlerAgrees, HeldAgrees, StderrAgrees,
         Logging, Rotating, Using, Quitting, IsOpen, Uses, Fclose
<1>3. ClosedFileUsedAfterSignal'
  BY DEF ClosedFileUsedAfterSignal, Uses
<1>4. NameInv'
  BY DEF LogTypeOK, NameInv, Uses, Fclose
<1>5. SizeInv'
  BY DEF LogTypeOK, SizeInv, IsSmall, LinesOf, Uses, Fclose
<1> QED
  BY <1>1, <1>2, <1>3, <1>4, <1>5

LEMMA UseFreedKeepsInv ==
    ASSUME LogInv, NEW a \in Activations, UseFreed(a)
    PROVE  LogInv'
<1> USE DEF LogInv, UseFreed, At, Goto, Read, Drop, confVars, nameVars, fileVars, countVars
<1>1. LogTypeOK'
  BY LogAssumption DEF LogTypeOK, Labels, Using, Files
<1>2. StreamInv'
  BY DEF LogTypeOK, Files, StreamInv, MainAgrees, HandlerAgrees, HeldAgrees, StderrAgrees,
         Logging, Rotating, Using, Quitting, IsOpen
<1>3. ClosedFileUsedAfterSignal'
  <2>1. pc' = pc /\ held' = held /\ shut' = shut /\ UNCHANGED <<verbose, rotate_size, mayFail>>
    OBVIOUS
  <2>2. CASE a = "main"
    <3>1. pc["handler"] = "idle" /\ pc["main"] \in Using \cup Quitting
      BY <2>2 DEF Using, Quitting
    <3>2. MainAgrees /\ HeldAgrees /\ StderrAgrees
      BY <3>1 DEF StreamInv, Rotating
    <3>3. CASE pc["main"] \in Quitting
      <4>1. verbose
        BY <3>1, <3>2, <3>3 DEF HeldAgrees, MainAgrees, StderrAgrees, StreamInv, IsOpen,
           Using, Quitting, Logging, LogTypeOK, Files
      <4> QED
        BY <2>1, <3>3, <4>1 DEF ClosedFileUsedAfterSignal
    <3>4. CASE held["main"] = Closed
      BY <2>1, <3>1, <3>2, <3>3, <3>4 DEF ClosedFileUsedAfterSignal, HeldAgrees, MainAgrees,
         Logging, Using, Quitting
    <3>5. CASE pc["main"] \notin Quitting /\ held["main"] # Closed
      <4>1. held["main"] = stream /\ held["main"] # Null /\ held["main"] \in shut
        BY <2>2, <3>1, <3>2, <3>5 DEF HeldAgrees, IsOpen, Using, Quitting
      <4>2. stream = Stdout /\ Stdout \in shut
        BY <3>1, <3>2, <4>1 DEF StderrAgrees, LogTypeOK
      <4> QED
        BY <2>1, <4>2 DEF ClosedFileUsedAfterSignal, StreamInv
    <3> QED
      BY <3>3, <3>4, <3>5
  <2>3. CASE a = "handler"
    <3>1. verbose /\ HandlerAgrees /\ HeldAgrees /\ StderrAgrees
      BY <2>3 DEF StreamInv, Using
    <3>2. CASE pc["handler"] = "rename"
      BY <2>1, <3>1, <3>2 DEF ClosedFileUsedAfterSignal, Using
    <3>3. CASE pc["handler"] \in Using /\ ~IsOpen(held["handler"])
      <4>1. held["handler"] = stream /\ ~IsOpen(stream) /\ pc["handler"] \notin Quitting
        BY <3>1, <3>3 DEF HeldAgrees, StreamInv
      <4>2. pc["handler"] = "write" /\ stream # Null
        BY <3>1, <3>3, <4>1 DEF HandlerAgrees, Using, Quitting
      <4>3. MainAgrees
        BY <4>2 DEF StreamInv, Rotating
      <4>4. CASE stream = Closed
        <5>1. pc["main"] \in {"forget", "quit"}
          BY <4>3, <4>4 DEF MainAgrees, Logging, Rotating, LogTypeOK, Labels, Using
        <5>2. pc["main"] = "forget" => rotate_size > 0
          BY DEF StreamInv
        <5> QED
          BY <2>1, <3>1, <4>2, <5>1, <5>2 DEF ClosedFileUsedAfterSignal, Quitting
      <4>5. CASE stream = Stderr /\ Stderr \in shut
        BY <2>1, <3>1, <4>2, <4>5 DEF StderrAgrees, ClosedFileUsedAfterSignal, Rotating
      <4>6. CASE stream = Stdout /\ Stdout \in shut
        BY <2>1, <4>6 DEF StreamInv, ClosedFileUsedAfterSignal
      <4> QED
        BY <4>1, <4>2, <4>4, <4>5, <4>6 DEF IsOpen, LogTypeOK
    <3> QED
      BY <2>3, <3>2, <3>3
  <2> QED
    BY <2>2, <2>3
<1>4. NameInv'
  BY DEF LogTypeOK, NameInv
<1>5. SizeInv'
  BY DEF LogTypeOK, SizeInv, IsSmall, LinesOf
<1> QED
  BY <1>1, <1>2, <1>3, <1>4, <1>5

LEMMA TickKeepsInv ==
    ASSUME LogInv, Tick
    PROVE  LogInv'
<1> USE DEF LogInv, Tick, At, Goto, Read, Drop, confVars, nameVars, fileVars, countVars
<1>1. LogTypeOK'
  BY LogAssumption DEF LogTypeOK, Labels, Using, Files
<1>2. StreamInv'
  BY DEF LogTypeOK, Files, StreamInv, MainAgrees, HandlerAgrees, HeldAgrees, StderrAgrees,
         Logging, Rotating, Using, Quitting, IsOpen
<1>3. ClosedFileUsedAfterSignal'
  BY DEF ClosedFileUsedAfterSignal
<1>4. NameInv'
  BY DEF LogTypeOK, NameInv
<1>5. SizeInv'
  BY DEF LogTypeOK, SizeInv, IsSmall, LinesOf
<1> QED
  BY <1>1, <1>2, <1>3, <1>4, <1>5

THEOREM LogInvariant == Spec => []LogInv
<1>1. LogInv /\ [Next]_vars => LogInv'
  <2> SUFFICES ASSUME LogInv, [Next]_vars PROVE LogInv'
    OBVIOUS
  <2>1. CASE UNCHANGED vars
    BY <2>1 DEF vars, confVars, fileVars, nameVars, countVars, LogInv, LogTypeOK, Files,
         StreamInv, MainAgrees, HandlerAgrees, HeldAgrees, StderrAgrees, IsOpen,
         ClosedFileUsedAfterSignal, NameInv, SizeInv, IsSmall, LinesOf
  <2>2. CASE Log \/ HandleSignal \/ Quit \/ CloseAtQuit \/ Tick
    BY <2>2, LogKeepsInv, HandleSignalKeepsInv, QuitKeepsInv, CloseAtQuitKeepsInv,
       TickKeepsInv
  <2>3. ASSUME NEW a \in Activations, Logs(a) PROVE LogInv'
    BY <2>3, PrintKeepsInv, PrintLineKeepsInv, FlushKeepsInv, CheckKeepsInv,
       AskSizeKeepsInv, TellSizeKeepsInv DEF Logs
  <2>4. ASSUME NEW a \in Activations, Rotates(a) PROVE LogInv'
    BY <2>4, LogRotateKeepsInv, CloseFileKeepsInv, ForgetKeepsInv, RenameKeepsInv,
       OpenKeepsInv, StoreKeepsInv, DefaultKeepsInv DEF Rotates
  <2>5. ASSUME NEW a \in Activations, UseFreed(a) PROVE LogInv'
    BY <2>5, UseFreedKeepsInv
  <2> QED
    BY <2>1, <2>2, <2>3, <2>4, <2>5 DEF Next
<1> QED
  BY <1>1, LogInit, PTL DEF Spec

(* Every reachable state is type correct. *)
THEOREM LogTypeCorrect == Spec => []LogTypeOK
<1>1. LogInv => LogTypeOK
  BY DEF LogInv
<1> QED
  BY <1>1, LogInvariant, PTL

(* A FILE that fclose() has freed, or the freed name, is used in the listed  *)
(* ways only, each of which needs a signal that is logged.                 *)
THEOREM ClosedFileOnlyAfterSignal == Spec => []ClosedFileUsedAfterSignal
<1>1. LogInv => ClosedFileUsedAfterSignal
  BY DEF LogInv
<1> QED
  BY <1>1, LogInvariant, PTL

(* Between calls the file with the log's name is smaller than rotate_size.  *)
THEOREM LogRotatedInTime == Spec => []RotatedInTime
<1>1. LogInv => RotatedInTime
  BY DEF LogInv, SizeInv, RotatedInTime, IsSmall
<1> QED
  BY <1>1, LogInvariant, PTL

(* Every line is shown, in a file with a name, or in one that a rename has   *)
(* replaced.                                                               *)
THEOREM LinesLostOnlyByOverwriting == Spec => []LostOnlyByOverwriting
<1>1. LogInv => LostOnlyByOverwriting
  <2> SUFFICES ASSUME LogInv, NEW n \in DOMAIN written
               PROVE  n \in Found \/ written[n] \in overwritten
    BY DEF LostOnlyByOverwriting
  <2>1. written[n] \in (1..files) \cup {Stdout, Stderr}
    BY ElementOfSeq, LenProperties DEF LogInv, LogTypeOK
  <2>2. CASE written[n] \in 1..files
    BY <2>2 DEF LogInv, NameInv, Found
  <2>3. CASE written[n] \in {Stdout, Stderr}
    BY <2>3 DEF Found
  <2> QED
    BY <2>1, <2>2, <2>3
<1> QED
  BY <1>1, LogInvariant, PTL

=============================================================================
