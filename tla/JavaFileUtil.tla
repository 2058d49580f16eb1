------------------------------ MODULE JavaFileUtil ------------------------------
(***************************************************************************)
(* concatenateJavaFiles of lab5 (JavaFileUtil.java): the files of a          *)
(* directory whose names end in .java are written, one after the other and  *)
(* byte by byte, to a file of the same directory.                           *)
(*                                                                         *)
(* The directory is listed before that file is opened, and opening empties  *)
(* it.  If it is there from an earlier call and ends in .java itself, it is *)
(* among the files to be read: then the reading never reaches the end of a  *)
(* file that grows with every byte read, unless it comes first or all files *)
(* before it are empty.                                                     *)
(*                                                                         *)
(* The call throws if its argument is no directory, and if what ends in     *)
(* .java is a directory itself; then the file written stays as far as it    *)
(* had come.  Other errors of the disk are left out.                        *)
(***************************************************************************)
EXTENDS Integers, Sequences, FiniteSets, SequencesExt

CONSTANTS
  Sources,    \* names ending in .java in the directory, to begin with
  Outputs,    \* names the file to write may be given
  JavaOutputs,  \* those that end in .java
  Contents,   \* what a file may hold
  MaxBytes    \* bound: bytes written

\* What is assumed of the constants.
JavaFileUtilAssumption ==
  /\ Outputs \cap Sources = {} /\ IsFiniteSet(Sources)
  /\ JavaOutputs \subseteq Outputs
  /\ Contents \subseteq Seq(0 .. 255)
  /\ MaxBytes \in Nat

VARIABLES
  fileName,   \* the argument: the name of the file to write
  files,      \* the directory: what each file holds
  folders,    \* those of the names that are directories, and hold no bytes
  javaFiles,  \* the files still to be read, in the order of list()
  listed,     \* all of them, as list() gave them
  position,   \* bytes read of the first of them
  call        \* none, listed, copying, done or thrown

vars == <<fileName, files, folders, javaFiles, listed, position, call>>

\* The file may be there from an earlier call.
Init ==
  /\ fileName \in Outputs
  /\ \E names \in {Sources, Sources \cup {fileName}} : files \in [names -> Contents]
  /\ folders \in SUBSET {name \in Sources : files[name] = <<>>}
  /\ javaFiles = <<>> /\ listed = <<>> /\ position = 0
  /\ call = "none"

IsJava(name) == name \in Sources \cup JavaOutputs

\* The argument is no directory: nothing is done.
RefuseArgument ==
  /\ call = "none"
  /\ call' = "thrown"
  /\ UNCHANGED <<fileName, folders, files, javaFiles, listed, position>>

\* list() promises no order.
List ==
  /\ call = "none"
  /\ javaFiles' \in SetToSeqs({name \in DOMAIN files : IsJava(name)})
  /\ listed' = javaFiles'
  /\ call' = "listed"
  /\ UNCHANGED <<fileName, folders, files, position>>

\* Wrong on purpose: the file is opened for appending.
OpenAppending ==
  /\ call = "listed"
  /\ files' = [name \in DOMAIN files \cup {fileName} |->
                 IF name \in DOMAIN files THEN files[name] ELSE <<>>]
  /\ call' = "copying"
  /\ UNCHANGED <<fileName, folders, javaFiles, listed, position>>

Open ==
  /\ call = "listed"
  /\ files' = [name \in DOMAIN files \cup {fileName} |->
                 IF name = fileName THEN <<>> ELSE files[name]]
  /\ call' = "copying"
  /\ UNCHANGED <<fileName, folders, javaFiles, listed, position>>

AtEnd == position = Len(files[Head(javaFiles)])

CopyByte ==
  /\ call = "copying" /\ javaFiles # <<>>
  /\ ~AtEnd
  /\ Len(files[fileName]) < MaxBytes
  /\ files' = [files EXCEPT ![fileName] = Append(@, files[Head(javaFiles)][position + 1])]
  /\ position' = position + 1
  /\ UNCHANGED <<fileName, folders, javaFiles, listed, call>>

NextFile ==
  /\ call = "copying" /\ javaFiles # <<>> /\ Head(javaFiles) \notin folders
  /\ AtEnd
  /\ javaFiles' = Tail(javaFiles)
  /\ position' = 0
  /\ UNCHANGED <<fileName, folders, files, listed, call>>

\* FileInputStream takes no directory.
MeetFolder ==
  /\ call = "copying" /\ javaFiles # <<>> /\ Head(javaFiles) \in folders
  /\ call' = "thrown"
  /\ UNCHANGED <<fileName, folders, files, javaFiles, listed, position>>

Close ==
  /\ call = "copying" /\ javaFiles = <<>>
  /\ call' = "done"
  /\ UNCHANGED <<fileName, folders, files, javaFiles, listed, position>>

Next == RefuseArgument \/ List \/ Open \/ CopyByte \/ NextFile \/ MeetFolder \/ Close

Spec == Init /\ [][Next]_vars

\* Types; the position is within the file that is read.
TypeOK ==
  /\ fileName \in Outputs /\ DOMAIN files \in {Sources, Sources \cup {fileName}}
  /\ \A name \in Sources : files[name] \in Contents
  /\ \A name \in folders : name \in Sources /\ files[name] = <<>>
  /\ \A i \in DOMAIN listed : listed[i] \in DOMAIN files
  /\ Len(javaFiles) <= Len(listed)
  /\ javaFiles # <<>> => position \in 0 .. Len(files[Head(javaFiles)])
  /\ call \in {"none", "listed", "copying", "done", "thrown"}

\* When the call returns, the file holds the others one after the other, nothing
\* of what it held before and nothing twice.
Concatenated ==
  call = "done" =>
    files[fileName] =
      FlattenSeq([i \in DOMAIN listed |->
                    IF listed[i] = fileName THEN <<>> ELSE files[listed[i]]])
=============================================================================
