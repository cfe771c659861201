------------------------------ MODULE MiniFile ------------------------------
(***************************************************************************)
(* The buffered FILE functions of the node's own C library (minilib.c) as  *)
(* config.c uses them: fopen, fclose, fgets, fread, fwrite (fputs is       *)
(* fwrite of a string) and fprintf.  One process; fgets and fread advance  *)
(* by one loop iteration per step, since each of their read() calls may    *)
(* return less than it was asked for; the other functions are one step.    *)
(*                                                                         *)
(* buf holds what buf[buf_pos .. buf_len) holds in a stream opened for     *)
(* reading, and buf[0 .. buf_pos) in one opened for writing.  The disk     *)
(* never fills up: the library ignores what write() returns.               *)
(***************************************************************************)
EXTENDS Integers, Sequences

CONSTANTS
    Path,       \* the files
    Char,       \* the characters in them
    Newline,    \* "\n"
    InitDisk,   \* the contents the files may have at first
    MaxFiles,   \* MINI_MAX_FILES (8)
    BufSize,    \* MINI_FILE_BUFSZ (256)
    Data,       \* what the callers pass to fwrite and fputs
    Printed,    \* what the callers pass to fprintf: less than its 512 bytes
    Size,       \* the buffer sizes the callers pass to fgets
    Want,       \* the lengths the callers pass to fread
    MaxLength   \* bound: how long the writes make each file

Text == Seq(Char)
Slot == 1 .. MaxFiles

ASSUME MiniFileAssumption ==
    /\ Newline \in Char
    /\ InitDisk \subseteq [Path -> Text]
    /\ MaxFiles \in Nat
    /\ BufSize \in Nat \ {0}
    /\ Data \subseteq Text
    /\ Printed \subseteq Text
    /\ Size \subseteq Nat \ {0}
    /\ Want \subseteq Nat \ {0}
    /\ MaxLength \in [Path -> Nat]

VARIABLES
    disk,       \* per path: what has reached the file
    files,      \* per slot: _files[], or Free
    call,       \* the fgets or fread under way, or Idle
    reply       \* what the last call returned: NULL, or data

vars == <<disk, files, call, reply>>

Free == [in_use |-> FALSE]
Idle == [op |-> "none"]

Null == [null |-> TRUE, data |-> <<>>]
Answer(data) == [null |-> FALSE, data |-> data]

Init ==
    /\ disk \in InitDisk
    /\ files = [s \in Slot |-> Free]
    /\ call = Idle
    /\ reply = Null

Holds(s, path) == files[s].in_use /\ files[s].path = path
Writing(s) == files[s].in_use /\ files[s].mode = "w"
Reading(s) == files[s].in_use /\ files[s].mode = "r"

\* What the descriptor of a stream has still to deliver.
Rest(s) == Len(disk[files[s].path]) - files[s].pos

AppendTo(path, data) == [disk EXCEPT ![path] = @ \o data]

(***************************************************************************)
(* fopen and fclose.                                                       *)
(***************************************************************************)

\* What open() makes of the file: O_TRUNC empties it.
Opened(path, mode) ==
    IF mode = "w" THEN [disk EXCEPT ![path] = <<>>] ELSE disk

\* The first slot not in use.
FirstFree(s) ==
    /\ ~files[s].in_use
    /\ \A t \in Slot : t < s => files[t].in_use

\* config.c has a path open once at a time.
MayOpen(path) == call = Idle /\ \A s \in Slot : ~Holds(s, path)

\* style: a caller uses a stream it writes for fprintf (config_write_ifup), or
\* for fputs and fwrite (the saves), never for both.
fopen(path, mode, style) ==
    /\ MayOpen(path)
    /\ \E s \in Slot :
          /\ FirstFree(s)
          /\ files' = [files EXCEPT ![s] =
                         [in_use |-> TRUE, path |-> path, mode |-> mode,
                          pos |-> 0, buf |-> <<>>, style |-> style]]
    /\ disk' = Opened(path, mode)
    /\ reply' = Answer(<<>>)
    /\ UNCHANGED call

\* open() fails, or has emptied the file before there turns out to be no slot.
fopen_fails(path, mode) ==
    /\ MayOpen(path)
    /\ \/ disk' = disk
       \/ (\A s \in Slot : files[s].in_use) /\ disk' = Opened(path, mode)
    /\ reply' = Null
    /\ UNCHANGED <<files, call>>

fclose(s) ==
    /\ call = Idle
    /\ files[s].in_use
    /\ disk' = IF files[s].mode = "w" THEN AppendTo(files[s].path, files[s].buf)
                                      ELSE disk
    /\ files' = [files EXCEPT ![s] = Free]
    /\ reply' = Answer(<<>>)
    /\ UNCHANGED call

\* What the callers take a file to hold: also what is still in the buffer of
\* the stream that writes it.
Content(path) ==
    IF \E s \in Slot : Writing(s) /\ Holds(s, path)
    THEN disk[path] \o files[CHOOSE s \in Slot : Holds(s, path)].buf
    ELSE disk[path]

(***************************************************************************)
(* fwrite and fprintf.                                                     *)
(***************************************************************************)

\* The bound MaxLength.
Fits(s, data) ==
    LET path == files[s].path
    IN  Len(Content(path)) + Len(data) <= MaxLength[path]

\* Mutant of Overflows: an off-by-one.
OverflowsLate(s, data) == Len(files[s].buf) + Len(data) > BufSize + 1

Overflows(s, data) == Len(files[s].buf) + Len(data) > BufSize

\* Mutant of Flushed: the buffer is cleared but not written out.
FlushedNever(s, data) == <<>>

\* What fwrite writes out of the buffer before it takes the data.
Flushed(s, data) == IF Overflows(s, data) THEN files[s].buf ELSE <<>>

\* The buffer is written out when the data do not fit behind its contents; data
\* longer than the buffer are written directly.
fwrite(s, data) ==
    /\ call = Idle
    /\ Writing(s)
    /\ files[s].style = "buffered"
    /\ Fits(s, data)
    /\ LET flushed == Flushed(s, data)
           kept == IF Overflows(s, data) THEN <<>> ELSE files[s].buf
       IN  IF Len(data) > BufSize
           THEN /\ disk' = AppendTo(files[s].path, flushed \o data)
                /\ files' = [files EXCEPT ![s].buf = kept]
           ELSE /\ disk' = AppendTo(files[s].path, flushed)
                /\ files' = [files EXCEPT ![s].buf = kept \o data]
    /\ reply' = Answer(<<>>)
    /\ UNCHANGED call

\* Past the buffer.
fprintf(s, data) ==
    /\ call = Idle
    /\ Writing(s)
    /\ files[s].style = "printed"
    /\ Fits(s, data)
    /\ disk' = AppendTo(files[s].path, data)
    /\ reply' = Answer(<<>>)
    /\ UNCHANGED <<files, call>>

(***************************************************************************)
(* fgets and fread, one loop iteration per step.                           *)
(***************************************************************************)

Begin(op, s, want) ==
    /\ call = Idle
    /\ Reading(s)
    /\ call' = [op |-> op, s |-> s, want |-> want, got |-> <<>>]
    /\ UNCHANGED <<disk, files, reply>>

fgets(s, size) == Begin("fgets", s, size - 1)
fread(s, want) == Begin("fread", s, want)

\* Has the call all it is going to return, apart from the end of the file?
Enough ==
    \/ Len(call.got) >= call.want
    \/ /\ call.op = "fgets"
       /\ Len(call.got) > 0
       /\ call.got[Len(call.got)] = Newline

Busy == call # Idle
Buffered == files[call.s].buf

\* A character that is in the buffer.
Take ==
    /\ Busy
    /\ ~Enough
    /\ Buffered # <<>>
    /\ call' = [call EXCEPT !.got = @ \o <<Head(Buffered)>>]
    /\ files' = [files EXCEPT ![call.s].buf = Tail(@)]
    /\ UNCHANGED <<disk, reply>>

\* The bytes a read() call for at most n bytes may deliver.
Deliveries(n) ==
    LET pos == files[call.s].pos
    IN  {SubSeq(disk[files[call.s].path], pos + 1, pos + k) :
            k \in {k \in 1 .. Rest(call.s) : k <= n}}

\* fgets refills an empty buffer.
Refill ==
    /\ Busy
    /\ call.op = "fgets"
    /\ ~Enough
    /\ Buffered = <<>>
    /\ \E data \in Deliveries(BufSize) :
          files' = [files EXCEPT ![call.s].buf = data,
                                 ![call.s].pos = @ + Len(data)]
    /\ UNCHANGED <<disk, call, reply>>

\* fread goes past the buffer once it has drained it.
ReadDirectly ==
    /\ Busy
    /\ call.op = "fread"
    /\ ~Enough
    /\ Buffered = <<>>
    /\ \E data \in Deliveries(call.want - Len(call.got)) :
          /\ call' = [call EXCEPT !.got = @ \o data]
          /\ files' = [files EXCEPT ![call.s].pos = @ + Len(data)]
    /\ UNCHANGED <<disk, reply>>

\* Mutant of AtEnd: a read() that returns nothing does not end the loop.
AtEndNever == FALSE

\* The end of the file.  That a read() fails (n < 0) is left out: it ends the
\* call in the same way, before the end.
AtEnd == Buffered = <<>> /\ Rest(call.s) = 0

\* fgets returns NULL when it has no character.
Return ==
    /\ Busy
    /\ Enough \/ AtEnd
    /\ reply' = IF call.op = "fgets" /\ call.got = <<>> THEN Null
                                                       ELSE Answer(call.got)
    /\ call' = Idle
    /\ UNCHANGED <<disk, files>>

(***************************************************************************)
(* The specification.                                                      *)
(***************************************************************************)

\* The process is killed, and another one starts.
Killed ==
    /\ files' = [s \in Slot |-> Free]
    /\ call' = Idle
    /\ reply' = Null
    /\ UNCHANGED disk

Iterate == Take \/ Refill \/ ReadDirectly \/ Return

Next ==
    \/ \E path \in Path :
          \/ fopen(path, "r", "read")
          \/ \E style \in {"buffered", "printed"} : fopen(path, "w", style)
          \/ \E mode \in {"r", "w"} : fopen_fails(path, mode)
    \/ \E s \in Slot :
          \/ fclose(s)
          \/ \E data \in Data : fwrite(s, data)
          \/ \E data \in Printed : fprintf(s, data)
          \/ \E size \in Size : fgets(s, size)
          \/ \E want \in Want : fread(s, want)
    \/ Iterate
    \/ Killed

Spec == Init /\ [][Next]_vars

\* A call that has begun runs on.
FairSpec == Spec /\ WF_vars(Iterate)

(***************************************************************************)
(* Properties.                                                             *)
(***************************************************************************)

Style == {"read", "buffered", "printed"}

File == [in_use : {TRUE}, path : Path, mode : {"r", "w"}, pos : Nat,
         buf : Text, style : Style]

Call == [op : {"fgets", "fread"}, s : Slot, want : Nat, got : Text]

\* Every variable keeps its type, and no buffer holds more than BufSize bytes:
\* the memcpy of fwrite and the read() of fgets stay inside buf.
TypeOK ==
    /\ disk \in [Path -> Text]
    /\ files \in [Slot -> File \cup {Free}]
    /\ \A s \in Slot : files[s].in_use => Len(files[s].buf) <= BufSize
    /\ call \in Call \cup {Idle}
    /\ reply \in [null : BOOLEAN, data : Text]

\* Where the callers take a stream to stand: before what is still in its buffer
\* and what a call under way has taken out of it.
Position(s) ==
    IF Writing(s)
    THEN 0
    ELSE files[s].pos - Len(files[s].buf)
            - (IF Busy /\ call.s = s THEN Len(call.got) ELSE 0)

Stream(s) ==
    IF files[s].in_use
    THEN [in_use |-> TRUE, path |-> files[s].path, mode |-> files[s].mode,
          pos |-> Position(s)]
    ELSE Free

Plain == INSTANCE PlainFile
           WITH content <- [p \in Path |-> Content(p)],
                stream <- [s \in Slot |-> Stream(s)],
                Data <- Data \cup Printed

\* The buffers are not to be seen: lines and data come back whole and in order
\* however read() cuts them, what was written is in the file in order once the
\* stream is closed, and a killed process leaves a first part of it.
ImplementsPlain == Plain!Spec

\* Every call returns: the loops of fgets and fread end at the end of the file.
CallsReturn == Busy ~> ~Busy
=============================================================================
