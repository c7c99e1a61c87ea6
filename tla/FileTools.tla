------------------------------ MODULE FileTools ------------------------------
(***************************************************************************)
(* read_file and write_file (tools/file_tool.cpp) on one path.  Every tool   *)
(* call has its own tool object, so the only thing calls share is the file   *)
(* system; the callers are agents that run side by side, and commands of    *)
(* the exec tool or other programs change the file as well.                  *)
(***************************************************************************)
EXTENDS Naturals, Sequences

CONSTANTS
  Callers,
  Inodes,              \* the files that have or get the path's name
  None, Directory,     \* what the path names instead
  MaxReadBytes,        \* FileToolConfig::max_read_bytes
  CreateParents,       \* FileToolConfig::create_parent_directories
  MaxCalls, MaxEdits   \* bounds: calls per caller, changes by others

VARIABLES
  path,       \* the inode of the path, None or Directory
  data,       \* data[i]: the bytes of inode i, each a record of who wrote it
  parent,     \* the parent directory exists
  pc, mode,   \* where a caller is in execute(); "read", "write" or "append"
  handle,     \* what the caller's stream is open on
  buffer,     \* bytes in the stream's buffer
  good,       \* the state of the output stream
  output,     \* bytes read so far
  result,     \* of the latest call: "none", "ok" or "failed"
  calls, edits,
  before,     \* history: the bytes of the file when the caller opened it
  alone,      \* history: nobody else changed the file since the call began
  overwritten \* history: since the caller appended, a "write" was under way,
              \* or the path got another file

fileVars == <<path, data, parent>>
streamVars == <<handle, buffer, good, output>>
historyVars == <<before, alone, overwritten>>
vars == <<fileVars, pc, mode, streamVars, result, calls, edits, historyVars>>

Byte(c) == [by |-> c, call |-> calls[c]]
Content(c) == <<Byte(c), Byte(c)>>
Bytes(p) == IF p \in Inodes THEN data[p] ELSE <<>>
Writing(c) == pc[c] \in {"put", "close"} /\ mode[c] = "write"
Free == Inodes \ ({path} \cup {handle[c] : c \in {d \in Callers : pc[d] # "idle"}})

Init ==
  /\ data = [i \in Inodes |-> <<>>]
  /\ parent \in BOOLEAN
  /\ path \in IF parent THEN {None, CHOOSE i \in Inodes : TRUE} ELSE {None}
  /\ pc = [c \in Callers |-> "idle"] /\ mode = [c \in Callers |-> "read"]
  /\ handle = [c \in Callers |-> None] /\ buffer = [c \in Callers |-> <<>>]
  /\ good = [c \in Callers |-> TRUE] /\ output = [c \in Callers |-> <<>>]
  /\ result = [c \in Callers |-> "none"]
  /\ calls = [c \in Callers |-> 0] /\ edits = 0
  /\ before = [c \in Callers |-> <<>>]
  /\ alone = [c \in Callers |-> TRUE] /\ overwritten = [c \in Callers |-> FALSE]

(* c returns a ToolResult; leaving the scope closes its stream.             *)
Return(c, outcome) ==
  /\ result' = [result EXCEPT ![c] = outcome]
  /\ pc' = [pc EXCEPT ![c] = "idle"]

Goto(c, place) == pc' = [pc EXCEPT ![c] = place] /\ UNCHANGED result

(* Notes that c, or someone who is not a caller, changed the file.          *)
Changed(c) == alone' = [d \in Callers |-> alone[d] /\ d = c]

-----------------------------------------------------------------------------
(* Arguments are checked and the path is resolved; a call with an argument  *)
(* missing or a path outside the root ends here.                            *)
Begin(c) ==
  /\ pc[c] = "idle" /\ calls[c] < MaxCalls
  /\ calls' = [calls EXCEPT ![c] = @ + 1]
  /\ \E m \in {"read", "write", "append"} :
       /\ mode' = [mode EXCEPT ![c] = m]
       /\ \/ Goto(c, IF m = "read" THEN "inspect" ELSE "parent")
          \/ Return(c, "failed")
  /\ handle' = [handle EXCEPT ![c] = None] /\ good' = [good EXCEPT ![c] = TRUE]
  /\ buffer' = [buffer EXCEPT ![c] = <<>>] /\ output' = [output EXCEPT ![c] = <<>>]
  /\ alone' = [alone EXCEPT ![c] = TRUE]
  /\ overwritten' = [overwritten EXCEPT ![c] = FALSE]
  /\ before' = [before EXCEPT ![c] = <<>>]
  /\ UNCHANGED <<fileVars, edits>>

(* is_regular_file                                                          *)
Inspect(c) ==
  /\ pc[c] = "inspect"
  /\ IF path \in Inodes THEN Goto(c, "measure") ELSE Return(c, "failed")
  /\ UNCHANGED <<fileVars, mode, streamVars, calls, edits, historyVars>>

(* file_size                                                                *)
Measure(c) ==
  /\ pc[c] = "measure"
  /\ IF path \in Inodes /\ Len(Bytes(path)) <= MaxReadBytes
       THEN Goto(c, "open") ELSE Return(c, "failed")
  /\ UNCHANGED <<fileVars, mode, streamVars, calls, edits, historyVars>>

(* An ifstream opens directories, too.                                      *)
OpenRead(c) ==
  /\ pc[c] = "open" /\ mode[c] = "read"
  /\ handle' = [handle EXCEPT ![c] = path]
  /\ \/ path # None /\ Goto(c, "read")
     \/ Return(c, "failed")
  /\ UNCHANGED <<fileVars, mode, buffer, good, output, calls, edits, historyVars>>

AtEnd(c) == Len(output[c]) >= Len(Bytes(handle[c]))

ReadSome(c) ==
  /\ pc[c] = "read" /\ handle[c] \in Inodes /\ ~AtEnd(c)
  /\ output' = [output EXCEPT ![c] = Append(@, data[handle[c]][Len(@) + 1])]
  /\ UNCHANGED <<fileVars, pc, mode, handle, buffer, good, result, calls, edits,
                 historyVars>>

(* The end of the file, or an error of read(): contents << input.rdbuf()    *)
(* records an error in contents, and input.bad() stays false.               *)
ReadEnds(c) ==
  /\ pc[c] = "read"
  /\ \/ AtEnd(c)
     \/ TRUE             \* EISDIR, EIO
  /\ Return(c, "ok")
  /\ UNCHANGED <<fileVars, mode, streamVars, calls, edits, historyVars>>

-----------------------------------------------------------------------------
PrepareParent(c) ==
  /\ pc[c] = "parent"
  /\ \/ parent /\ Goto(c, "open") /\ UNCHANGED parent
     \/ ~parent /\ CreateParents /\ parent' = TRUE /\ Goto(c, "open")
     \/ Return(c, "failed") /\ UNCHANGED parent
  /\ UNCHANGED <<path, data, mode, streamVars, calls, edits, historyVars>>

(* ofstream with trunc or app.  It fails for a directory, and may fail      *)
(* otherwise (permissions).                                                 *)
OpenWrite(c) ==
  /\ pc[c] = "open" /\ mode[c] # "read"
  /\ \/ /\ path # Directory
        /\ path' \in IF path \in Inodes THEN {path} ELSE Free
        /\ data' = IF path = None \/ mode[c] = "write"
                     THEN [data EXCEPT ![path'] = <<>>] ELSE data
        /\ handle' = [handle EXCEPT ![c] = path']
        /\ before' = [before EXCEPT ![c] = data'[path']]
        /\ Changed(c)
        /\ overwritten' = [d \in Callers |->
                            overwritten[d] \/ (d # c /\ mode[c] = "write")]
        /\ Goto(c, "put")
     \/ /\ Return(c, "failed")
        /\ UNCHANGED <<path, data, handle, historyVars>>
  /\ UNCHANGED <<parent, mode, buffer, good, output, calls, edits>>

WrittenAtOpenEnd(c, bytes) ==      \* appended where the end was when c opened
  LET old == data[handle[c]]
      start == IF mode[c] = "append" /\ Len(before[c]) <= Len(old)
                 THEN Len(before[c]) ELSE 0
  IN SubSeq(old, 1, start) \o bytes \o SubSeq(old, start + Len(bytes) + 1, Len(old))

(* The file once bytes have reached it: O_APPEND puts them at the end,      *)
(* trunc at the start, over what others have written there by then.         *)
Written(c, bytes) ==
  LET old == data[handle[c]]
  IN IF mode[c] = "append" THEN old \o bytes
     ELSE bytes \o SubSeq(old, Len(bytes) + 1, Len(old))

(* The first bytes of what is handed to the file system get there; fewer    *)
(* than all of them is an error (a full disk).                              *)
Flush(c, bytes) ==
  \E n \in 0..Len(bytes) :
    /\ data' = [data EXCEPT ![handle[c]] = Written(c, SubSeq(bytes, 1, n))]
    /\ \/ good' = [good EXCEPT ![c] = @ /\ n = Len(bytes)]
       \/ good' = [good EXCEPT ![c] = FALSE]
    /\ Changed(c)
    /\ overwritten' = [overwritten EXCEPT ![c] =
                         handle[c] # path \/ \E d \in Callers \ {c} : Writing(d)]

(* output.write: a short text stays in the buffer.                          *)
Put(c) ==
  /\ pc[c] = "put"
  /\ \/ /\ buffer' = [buffer EXCEPT ![c] = Content(c)]
        /\ UNCHANGED <<data, good, alone, overwritten>>
     \/ Flush(c, Content(c)) /\ UNCHANGED buffer
  /\ Goto(c, "close")
  /\ UNCHANGED <<path, parent, mode, handle, output, calls, edits, before>>

CloseUnchecked(c) ==               \* good() is asked before close()
  /\ pc[c] = "close"
  /\ IF buffer[c] # <<>> THEN Flush(c, buffer[c])
     ELSE UNCHANGED <<data, good, alone, overwritten>>
  /\ Return(c, IF good[c] THEN "ok" ELSE "failed")
  /\ UNCHANGED <<path, parent, mode, handle, buffer, output, calls, edits, before>>

(* output.close writes what is in the buffer; then the stream is tested.    *)
Close(c) ==
  /\ pc[c] = "close"
  /\ IF buffer[c] # <<>> THEN Flush(c, buffer[c])
     ELSE UNCHANGED <<data, good, alone, overwritten>>
  /\ Return(c, IF good'[c] THEN "ok" ELSE "failed")
  /\ UNCHANGED <<path, parent, mode, handle, buffer, output, calls, edits, before>>

-----------------------------------------------------------------------------
(* Others append to the file, remove it, or put a directory in its place.   *)
Edit ==
  /\ edits < MaxEdits /\ edits' = edits + 1
  /\ path \in Inodes
  /\ \/ /\ data' = [data EXCEPT ![path] = Append(@, [by |-> None, call |-> edits])]
        /\ UNCHANGED <<path, overwritten>>
     \/ /\ path' \in {None, Directory}
        /\ overwritten' = [c \in Callers |-> TRUE]
        /\ UNCHANGED data
  /\ alone' = [c \in Callers |-> FALSE]
  /\ UNCHANGED <<parent, pc, mode, streamVars, result, calls, before>>

Step(c) ==
  \/ Begin(c) \/ Inspect(c) \/ Measure(c) \/ OpenRead(c) \/ ReadSome(c)
  \/ ReadEnds(c) \/ PrepareParent(c) \/ OpenWrite(c) \/ Put(c) \/ Close(c)

Terminated == \A c \in Callers : pc[c] = "idle" /\ calls[c] = MaxCalls

Next == Edit \/ (\E c \in Callers : Step(c)) \/ (Terminated /\ UNCHANGED vars)

Spec == Init /\ [][Next]_vars

-----------------------------------------------------------------------------
Succeeded(c, modes) == pc[c] = "idle" /\ result[c] = "ok" /\ mode[c] \in modes

(* A write_file that reports success has stored its content: if nobody else *)
(* touched the file during the call or since, it holds exactly that, or what*)
(* was there and that after it.  The content may have waited in the buffer  *)
(* until close(), and the disk may have been full by then.  A read_file that*)
(* reports success, again of a file that is left alone, returns it from its *)
(* start and never more than max_read_bytes; not always all of it, for an   *)
(* error of the read itself goes unnoticed.                                 *)
SuccessIsStored ==
  \A c \in Callers : alone[c] =>
    /\ Succeeded(c, {"write", "append"}) =>
         /\ path \in Inodes
         /\ data[path] = (IF mode[c] = "append" THEN before[c] ELSE <<>>) \o Content(c)
    /\ Succeeded(c, {"read"}) =>
         /\ Len(output[c]) <= MaxReadBytes
         /\ output[c] = SubSeq(Bytes(path), 1, Len(output[c]))

(* Appending agents do not lose each other's content: what a successful     *)
(* append wrote stays in the file in one piece, wherever the appends of     *)
(* others and of other programs were interleaved with it, until someone     *)
(* overwrites the file.                                                     *)
AppendsAreKept ==
  \A c \in Callers : Succeeded(c, {"append"}) /\ ~overwritten[c] =>
    \E i \in 1..Len(Bytes(path)) - 1 :
      SubSeq(Bytes(path), i, i + 1) = Content(c)

=============================================================================
