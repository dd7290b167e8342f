----------------------------- MODULE ZipStream -----------------------------
(***************************************************************************)
(* The thread that writes a ZIP archive into the body of a response, the   *)
(* bounded channel between them and the client that drains it              *)
(* (src/src/io/result_builder.rs).                                         *)
(*                                                                         *)
(* What one write adds is a unit: the header of an entry, a piece of its   *)
(* data, its descriptor, its place in the central directory, or the end    *)
(* record.  Only the lengths of units and what they refer to are kept.     *)
(***************************************************************************)
EXTENDS Integers, Sequences, SequencesExt, Functions

CONSTANTS
    ChannelCapacity,   \* ZIP_STREAM_CHANNEL_CAPACITY
    ChunkSize,         \* ZIP_STREAM_CHUNK_SIZE
    UnitSize,          \* [kind of unit -> its length]
    MaxU32, MaxU16     \* the largest numbers a ZIP field holds

ASSUME ZipAssumption ==
    /\ ChannelCapacity \in Nat \ {0} /\ ChunkSize \in Nat \ {0}
    /\ UnitSize \in [{"local", "data", "descriptor", "central", "end"} -> Nat \ {0}]

VARIABLES
    thread,     \* the blocking task: idle, adding, finishing, failing, ended
    todo,       \* the units of the step the thread is at
    position,   \* bytes counted as written
    header,     \* header_offset of the entry being written
    entries,    \* the CentralDirectoryEntries
    buffer,     \* of ChannelZipWriter
    channel,    \* the items between thread and body
    client,     \* none, reading, complete, aborted or left
    received,   \* the units the client has
    lease       \* the ResultReadLease is held

writerVars == <<todo, position, header, entries, buffer>>
zipVars == <<thread, writerVars, channel, client, received, lease>>

Length(units) == SumFunction([i \in DOMAIN units |-> UnitSize[units[i].kind]])

Receiving == client = "reading"     \* the body, which owns the receiver, is alive

Local(name, src) == [kind |-> "local", name |-> name, src |-> src]
Data(name)       == [kind |-> "data", name |-> name]
Descriptor(name, n) == [kind |-> "descriptor", name |-> name, pieces |-> n]

(* add_reader: the units of one entry of n pieces. *)
EntryUnits(name, src, n) ==
    <<Local(name, src)>> \o [i \in 1..n |-> Data(name)] \o <<Descriptor(name, n)>>

(* write_central_directory_entry and write_end_of_central_directory. *)
DirectoryUnits ==
    [i \in DOMAIN entries |-> [kind |-> "central", name |-> entries[i].name, offset |-> entries[i].offset]]
    \o <<[kind |-> "end", count |-> Len(entries), offset |-> position]>>

ZipInit ==
    /\ thread = "idle" /\ client = "none" /\ lease = FALSE
    /\ todo = <<>> /\ position = 0 /\ header = 0 /\ entries = <<>> /\ buffer = <<>>
    /\ channel = <<>> /\ received = <<>>

-----------------------------------------------------------------------------
(* The thread.                                                             *)

(* The numbers of a unit must fit their fields. *)
UnitFits(u) ==
    CASE u.kind = "local"      -> position <= MaxU32
      [] u.kind = "descriptor" -> u.pieces * UnitSize["data"] <= MaxU32
      [] u.kind = "end"        -> u.count <= MaxU16 /\ position - u.offset <= MaxU32
      [] OTHER                 -> TRUE

(* Faulty: a closed body is no reason to stop. *)
SendChunkRegardless(units, next) ==
    /\ Len(channel) < ChannelCapacity
    /\ channel' = Append(channel, [ok |-> TRUE, units |-> units])
    /\ buffer' = <<>> /\ thread' = next

(* flush_buffer: the chunk waits for room, and fails once the body is gone. *)
SendChunk(units, next) ==
    \/ /\ Receiving /\ Len(channel) < ChannelCapacity
       /\ channel' = Append(channel, [ok |-> TRUE, units |-> units])
       /\ buffer' = <<>> /\ thread' = next
    \/ /\ ~Receiving
       /\ buffer' = <<>> /\ thread' = "failing"
       /\ UNCHANGED channel

(* write_counted, with what add_reader keeps of the entry before and after it. *)
Counted(u) ==
    /\ position' = position + UnitSize[u.kind]
    /\ header' = IF u.kind = "local" THEN position ELSE header
    /\ entries' = IF u.kind # "descriptor" THEN entries
                  ELSE Append(entries, [name |-> u.name, offset |-> header])

WriteUnit ==
    /\ thread \in {"adding", "finishing"} /\ todo # <<>>
    /\ UnitFits(Head(todo))
    /\ LET units == Append(buffer, Head(todo)) IN
       \/ /\ Length(units) < ChunkSize
          /\ buffer' = units
          /\ UNCHANGED <<thread, channel>>
       \/ /\ Length(units) >= ChunkSize
          /\ SendChunk(units, thread)
    /\ Counted(Head(todo))
    /\ todo' = Tail(todo)
    /\ UNCHANGED <<client, received, lease>>

(* A number does not fit, or the source of an entry cannot be opened or read. *)
WriteFails ==
    /\ thread \in {"adding", "finishing"} /\ todo # <<>>
    /\ ~UnitFits(Head(todo)) \/ Head(todo).kind \in {"local", "data"}
    /\ thread' = "failing"
    /\ UNCHANGED <<writerVars, channel, client, received, lease>>

FinishArchive ==
    /\ thread = "adding" /\ todo = <<>>
    /\ \/ position <= MaxU32 /\ thread' = "finishing" /\ todo' = DirectoryUnits
       \/ position > MaxU32  /\ thread' = "failing"   /\ todo' = <<>>
    /\ UNCHANGED <<position, header, entries, buffer, channel, client, received, lease>>

(* Faulty: what the last chunk lacks to be full is left in the buffer. *)
FlushArchiveNot ==
    /\ thread = "finishing" /\ todo = <<>>
    /\ thread' = "ended" /\ lease' = FALSE
    /\ UNCHANGED <<writerVars, channel, client, received>>

(* The last flush, and the end of the thread with its lease and its senders. *)
FlushArchive ==
    /\ thread = "finishing" /\ todo = <<>>
    /\ \/ buffer = <<>> /\ thread' = "ended" /\ UNCHANGED <<buffer, channel>>
       \/ buffer # <<>> /\ SendChunk(buffer, "ended")
    /\ lease' = (lease /\ thread' # "ended")
    /\ UNCHANGED <<todo, position, header, entries, client, received>>

(* The error follows the chunks already sent, unless nobody is there to read it. *)
SendError ==
    /\ thread = "failing"
    /\ \/ /\ Receiving /\ Len(channel) < ChannelCapacity
          /\ channel' = Append(channel, [ok |-> FALSE])
       \/ /\ ~Receiving /\ UNCHANGED channel
    /\ thread' = "ended" /\ lease' = FALSE
    /\ UNCHANGED <<writerVars, client, received>>

-----------------------------------------------------------------------------
(* The client, through the body.                                           *)

ClientReceives ==
    /\ Receiving /\ channel # <<>>
    /\ channel' = Tail(channel)
    /\ \/ /\ Head(channel).ok
          /\ received' = received \o Head(channel).units
          /\ UNCHANGED client
       \/ /\ ~Head(channel).ok
          /\ client' = "aborted"
          /\ UNCHANGED received
    /\ UNCHANGED <<thread, writerVars, lease>>

ClientSeesEnd ==
    /\ Receiving /\ channel = <<>> /\ thread = "ended"
    /\ client' = "complete"
    /\ UNCHANGED <<thread, writerVars, channel, received, lease>>

ClientLeaves ==
    /\ Receiving
    /\ client' = "left" /\ channel' = <<>>
    /\ UNCHANGED <<thread, writerVars, received, lease>>

Stream == WriteUnit \/ WriteFails \/ FlushArchive \/ SendError
Reader == ClientReceives \/ ClientSeesEnd \/ ClientLeaves

-----------------------------------------------------------------------------
(* A stream of units is an archive of the files named by want: every entry *)
(* is written once and whole, the directory at the end lists each of them  *)
(* at the offset its header really has, and the end record finds it.       *)
IsArchive(units, want) ==
    LET Of(kind) == {i \in DOMAIN units : units[i].kind = kind}
        At(i)    == Length(SubSeq(units, 1, i - 1))
        end      == units[Len(units)]
        first    == Len(units) - end.count
        Lists(c, i) == units[c].name = units[i].name /\ units[c].offset = At(i)
    IN  /\ units # <<>> /\ end.kind = "end" /\ first \in DOMAIN units /\ end.offset = At(first)
        /\ {units[i].name : i \in Of("local")} = want
        /\ \A i, j \in Of("local") : units[i].name = units[j].name => i = j
        /\ \A i \in 1..first - 1 : \E l \in Of("local"), k \in Of("descriptor") :
              l <= i /\ i <= k /\ SubSeq(units, l, k) = EntryUnits(units[l].name, units[l].src, units[k].pieces)
        /\ Of("central") = first..Len(units) - 1
        /\ \A c \in Of("central") : \E i \in Of("local") : Lists(c, i)
        /\ \A i \in Of("local") : \E c \in Of("central") : Lists(c, i)
=============================================================================
