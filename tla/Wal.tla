--------------------------------- MODULE Wal ---------------------------------
(***************************************************************************)
(* The write-ahead log of one collection (crates/logpose-wal): the writer  *)
(* with its group append, rollback, fence, rotation and removal of         *)
(* checkpointed files, and recovery with its fence check, durability       *)
(* barrier, tail repair, strict replay and hand-over to a writer, over a   *)
(* disk with a page cache.                                                 *)
(*                                                                         *)
(* Each system call that can fail or that a crash can follow with a        *)
(* different outcome is a step.  A file is a sequence of cells, one per    *)
(* frame; Torn is a cell that holds no complete checksummed frame.         *)
(*                                                                         *)
(* The disk follows the fault model the repository states for its          *)
(* fault-injecting file system (logpose-vfs/src/fault.rs): unsynced cells  *)
(* and truncations may or may not survive a crash, in any combination; a   *)
(* failed sync may have written some of them and marks all of them clean,  *)
(* so a later successful sync does not write them; directory entries are   *)
(* volatile until the directory is synced.                                 *)
(***************************************************************************)
EXTENDS Integers, Sequences, FiniteSets, SequencesExt

CONSTANTS
  Shapes,       \* the groups a caller appends: operations per frame, 0 for a
                \* checkpoint frame
  MaxSeq,       \* bound: highest sequence number
  MaxAttempts,  \* bound: groups handed to append_group
  MaxFaults,    \* bound: crashes, kills and I/O errors
  GroupMod,     \* modulus of the group counter, 2^32 in the code
  BarrierFaults \* whether the barrier's sync of a WAL file may fail

ASSUME ShapesAssumption == Shapes \subseteq Seq(Nat) \ {<< >>}
ASSUME BoundsAssumption ==
  /\ MaxSeq \in Nat /\ MaxAttempts \in Nat /\ MaxFaults \in Nat
  /\ GroupMod \in Nat \ {0}
  /\ BarrierFaults \in BOOLEAN

VARIABLES
  files,      \* the WAL files in the live directory, by first sequence number
  gone,       \* removed files whose removal is not yet durable, oldest first
  fence,      \* the FSYNC_FAILED marker
  phase,      \* where the process is, "down" if none has the log open
  ckpt,       \* checkpoint_seq_no of the durable manifest
  nextSeq,    \* WalWriter.next_seq_no
  nextGroup,  \* WalWriter.next_group_no
  hasData,    \* WalWriter.active_has_data
  synced,     \* WalWriter.synced_len, in cells of the active file
  log,        \* history: the operations callers were told about, by sequence number
  pending,    \* history: the operations of the group without an answer
  rejected,   \* history: the operations answered NotApplied
  attempts,   \* groups handed to append_group, the identity of an operation
  faults      \* faults so far

disk    == <<files, gone, fence>>
writer  == <<nextSeq, nextGroup, hasData, synced>>
history == <<log, pending, rejected, attempts>>
vars    == <<disk, phase, ckpt, writer, history, faults>>

-----------------------------------------------------------------------------
(* Frames and cells *)

Torn == [kind |-> "torn"]

DataFrame(group, first, last, end, op) ==
  [kind |-> "data", group |-> group, first |-> first, last |-> last, end |-> end, op |-> op]

CheckpointFrame(group, end) ==
  [kind |-> "ckpt", group |-> group, first |-> ckpt, last |-> ckpt, end |-> end, op |-> 0]

(* The members of a sequence at some of its positions, in order. *)
At(seq, positions) ==
  FlattenSeq([i \in DOMAIN seq |-> IF i \in positions THEN <<seq[i]>> ELSE << >>])

IsFrame(cell) == cell.kind # "torn"
IsData(cell)  == cell.kind = "data"

(* The operations a sequence of frames logs, in order: one entry per         *)
(* sequence number.                                                          *)
OpsOf(frames) ==
  FlattenSeq([i \in DOMAIN frames |->
    IF IsData(frames[i])
    THEN [n \in 1..(frames[i].last - frames[i].first + 1) |-> frames[i].op]
    ELSE << >>])

NextGroup(g) == (g + 1) % GroupMod

(* The frames of one group, numbered from the writer's counters. *)
GroupFrames(shape, op) ==
  LET opsBefore(i) == FoldLeft(+, 0, SubSeq(shape, 1, i - 1))
      frame(i) ==
        IF shape[i] = 0
        THEN CheckpointFrame(nextGroup, i = Len(shape))
        ELSE DataFrame(nextGroup, nextSeq + opsBefore(i),
                       nextSeq + opsBefore(i) + shape[i] - 1, i = Len(shape), op)
  IN  [i \in DOMAIN shape |-> frame(i)]

-----------------------------------------------------------------------------
(* Files: what readers see (mem), what the device holds (dev), which cells   *)
(* of mem the next sync writes (dirty), whether the entry is durable         *)
(* (linked).                                                                 *)

NewFile(first, cells) ==
  [first |-> first, mem |-> cells, dev |-> << >>, dirty |-> DOMAIN cells, linked |-> FALSE]

Active == Len(files)

Appended(file, cells) ==
  [file EXCEPT !.mem = @ \o cells,
               !.dirty = @ \cup (Len(file.mem) + 1)..(Len(file.mem) + Len(cells))]

SetLen(file, len) ==
  [file EXCEPT !.mem = SubSeq(@, 1, len), !.dirty = @ \cap 1..len]

OnDevice(file, i) == IF i <= Len(file.dev) THEN file.dev[i] ELSE Torn

(* A sync that returned Ok: dirty cells are on the device, clean ones stay   *)
(* whatever the device has.                                                  *)
Synced(file) ==
  [file EXCEPT !.dev = [i \in DOMAIN file.mem |->
                          IF i \in file.dirty THEN file.mem[i] ELSE OnDevice(file, i)],
               !.dirty = {}]

(* The cells up to which page cache and device agree. *)
Clean(file) ==
  CHOOSE k \in 0..Len(file.mem) :
    /\ \A i \in 1..k : i \notin file.dirty /\ i <= Len(file.dev) /\ file.mem[i] = file.dev[i]
    /\ k < Len(file.mem) =>
         \/ k + 1 \in file.dirty
         \/ k + 1 > Len(file.dev)
         \/ file.mem[k + 1] # file.dev[k + 1]

(* What the device may hold after a crash, or after a sync that failed: any  *)
(* mix of old cells, new cells and garbage beyond the clean prefix, cut      *)
(* anywhere.                                                                 *)
Writebacks(file) ==
  LET clean == Clean(file)
      longest == IF Len(file.mem) > Len(file.dev) THEN Len(file.mem) ELSE Len(file.dev)
      may(i) == {Torn}
                \cup (IF i <= Len(file.mem) THEN {file.mem[i]} ELSE {})
                \cup (IF i <= Len(file.dev) THEN {file.dev[i]} ELSE {})
      beyond(len) == {f \in [clean+1..len -> UNION {may(i) : i \in clean+1..len}] :
                        \A i \in clean+1..len : f[i] \in may(i)}
  IN  UNION {{[i \in 1..len |-> IF i <= clean THEN file.dev[i] ELSE f[i]] : f \in beyond(len)} :
              len \in clean..longest}

FailedSync(file) == {[file EXCEPT !.dev = d, !.dirty = {}] : d \in Writebacks(file)}

AfterCrash(file) ==
  {[file EXCEPT !.dev = d, !.mem = d, !.dirty = {}, !.linked = TRUE] : d \in Writebacks(file)}

(* sync_dir: every entry of the directory is durable. *)
Linked(fs) == [i \in DOMAIN fs |-> [fs[i] EXCEPT !.linked = TRUE]]

NoFence == [visible |-> FALSE, durable |-> FALSE, thisBoot |-> FALSE]

Fault == faults < MaxFaults /\ faults' = faults + 1
NoFault == UNCHANGED faults

-----------------------------------------------------------------------------
(* WalWriter *)

(* append_group, up to the append: every frame in one call. *)
AppendGroup(shape) ==
  LET frames == GroupFrames(shape, attempts + 1)
  IN  /\ phase = "idle"
      /\ attempts < MaxAttempts
      /\ nextSeq + Len(OpsOf(frames)) - 1 <= MaxSeq
      /\ attempts' = attempts + 1
      /\ pending' = OpsOf(frames)
      /\ UNCHANGED <<gone, fence, ckpt, writer, log, rejected>>
      /\ \/ /\ phase' = "appended"
            /\ files' = [files EXCEPT ![Active] = Appended(@, frames)]
            /\ NoFault
         \/ \E n \in 0..Len(frames) - 1 :   \* the append failed part way
              /\ phase' = "rolling"
              /\ files' = [files EXCEPT ![Active] = Appended(@, SubSeq(frames, 1, n))]
              /\ Fault

(* append_group: sync_data returned Ok.  Only now do the counters move. *)
SyncGroup ==
  LET file == files[Active]
      frames == SubSeq(file.mem, synced + 1, Len(file.mem))
  IN  /\ phase = "appended"
      /\ phase' = "idle"
      /\ files' = [files EXCEPT ![Active] = Synced(@)]
      /\ synced' = Len(file.mem)
      /\ nextSeq' = nextSeq + Len(OpsOf(frames))
      /\ nextGroup' = NextGroup(nextGroup)
      /\ hasData' = (hasData \/ \E i \in DOMAIN frames : IsData(frames[i]))
      /\ log' = log \o pending
      /\ pending' = << >>
      /\ UNCHANGED <<gone, fence, ckpt, rejected, attempts, faults>>

(* Mutant: a failed group uses up its sequence numbers. *)
SyncGroupFailsBurning ==
  /\ phase = "appended"
  /\ phase' = "rolling"
  /\ \E file \in FailedSync(files[Active]) : files' = [files EXCEPT ![Active] = file]
  /\ nextSeq' = nextSeq + Len(pending)
  /\ Fault
  /\ UNCHANGED <<gone, fence, ckpt, nextGroup, hasData, synced, history>>

(* append_group: sync_data failed. *)
SyncGroupFails ==
  /\ phase = "appended"
  /\ phase' = "rolling"
  /\ \E file \in FailedSync(files[Active]) : files' = [files EXCEPT ![Active] = file]
  /\ Fault
  /\ UNCHANGED <<gone, fence, ckpt, writer, history>>

(* roll_back: set_len(synced_len). *)
RollBackTruncate ==
  /\ phase = "rolling"
  /\ UNCHANGED <<gone, fence, ckpt, writer, history>>
  /\ \/ /\ phase' = "truncated"
        /\ files' = [files EXCEPT ![Active] = SetLen(@, synced)]
        /\ NoFault
     \/ /\ phase' = "fencing"
        /\ Fault
        /\ UNCHANGED files

(* Mutant: the truncation is not synced before the group is answered. *)
RollBackNoSync ==
  /\ phase = "truncated"
  /\ phase' = IF synced = 0 THEN "down" ELSE "idle"
  /\ rejected' = rejected \cup ToSet(pending)
  /\ pending' = << >>
  /\ UNCHANGED <<files, gone, fence, ckpt, writer, log, attempts, faults>>

(* roll_back: sync_all returned Ok, so the group is answered NotApplied.     *)
(* The writer stays usable and reuses the group's numbers.  A writer that    *)
(* into_writer was starting is dropped: its open fails.                      *)
RollBackSync ==
  /\ phase = "truncated"
  /\ phase' = IF synced = 0 THEN "down" ELSE "idle"
  /\ files' = [files EXCEPT ![Active] = Synced(@)]
  /\ rejected' = rejected \cup ToSet(pending)
  /\ pending' = << >>
  /\ UNCHANGED <<gone, fence, ckpt, writer, log, attempts, faults>>

RollBackSyncFails ==
  /\ phase = "truncated"
  /\ phase' = "fencing"
  /\ \E file \in FailedSync(files[Active]) : files' = [files EXCEPT ![Active] = file]
  /\ Fault
  /\ UNCHANGED <<gone, fence, ckpt, writer, history>>

(* fence and write_fence.  The outcome is Unknown either way; "fatal" is the *)
(* unfenced one.  A marker whose directory sync failed may be visible.       *)
Fence ==
  /\ phase = "fencing"
  /\ UNCHANGED <<ckpt, writer, history>>
  /\ \/ /\ phase' = "failed"
        /\ fence' = [visible |-> TRUE, durable |-> TRUE, thisBoot |-> TRUE]
        /\ files' = Linked(files)
        /\ gone' = << >>
        /\ NoFault
     \/ /\ phase' = "fatal"
        /\ \E seen \in BOOLEAN :
             fence' = [visible |-> seen, durable |-> FALSE, thisBoot |-> seen]
        /\ Fault
        /\ UNCHANGED <<files, gone>>

(* rotate: the new file is created and its checkpoint group appended.        *)
(* Failing to create the file changes nothing.                               *)
Rotate ==
  /\ phase = "idle"
  /\ hasData
  /\ UNCHANGED <<gone, fence, ckpt, writer, history>>
  /\ \/ /\ phase' = "rotating"
        /\ files' = files \o <<NewFile(nextSeq, <<CheckpointFrame(nextGroup, TRUE)>>)>>
        /\ NoFault
     \/ /\ phase' = "emptying"    \* the append failed
        /\ files' = files \o <<NewFile(nextSeq, << >>)>>
        /\ Fault

RotateSync ==
  /\ phase = "rotating"
  /\ UNCHANGED <<gone, fence, ckpt, writer, history>>
  /\ \/ /\ phase' = "linking"
        /\ files' = [files EXCEPT ![Active] = Synced(@)]
        /\ NoFault
     \/ /\ phase' = "emptying"
        /\ \E file \in FailedSync(files[Active]) : files' = [files EXCEPT ![Active] = file]
        /\ Fault

(* rotate: set_len(0) and sync_all of the new file; the writer has failed    *)
(* whether or not they succeed.                                              *)
RotateEmpty ==
  /\ phase = "emptying"
  /\ UNCHANGED <<gone, fence, ckpt, writer, history>>
  /\ \/ /\ phase' = "failed"
        /\ files' = [files EXCEPT ![Active] = Synced(SetLen(@, 0))]
        /\ NoFault
     \/ /\ phase' = "fencing"
        /\ files' \in {[files EXCEPT ![Active] = file] :
                         file \in {files[Active]} \cup FailedSync(SetLen(files[Active], 0))}
        /\ Fault

(* rotate: the directory sync and the switch to the new file. *)
RotateLink ==
  /\ phase = "linking"
  /\ UNCHANGED <<fence, ckpt, history>>
  /\ \/ /\ phase' = "idle"
        /\ files' = Linked(files)
        /\ gone' = << >>
        /\ synced' = 1
        /\ nextGroup' = NextGroup(nextGroup)
        /\ hasData' = FALSE
        /\ UNCHANGED <<nextSeq, faults>>
     \/ /\ phase' = "failed"
        /\ Fault
        /\ UNCHANGED <<files, gone, writer>>

(* Mutant: off by one, the first operation above the checkpoint counts too. *)
CheckpointedOffByOne(fs) ==
  Cardinality({i \in 1..Len(fs) - 1 :
                 \A j \in 1..i : fs[j + 1].first - 1 <= ckpt + 1})

(* The number of leading files that hold only checkpointed operations: a     *)
(* file does when its successor starts at or below the checkpoint + 1.       *)
Checkpointed(fs) ==
  Cardinality({i \in 1..Len(fs) - 1 :
                 \A j \in 1..i : fs[j + 1].first - 1 <= ckpt})

(* remove_checkpointed: stops at a file it cannot remove; the directory is   *)
(* synced only when every file went.                                         *)
RemoveCheckpointed ==
  /\ phase = "idle"
  /\ Checkpointed(files) > 0
  /\ UNCHANGED <<fence, phase, ckpt, writer, history>>
  /\ \/ /\ files' = Linked(SubSeq(files, Checkpointed(files) + 1, Len(files)))
        /\ gone' = << >>
        /\ NoFault
     \/ \E n \in 1..Checkpointed(files) :
          /\ files' = SubSeq(files, n + 1, Len(files))
          /\ gone' = gone \o SubSeq(files, 1, n)
          /\ Fault

(* The engine makes a manifest durable whose checkpoint is the end of a      *)
(* committed group (external to this crate: a flush commit).                 *)
AdvanceCheckpoint ==
  /\ phase = "idle"
  /\ \E c \in ckpt + 1..Len(log) :
       /\ c < Len(log) => log[c] # log[c + 1]
       /\ ckpt' = c
  /\ UNCHANGED <<disk, phase, writer, history, faults>>

-----------------------------------------------------------------------------
(* WalRecovery *)

Data(frames) == At(frames, {i \in DOMAIN frames : IsData(frames[i])})

(* Continuity::frame within one file: it starts with a checkpoint frame that *)
(* is a group of its own, its first data frame is the one it is named for.   *)
FileStarts(first, frames) ==
  /\ frames # << >> => frames[1].kind = "ckpt" /\ frames[1].end
  /\ Data(frames) # << >> => Data(frames)[1].first = first

(* Continuity::frame between frames, within and across files. *)
FramesContinue(frames) ==
  /\ \A i \in 1..Len(frames) - 1 :
       frames[i + 1].group = IF frames[i].end THEN NextGroup(frames[i].group)
                                              ELSE frames[i].group
  /\ \A i \in 1..Len(Data(frames)) - 1 :
       Data(frames)[i + 1].first = Data(frames)[i].last + 1

(* Continuity::start_file: an older file ends on a group boundary, holds     *)
(* data, and ends where its successor starts.                                *)
FileEnds(file, successor) ==
  /\ Data(file.mem) # << >>
  /\ Last(file.mem).end
  /\ Last(Data(file.mem)).last + 1 = successor.first

(* scan_tail: the frames before the first damaged cell. *)
Intact(cells) ==
  LET n == CHOOSE n \in 0..Len(cells) :
             /\ \A i \in 1..n : IsFrame(cells[i])
             /\ n < Len(cells) => ~IsFrame(cells[n + 1])
  IN  SubSeq(cells, 1, n)

(* Mutant: damage costs the complete group before it, too. *)
CommittedEndBeforeLast(cells) ==
  IF Intact(cells) = cells THEN SelectLastInSeq(cells, LAMBDA frame : frame.end)
  ELSE SelectLastInSubSeq(Intact(cells), 1, Len(Intact(cells)) - 1, LAMBDA frame : frame.end)

(* scan_tail: the end of the last complete group. *)
CommittedEnd(cells) ==
  SelectLastInSeq(Intact(cells), LAMBDA frame : frame.end)

(* Mutant: any checksummed frame past the damage is corruption. *)
TornTailNothingPast(cells) ==
  \A i \in Len(Intact(cells)) + 2..Len(cells) : ~IsFrame(cells[i])

(* scan_tail: the damage is what a torn write leaves.  Every checksummed     *)
(* frame past it is of the damaged frame's own group, and only the last one  *)
(* may end it; past a damaged first frame there is none.                     *)
TornTail(cells) ==
  LET intact == Intact(cells)
      past == {i \in Len(intact) + 2..Len(cells) : IsFrame(cells[i])}
      damaged == IF Last(intact).end THEN NextGroup(Last(intact).group) ELSE Last(intact).group
  IN  \A i \in past :
        /\ intact # << >>
        /\ cells[i].group = damaged
        /\ \A j \in past : j < i => ~cells[j].end

(* open: the files above the checkpoint, without a gap to it, and the        *)
(* highest one with a tail that may be repaired.                             *)
CanRepair ==
  files # << >> =>
    /\ files[Checkpointed(files) + 1].first <= ckpt + 1
    /\ FileStarts(files[Active].first, Intact(files[Active].mem))
    /\ FramesContinue(Intact(files[Active].mem))
    /\ TornTail(files[Active].mem)

(* Mutant: the marker's boot is not looked at. *)
BarrierNoFenceCheck ==
  /\ phase = "down"
  /\ phase' = "barrier"
  /\ files' = Linked([i \in DOMAIN files |-> Synced(files[i])])
  /\ gone' = << >>
  /\ fence' = [fence EXCEPT !.durable = fence.visible]
  /\ UNCHANGED <<ckpt, writer, history, faults>>

(* open, first half: the fence check, then every file and the directory is   *)
(* synced.  A marker from this boot refuses the open and touches nothing.    *)
Barrier ==
  /\ phase = "down"
  /\ ~(fence.visible /\ fence.thisBoot)
  /\ UNCHANGED <<ckpt, writer, history>>
  /\ \/ /\ phase' = "barrier"
        /\ files' = Linked([i \in DOMAIN files |-> Synced(files[i])])
        /\ gone' = << >>
        /\ fence' = [fence EXCEPT !.durable = fence.visible]
        /\ NoFault
     \/ /\ BarrierFaults
        /\ \E i \in DOMAIN files, failed \in UNION {FailedSync(files[j]) : j \in DOMAIN files} :
             /\ failed \in FailedSync(files[i])
             /\ files' = [j \in DOMAIN files |->
                            CASE j < i -> Synced(files[j])
                              [] j = i -> failed
                              [] j > i -> files[j]]
        /\ Fault
        /\ UNCHANGED <<gone, fence, phase>>
     \/ /\ files' = [i \in DOMAIN files |-> Synced(files[i])]   \* sync_dir failed
        /\ Fault
        /\ UNCHANGED <<gone, fence, phase>>

(* open, second half: repair_tail truncates to the last complete group and   *)
(* syncs, or finds corruption and changes nothing.                           *)
RepairTail ==
  LET repaired == SetLen(files[Active], CommittedEnd(files[Active].mem))
  IN  /\ phase = "barrier"
      /\ UNCHANGED <<gone, fence, ckpt, writer, history>>
      /\ \/ /\ ~CanRepair
            /\ phase' = "corrupt"
            /\ UNCHANGED <<files, faults>>
         \/ /\ CanRepair
            /\ phase' = "repaired"
            /\ files' = IF files = << >> THEN files
                        ELSE [files EXCEPT ![Active] = Synced(repaired)]
            /\ NoFault
         \/ /\ CanRepair /\ files # << >>
            /\ repaired # files[Active]
            /\ phase' = "down"
            /\ \E file \in FailedSync(repaired) : files' = [files EXCEPT ![Active] = file]
            /\ Fault

(* next_frame, to the end of the log: every frame above the checkpoint. *)
ReadFiles == SubSeq(files, Checkpointed(files) + 1, Len(files))
ReadFrames == FlattenSeq([i \in DOMAIN ReadFiles |-> ReadFiles[i].mem])
Replayed == At(ReadFrames, {i \in DOMAIN ReadFrames : ReadFrames[i].last > ckpt})

(* into_writer: max(last_data_seq, checkpoint) + 1. *)
ResumeSeq ==
  LET data == Data(ReadFrames)
      last == IF data = << >> THEN 0 ELSE Last(data).last
  IN  (IF last > ckpt THEN last ELSE ckpt) + 1

(* next_frame, into_writer and the engine's replay_frame find nothing wrong: *)
(* no damage, the continuity rules hold, no frame straddles the checkpoint,  *)
(* no checkpoint frame is above the manifest's, and the active file's data   *)
(* ends where the writer continues.                                          *)
ReplayOK ==
  /\ \A i \in DOMAIN ReadFrames : IsFrame(ReadFrames[i])
  /\ FramesContinue(ReadFrames)
  /\ \A i \in DOMAIN ReadFiles : FileStarts(ReadFiles[i].first, ReadFiles[i].mem)
  /\ \A i \in 1..Len(ReadFiles) - 1 : FileEnds(ReadFiles[i], ReadFiles[i + 1])
  /\ ReadFrames # << >> => Last(ReadFrames).end
  /\ \A i \in DOMAIN Replayed : IsData(Replayed[i]) /\ Replayed[i].first > ckpt
  /\ files # << >> /\ Data(files[Active].mem) = << >> => files[Active].first = ResumeSeq
  /\ files # << >> /\ Data(files[Active].mem) # << >> =>
       Last(Data(files[Active].mem)).last + 1 = ResumeSeq

(* into_writer: a marker of an earlier boot is removed; a directory without  *)
(* a file gets one; an empty active file gets its checkpoint group, through  *)
(* the append path (start_file).                                             *)
IntoWriter ==
  LET group == IF ReadFrames = << >> THEN 0 ELSE NextGroup(Last(ReadFrames).group)
      start == CheckpointFrame(group, TRUE)
      fs == Linked(IF files = << >> THEN <<NewFile(ResumeSeq, << >>)>> ELSE files)
      empty == fs[Len(fs)].mem = << >>
  IN  /\ phase = "repaired"
      /\ ReplayOK
      /\ log' = SubSeq(log, 1, ckpt) \o OpsOf(Replayed)
      /\ pending' = << >>
      /\ nextSeq' = ResumeSeq
      /\ nextGroup' = group
      /\ hasData' = (Data(fs[Len(fs)].mem) # << >>)
      /\ synced' = Len(fs[Len(fs)].mem)
      /\ fence' = NoFence
      /\ UNCHANGED <<gone, ckpt, rejected, attempts>>
      /\ \/ /\ ~empty /\ phase' = "idle" /\ files' = fs
            /\ NoFault
         \/ /\ empty /\ phase' = "appended"
            /\ files' = [fs EXCEPT ![Len(fs)] = Appended(@, <<start>>)]
            /\ NoFault
         \/ /\ empty /\ phase' = "rolling" /\ files' = fs
            /\ Fault

(* into_writer fails before it has a writer: the log is corrupt, the marker  *)
(* could not be removed durably, or the new file's entry not synced.         *)
IntoWriterFails ==
  /\ phase = "repaired"
  /\ UNCHANGED <<gone, ckpt, writer, history>>
  /\ \/ /\ ~ReplayOK
        /\ phase' = "corrupt"
        /\ UNCHANGED <<files, fence, faults>>
     \/ /\ ReplayOK /\ fence.visible
        /\ phase' = "down"
        /\ \E seen \in BOOLEAN : fence' = [fence EXCEPT !.visible = seen]
        /\ Fault
        /\ UNCHANGED files
     \/ /\ ReplayOK /\ files = << >>
        /\ phase' = "down"
        /\ fence' = NoFence
        /\ files' = <<NewFile(ResumeSeq, << >>)>>
        /\ Fault

-----------------------------------------------------------------------------
(* The environment *)

(* What a crash may make of some files, each on its own. *)
Crashed(fs) ==
  FoldLeft(LAMBDA done, f : UNION {{before \o <<g>> : g \in AfterCrash(f)} : before \in done}, {<< >>}, fs)

(* A reboot: the page cache is gone, unsynced entries may be.  Removed files *)
(* come back latest first, as the directory keeps a prefix of its changes.   *)
Reboot ==
  /\ phase' = "down"
  /\ \E n \in 0..Len(gone), kept \in {files, At(files, {i \in DOMAIN files : files[i].linked})} :
       files' \in Crashed(SubSeq(gone, n + 1, Len(gone)) \o kept)
  /\ gone' = << >>
  /\ \E seen \in {fence.visible, fence.durable} :
       fence' = [visible |-> seen, durable |-> seen, thisBoot |-> FALSE]
  /\ UNCHANGED <<ckpt, writer, history>>

Crash == phase # "corrupt" /\ Fault /\ Reboot

(* The operator reboots a host whose log is fenced or whose process stopped. *)
OperatorReboot ==
  /\ \/ phase \in {"failed", "fatal"}
     \/ phase = "down" /\ fence.visible /\ fence.thisBoot
  /\ NoFault
  /\ Reboot

(* A cell the page cache shows as clean and the device does not have. *)
CacheLies ==
  \E i \in DOMAIN files : \E c \in DOMAIN files[i].mem :
    c \notin files[i].dirty /\ files[i].mem[c] # OnDevice(files[i], c)

(* The process dies and its log may be opened again in the same boot.  Not   *)
(* modelled: a death between a failed sync and the rollback or marker that   *)
(* deals with it, and a restart after an unfenced failure.                   *)
Kill ==
  /\ phase \notin {"down", "corrupt"}
  /\ CacheLies => fence.visible
  /\ phase' = "down"
  /\ IF phase \in {"failed", "fatal"} THEN NoFault ELSE Fault
  /\ UNCHANGED <<disk, ckpt, writer, history>>

-----------------------------------------------------------------------------
Init ==
  /\ files = << >> /\ gone = << >> /\ fence = NoFence
  /\ phase = "down" /\ ckpt = 0
  /\ nextSeq = 1 /\ nextGroup = 0 /\ hasData = FALSE /\ synced = 0
  /\ log = << >> /\ pending = << >> /\ rejected = {} /\ attempts = 0
  /\ faults = 0

Recovery == Barrier \/ RepairTail \/ IntoWriter \/ IntoWriterFails

Writing ==
  \/ SyncGroup \/ SyncGroupFails
  \/ RollBackTruncate \/ RollBackSync \/ RollBackSyncFails \/ Fence
  \/ RotateSync \/ RotateEmpty \/ RotateLink

Next ==
  \/ \E shape \in Shapes : AppendGroup(shape)
  \/ Rotate \/ RemoveCheckpointed \/ AdvanceCheckpoint
  \/ Writing \/ Recovery
  \/ Crash \/ OperatorReboot \/ Kill

Spec == Init /\ [][Next]_vars

(* ENABLED <<A>>_vars of the three, written out so that TLC need not search *)
(* for a successor in every state.                                          *)
WritingDue ==
  phase \in {"appended", "rolling", "truncated", "fencing", "rotating", "emptying", "linking"}
RebootDue == phase \in {"failed", "fatal"} \/ (phase = "down" /\ fence.visible /\ fence.thisBoot)
RecoveryDue == phase \in {"down", "barrier", "repaired"} /\ ~RebootDue

(* Weak fairness: a started system call returns, an open goes on to its end, *)
(* and a fenced host is rebooted.                                            *)
FairSpec ==
  /\ Spec
  /\ []<>~WritingDue \/ []<><<Writing>>_vars
  /\ []<>~RecoveryDue \/ []<><<Recovery>>_vars
  /\ []<>~RebootDue \/ []<><<OperatorReboot>>_vars

-----------------------------------------------------------------------------

(* No crash, I/O error or restart makes recovery report corruption: the tail *)
(* rules of scan_tail and the strict replay of next_frame accept every state *)
(* the writer and earlier recoveries can leave behind.                       *)
NoFalseCorruption == phase # "corrupt"

(* Durable visibility, I14: what a caller was told the log holds, and the    *)
(* manifest does not cover, is on the device under a durable file name, even *)
(* while a rollback, rotation, removal or recovery is half done.             *)
AckedOnDevice ==
  \A s \in ckpt + 1..Len(log) :
    \E i \in DOMAIN files :
      /\ files[i].linked
      /\ \E c \in DOMAIN files[i].dev :
           LET cell == files[i].dev[c]
           IN  IsData(cell) /\ s \in cell.first..cell.last /\ cell.op = log[s]

(* WriteOutcome::NotApplied: no byte of a group answered so is left in any   *)
(* file, in the page cache or on the device, so no replay can bring it back. *)
NotAppliedGone ==
  \A i \in DOMAIN files : \A cells \in {files[i].mem, files[i].dev} :
    \A c \in DOMAIN cells : IsFrame(cells[c]) => cells[c].op \notin rejected

(* A log that is open continues, gap-free, right after what it holds (I6),   *)
(* through every reuse of a failed group's numbers and every recovery.       *)
NumbersContinue == phase = "idle" => nextSeq = Len(log) + 1

(* While the boot whose rollback failed lasts and its marker can be seen, no *)
(* process gets past the fence check.                                        *)
FenceHolds ==
  fence.visible /\ fence.thisBoot => phase \in {"failed", "fatal", "down"}

(* The log implements what it promises: committed groups stay, rejected ones *)
(* never come back, an unanswered group is recovered whole or not at all.    *)
Promise == INSTANCE DurableLog
             WITH Op <- 1..MaxAttempts,
                  up <- phase \in {"idle", "appended", "rolling", "truncated", "fencing",
                                   "rotating", "linking", "emptying"}
Implements == Promise!Spec

(* An open that is not refused for good ends with a writer. *)
RecoveryCompletes == phase = "down" ~> phase = "idle"
=============================================================================
