------------------------------- MODULE DBImpl -------------------------------
(***************************************************************************)
(* DBImpl (src/lsmkv/db/dbimpl.cc) with its VersionSet: the group-commit  *)
(* write path, the read path, the background thread that flushes the     *)
(* immutable memtable and compacts levels, and the garbage sweep.         *)
(*                                                                         *)
(* Every step below is one critical section of mu_ or one stretch of code *)
(* that runs with mu_ released; the comment of each action names it.      *)
(***************************************************************************)
EXTENDS Compaction, TLC

CONSTANTS
  Writers,                \* threads calling DB::Write / Put / Delete
  Readers,                \* threads calling DB::Get
  Batches,                \* the WriteBatches the writers submit
  WriteMemSize,           \* option.write_mem_size, in entries
  L0StopWriteThreshold,   \* config::kL0StopWriteThreshold
  SmallGroup,             \* 1 << 10 in MergeBatchGroup, in operations
  MaxGroup,               \* 1 << 20 in MergeBatchGroup, in operations
  SyncModes,              \* the values WriteOption.sync takes
  MaxWrites,              \* bound: number of Write calls in a behaviour
  IOFaults                \* whether file operations may fail

ASSUME WriteMemSize \in Nat
ASSUME IOFaults \in BOOLEAN /\ SyncModes \subseteq BOOLEAN

Op == [op : {"put"}, key : Keys, val : Vals] \cup [op : {"del"}, key : Keys]
ASSUME Batches \subseteq Seq(Op) /\ \A b \in Batches : b # <<>>

NoWriter == "nowriter"
NoFile   == 0
Statuses == {"ok", "err"}

VARIABLES
  writers, wpc, wbatch, wsync, wdone, wstatus, \* Writer and writers_
  ldr,           \* the locals of Write while a thread leads a group
  mem, imm,      \* mem_, imm_ (NoMem when imm_ == nullptr)
  lastSeq,       \* vset_->last_sequence_
  logs,          \* WAL files on disk: number -> sequence of records
  curLog,        \* the number of the file log_ appends to
  logfileNumber, \* logfile_number_
  nextFile,      \* vset_->next_file_number_
  vsLogNumber,   \* vset_->log_number_
  current,       \* vset_->current_: level -> set of files
  compactPointer,\* vset_->compactor_pointer_
  disk,          \* SSTable numbers present in the DB directory
  filesWriting,  \* files_writing_
  bgStatus,      \* background_status_
  bgScheduled,   \* background_scheduled_
  bgPc,          \* where the background thread is
  flushNum,      \* the SSTable WriteLevel0SSTable is building
  comp,          \* the running CompactionState
  rpc, rsnap, rkey, rres, \* readers inside DB::Get
  writes         \* Write calls made so far

queueVars == <<writers, wbatch, wsync, wdone, wstatus, ldr, writes>>
writeVars == <<queueVars, wpc>>
memVars   == <<mem, imm, lastSeq, logs, curLog, logfileNumber>>
verVars   == <<nextFile, vsLogNumber, current, compactPointer, disk, filesWriting>>
bgVars    == <<bgStatus, bgScheduled, bgPc, flushNum, comp>>
readVars  == <<rpc, rsnap, rkey, rres>>
vars == <<writeVars, memVars, verVars, bgVars, readVars>>

(***************************************************************************)
(* Helpers shared by several steps.                                        *)
(***************************************************************************)
\* WriteBatchHelper::InsertMemTable / MemTableInserter: the i-th operation
\* of a batch whose sequence number is seq gets seq + i - 1.
BatchEntries(ops, seq) ==
  {[key |-> ops[i].key, seq |-> seq + i - 1, type |-> ops[i].op,
    val |-> IF ops[i].op = "put" THEN ops[i].val ELSE NoVal] : i \in DOMAIN ops}

\* background_cv_.SignalAll(): every writer waiting in MakeRoomForWrite
\* re-evaluates its loop.
SignalAll(pc) == [w \in Writers |-> IF pc[w] = "bgwait" THEN "room" ELSE pc[w]]

\* RecordBackgroundError: only the first error is kept and signalled.
RecordBackgroundError(pc) ==
  IF bgStatus = "ok" THEN <<"err", SignalAll(pc)>> ELSE <<bgStatus, pc>>

\* MayScheduleCompaction, given the state it reads (closed_ is not modelled).
MayScheduleCompaction(sched, st, im, v) ==
  sched \/ (st = "ok" /\ (im # NoMem \/ NeedCompaction(v)))

\* Mutant: the sweep ignores the Versions readers hold.
LiveVersionsNoReaders(cur, rp, rs, c) ==
  {cur} \cup (IF c = NoComp THEN {} ELSE {c.version})

\* Every Version someone holds a reference to (VersionSet's list).
LiveVersions(cur, rp, rs, c) ==
  {cur} \cup {rs[r].v : r \in {x \in Readers : rp[x] = "read"}}
        \cup (IF c = NoComp THEN {} ELSE {c.version})

\* GarbageFilesClean: the SSTables and WAL files it keeps.
LiveFiles(fw, cur, rp, rs, c) ==
  fw \cup UNION {FileNums(v) : v \in LiveVersions(cur, rp, rs, c)}

GCDisk(st, d, fw, cur, c) ==
  IF st # "ok" THEN d ELSE d \cap LiveFiles(fw, cur, rpc, rsnap, c)

GCLogs(st, lg, logNum) ==
  IF st # "ok" THEN lg ELSE [n \in {m \in DOMAIN lg : m >= logNum} |-> lg[n]]

\* Builder::Apply + SaveTo for an edit that deletes and adds files.
ApplyEdit(v, del, add) ==
  [l \in Levels |-> {f \in v[l] : <<l, f.num>> \notin del}
                      \cup {a[2] : a \in {x \in add : x[1] = l}}]

(***************************************************************************)
(* DBImpl::MergeBatchGroup: the writers at the head of writers_ that the  *)
(* leader commits with its own batch, and the batch it builds.  The       *)
(* follower loop stops at a sync writer behind a non-sync leader or when  *)
(* the size limit is passed.  Each follower makes it Append first->batch  *)
(* (dbimpl.cc:146) to the merged batch.                                   *)
(***************************************************************************)
RECURSIVE MergeFrom(_, _, _, _, _, _)
MergeFrom(q, i, size, maxSize, ret, last) ==
  IF i > Len(q) THEN [batch |-> ret, last |-> last]
  ELSE LET w == q[i]
           first == q[1]
       IN  IF wsync[w] /\ ~wsync[first] THEN [batch |-> ret, last |-> last]
           ELSE IF size + Len(wbatch[w]) > maxSize THEN [batch |-> ret, last |-> last]
           ELSE MergeFrom(q, i + 1, size + Len(wbatch[w]), maxSize,
                          ret \o wbatch[first], w)

MergeBatchGroup ==
  LET first == Head(writers)
      size  == Len(wbatch[first])
      maxSize == IF size <= SmallGroup THEN size + SmallGroup ELSE MaxGroup
  IN  MergeFrom(writers, 2, size, maxSize, wbatch[first], first)

(***************************************************************************)
(* Init: DB::Open on an empty directory.  Initialize writes manifest 1    *)
(* with next_file_number 2; VersionSet::Recover takes 2 for the manifest; *)
(* Open takes 3 for the WAL and installs it as log_number_.               *)
(***************************************************************************)
Init ==
  /\ writers = <<>>
  /\ wpc = [w \in Writers |-> "idle"]
  /\ wbatch = [w \in Writers |-> <<>>]
  /\ wsync = [w \in Writers |-> FALSE]
  /\ wdone = [w \in Writers |-> FALSE]
  /\ wstatus = [w \in Writers |-> "ok"]
  /\ ldr = [w \in Writers |-> [last |-> NoWriter, seq |-> 0, first |-> 0,
                               batch |-> <<>>, syncErr |-> FALSE]]
  /\ writes = 0
  /\ mem = {} /\ imm = NoMem /\ lastSeq = 0
  /\ logs = (3 :> <<>>) /\ curLog = 3 /\ logfileNumber = 3
  /\ nextFile = 4 /\ vsLogNumber = 3
  /\ current = [l \in Levels |-> {}]
  /\ compactPointer = [l \in Levels |-> NoKey]
  /\ disk = {} /\ filesWriting = {}
  /\ bgStatus = "ok" /\ bgScheduled = FALSE /\ bgPc = "idle"
  /\ flushNum = NoFile /\ comp = NoComp
  /\ rpc = [r \in Readers |-> "idle"]
  /\ rsnap = [r \in Readers |-> [seq |-> 0, mem |-> {}, imm |-> NoMem, v |-> [l \in Levels |-> {}]]]
  /\ rkey = [r \in Readers |-> Min(Keys) - 1]
  /\ rres = [r \in Readers |-> NotFound]

(***************************************************************************)
(* DBImpl::Write, up to the wait: push the Writer on writers_.            *)
(***************************************************************************)
BeginWrite(t, b, sync) ==
  /\ wpc[t] = "idle"
  /\ writes < MaxWrites
  /\ writers' = Append(writers, t)
  /\ wpc' = [wpc EXCEPT ![t] = "queued"]
  /\ wbatch' = [wbatch EXCEPT ![t] = b]
  /\ wsync' = [wsync EXCEPT ![t] = sync]
  /\ wdone' = [wdone EXCEPT ![t] = FALSE]
  /\ writes' = writes + 1
  /\ UNCHANGED <<wstatus, ldr, memVars, verVars, bgVars, readVars>>

\* Mutant: a queued writer leads without being at the front of writers_.
WriterWakesAnyQueued(t) ==
  /\ wpc[t] = "queued"
  /\ \/ wdone[t] /\ wpc' = [wpc EXCEPT ![t] = "idle"]
     \/ ~wdone[t] /\ wpc' = [wpc EXCEPT ![t] = "room"]
  /\ UNCHANGED <<writers, wbatch, wsync, wdone, wstatus, ldr, writes, memVars, verVars, bgVars, readVars>>

\* The wait loop ends: a follower finds its write done and returns
\* w.status; the writer at the front of writers_ becomes the leader.
WriterWakes(t) ==
  /\ wpc[t] = "queued"
  /\ \/ wdone[t] /\ wpc' = [wpc EXCEPT ![t] = "idle"]
     \/ ~wdone[t] /\ Head(writers) = t /\ wpc' = [wpc EXCEPT ![t] = "room"]
  /\ UNCHANGED <<writers, wbatch, wsync, wdone, wstatus, ldr, writes, memVars, verVars, bgVars, readVars>>

(***************************************************************************)
(* DBImpl::MakeRoomForWrite, one iteration of its loop.  When the loop     *)
(* breaks, Write goes on under the same lock: MergeBatchGroup, sequence   *)
(* numbers last_seq + 1 .. last_seq + count.  The status s of the loop is *)
(* kept in wstatus until AddRecord overwrites it.                         *)
(***************************************************************************)
\* Mutants: the group numbered from last_seq instead of last_seq + 1; the
\* last sequence number advanced by one instead of by the batch count.
LeadGroupSeqFromLast(t, s) ==
  LET g == MergeBatchGroup
  IN  /\ ldr' = [ldr EXCEPT ![t] = [last |-> g.last, first |-> lastSeq,
                                    seq |-> lastSeq + Len(g.batch) - 1, batch |-> g.batch,
                                    syncErr |-> FALSE]]
      /\ wstatus' = [wstatus EXCEPT ![t] = s]

LeadGroupCountOne(t, s) ==
  LET g == MergeBatchGroup
  IN  /\ ldr' = [ldr EXCEPT ![t] = [last |-> g.last, first |-> lastSeq + 1,
                                    seq |-> lastSeq + 1, batch |-> g.batch,
                                    syncErr |-> FALSE]]
      /\ wstatus' = [wstatus EXCEPT ![t] = s]

LeadGroup(t, s) ==
  LET g == MergeBatchGroup
  IN  /\ ldr' = [ldr EXCEPT ![t] = [last |-> g.last, first |-> lastSeq + 1,
                                    seq |-> lastSeq + Len(g.batch), batch |-> g.batch,
                                    syncErr |-> FALSE]]
      /\ wstatus' = [wstatus EXCEPT ![t] = s]

MakeRoomBreak(t) ==
  /\ wpc[t] = "room"
  /\ \/ bgStatus # "ok" /\ LeadGroup(t, "err")
     \/ /\ bgStatus = "ok"
        /\ Cardinality(current[0]) < L0StopWriteThreshold
        /\ Cardinality(mem) <= WriteMemSize
        /\ LeadGroup(t, "ok")
  /\ wpc' = [wpc EXCEPT ![t] = "log"]
  /\ UNCHANGED <<writers, wbatch, wsync, wdone, writes, memVars, verVars, bgVars, readVars>>

\* Too many level-0 files, or the memtable is full and imm_ is still being
\* flushed: wait on background_cv_.
MakeRoomWait(t) ==
  /\ wpc[t] = "room"
  /\ bgStatus = "ok"
  /\ \/ Cardinality(current[0]) >= L0StopWriteThreshold
     \/ Cardinality(mem) > WriteMemSize /\ imm # NoMem
  /\ wpc' = [wpc EXCEPT ![t] = "bgwait"]
  /\ UNCHANGED <<writers, wbatch, wsync, wdone, wstatus, ldr, writes, memVars, verVars, bgVars, readVars>>

\* Rotate: a new WAL numbered NextFileNumber(), mem_ becomes imm_, the
\* background thread may be scheduled.  Closing the old WAL may fail and
\* records a background error.  logfile_number_ is left as it was.
MakeRoomRotate(t) ==
  /\ wpc[t] = "room"
  /\ bgStatus = "ok"
  /\ Cardinality(current[0]) < L0StopWriteThreshold
  /\ Cardinality(mem) > WriteMemSize /\ imm = NoMem
  /\ nextFile' = nextFile + 1
  /\ \E closeOk \in IF IOFaults THEN BOOLEAN ELSE {TRUE} :
       LET err == RecordBackgroundError(wpc)
           st == IF closeOk THEN bgStatus ELSE err[1]
       IN  /\ bgStatus' = st
           /\ wpc' = IF closeOk THEN wpc ELSE err[2]
           /\ bgScheduled' = MayScheduleCompaction(bgScheduled, st, mem, current)
  /\ logs' = logs @@ (nextFile :> <<>>)
  /\ curLog' = nextFile
  /\ imm' = mem /\ mem' = {}
  /\ UNCHANGED <<writers, wbatch, wsync, wdone, wstatus, ldr, writes, lastSeq, logfileNumber,
                 vsLogNumber, current, compactPointer, disk, filesWriting, bgPc, flushNum, comp, readVars>>

\* NewWritableFile for the new WAL fails: the loop breaks with its status.
MakeRoomRotateFail(t) ==
  /\ IOFaults
  /\ wpc[t] = "room"
  /\ bgStatus = "ok"
  /\ Cardinality(current[0]) < L0StopWriteThreshold
  /\ Cardinality(mem) > WriteMemSize /\ imm = NoMem
  /\ nextFile' = nextFile + 1
  /\ LeadGroup(t, "err")
  /\ wpc' = [wpc EXCEPT ![t] = "log"]
  /\ UNCHANGED <<writers, wbatch, wsync, wdone, writes, memVars, vsLogNumber, current,
                 compactPointer, disk, filesWriting, bgVars, readVars>>

(***************************************************************************)
(* With mu_ released (dbimpl.cc:265-276): log_->AddRecord of the merged   *)
(* batch, then logfile_->Sync() when the leader's option is sync.  Either *)
(* may fail; a failed AddRecord leaves no complete record.                *)
(***************************************************************************)
\* Mutant: the memtable insert runs even when AddRecord failed.
WriteLogInsertOnError(t) ==
  /\ wpc[t] = "log"
  /\ \E addOk \in IF IOFaults THEN BOOLEAN ELSE {TRUE},
        syncOk \in IF IOFaults /\ wsync[t] THEN BOOLEAN ELSE {TRUE} :
       /\ logs' = IF addOk
                  THEN [logs EXCEPT ![curLog] = Append(@, [first |-> ldr[t].first, batch |-> ldr[t].batch])]
                  ELSE logs
       /\ wstatus' = [wstatus EXCEPT ![t] = IF addOk /\ syncOk THEN "ok" ELSE "err"]
       /\ ldr' = [ldr EXCEPT ![t].syncErr = addOk /\ ~syncOk]
       /\ wpc' = [wpc EXCEPT ![t] = IF syncOk THEN "insert" ELSE "finish"]
  /\ UNCHANGED <<writers, wbatch, wsync, wdone, writes, mem, imm, lastSeq, curLog,
                 logfileNumber, verVars, bgVars, readVars>>

WriteLog(t) ==
  /\ wpc[t] = "log"
  /\ \E addOk \in IF IOFaults THEN BOOLEAN ELSE {TRUE},
        syncOk \in IF IOFaults /\ wsync[t] THEN BOOLEAN ELSE {TRUE} :
       /\ logs' = IF addOk
                  THEN [logs EXCEPT ![curLog] = Append(@, [first |-> ldr[t].first, batch |-> ldr[t].batch])]
                  ELSE logs
       /\ wstatus' = [wstatus EXCEPT ![t] = IF addOk /\ syncOk THEN "ok" ELSE "err"]
       /\ ldr' = [ldr EXCEPT ![t].syncErr = addOk /\ ~syncOk]
       /\ wpc' = [wpc EXCEPT ![t] = IF addOk /\ syncOk THEN "insert" ELSE "finish"]
  /\ UNCHANGED <<writers, wbatch, wsync, wdone, writes, mem, imm, lastSeq, curLog,
                 logfileNumber, verVars, bgVars, readVars>>

\* WriteBatchHelper::InsertMemTable into mem_, still without mu_.
WriteInsert(t) ==
  /\ wpc[t] = "insert"
  /\ mem' = mem \cup BatchEntries(ldr[t].batch, ldr[t].first)
  /\ wpc' = [wpc EXCEPT ![t] = "finish"]
  /\ UNCHANGED <<writers, wbatch, wsync, wdone, wstatus, ldr, writes, imm, lastSeq, logs,
                 curLog, logfileNumber, verVars, bgVars, readVars>>

(***************************************************************************)
(* mu_ taken again (dbimpl.cc:277-299): a Sync error becomes the          *)
(* background error, SetLastSequence publishes the group, the group is    *)
(* popped from writers_, each follower is marked done with the leader's   *)
(* status, and the next writer is signalled.                             *)
(***************************************************************************)
\* Mutant: the group is popped without SetLastSequence.
FinishWriteNoPublish(t) ==
  /\ wpc[t] = "finish"
  /\ LET n == CHOOSE i \in DOMAIN writers : writers[i] = ldr[t].last
         group == {writers[i] : i \in 1..n} \ {t}
         err == RecordBackgroundError(wpc)
         pc == IF ldr[t].syncErr THEN err[2] ELSE wpc
     IN  /\ bgStatus' = IF ldr[t].syncErr THEN err[1] ELSE bgStatus
         /\ writers' = SubSeq(writers, n + 1, Len(writers))
         /\ wdone' = [w \in Writers |-> IF w \in group THEN TRUE ELSE wdone[w]]
         /\ wstatus' = [w \in Writers |-> IF w \in group THEN wstatus[t] ELSE wstatus[w]]
         /\ wpc' = [pc EXCEPT ![t] = "ret"]
  /\ UNCHANGED <<wbatch, wsync, ldr, writes, mem, imm, lastSeq, logs, curLog, logfileNumber,
                 verVars, bgScheduled, bgPc, flushNum, comp, readVars>>

FinishWrite(t) ==
  /\ wpc[t] = "finish"
  /\ LET n == CHOOSE i \in DOMAIN writers : writers[i] = ldr[t].last
         group == {writers[i] : i \in 1..n} \ {t}
         err == RecordBackgroundError(wpc)
         pc == IF ldr[t].syncErr THEN err[2] ELSE wpc
     IN  /\ bgStatus' = IF ldr[t].syncErr THEN err[1] ELSE bgStatus
         /\ lastSeq' = ldr[t].seq
         /\ writers' = SubSeq(writers, n + 1, Len(writers))
         /\ wdone' = [w \in Writers |-> IF w \in group THEN TRUE ELSE wdone[w]]
         /\ wstatus' = [w \in Writers |-> IF w \in group THEN wstatus[t] ELSE wstatus[w]]
         /\ wpc' = [pc EXCEPT ![t] = "ret"]
  /\ UNCHANGED <<wbatch, wsync, ldr, writes, mem, imm, logs, curLog, logfileNumber,
                 verVars, bgScheduled, bgPc, flushNum, comp, readVars>>

\* The leader returns its status.
WriteReturn(t) ==
  /\ wpc[t] = "ret"
  /\ wpc' = [wpc EXCEPT ![t] = "idle"]
  /\ UNCHANGED <<writers, wbatch, wsync, wdone, wstatus, ldr, writes, memVars, verVars,
                 bgVars, readVars>>

(***************************************************************************)
(* DBImpl::Get.  Under mu_: LastSequence, mem_, imm_ and current_ are     *)
(* read and referenced.  Without mu_: the lookups; a probed SSTable that  *)
(* is no longer on disk fails to open (an IOError status).  Then mu_ is   *)
(* taken again and the references dropped.                                *)
(***************************************************************************)
GetSnapshot(r, k) ==
  /\ rpc[r] = "idle"
  /\ rsnap' = [rsnap EXCEPT ![r] = [seq |-> lastSeq, mem |-> mem, imm |-> imm, v |-> current]]
  /\ rkey' = [rkey EXCEPT ![r] = k]
  /\ rpc' = [rpc EXCEPT ![r] = "read"]
  /\ UNCHANGED <<writeVars, memVars, verVars, bgVars, rres>>

IOError == "ioerror"

RECURSIVE ReadFiles(_, _, _)
ReadFiles(fs, k, s) ==
  IF fs = <<>> THEN Miss
  ELSE IF Head(fs).num \notin disk THEN IOError
  ELSE LET r == Probe(Head(fs).entries, k, s)
       IN  IF r # Miss THEN r ELSE ReadFiles(Tail(fs), k, s)

\* Mutant: imm_ is probed before mem_.
SnapshotGetImmFirst(sn, k) ==
  LET m == Probe(sn.mem, k, sn.seq)
      i == IF sn.imm = NoMem THEN Miss ELSE Probe(sn.imm, k, sn.seq)
  IN  IF i # Miss THEN i ELSE IF m # Miss THEN m
      ELSE ReadFiles(ProbeOrder(sn.v, k), k, sn.seq)

SnapshotGet(sn, k) ==
  LET m == Probe(sn.mem, k, sn.seq)
      i == IF sn.imm = NoMem THEN Miss ELSE Probe(sn.imm, k, sn.seq)
  IN  IF m # Miss THEN m ELSE IF i # Miss THEN i
      ELSE ReadFiles(ProbeOrder(sn.v, k), k, sn.seq)

GetRead(r) ==
  /\ rpc[r] = "read"
  /\ rres' = [rres EXCEPT ![r] = LET a == SnapshotGet(rsnap[r], rkey[r])
                                 IN IF a = IOError THEN IOError ELSE Answer(a)]
  /\ rpc' = [rpc EXCEPT ![r] = "idle"]
  /\ UNCHANGED <<writeVars, memVars, verVars, bgVars, rsnap, rkey>>

(***************************************************************************)
(* The background thread.  Env::Schedule runs BackgroundCompactionCall on *)
(* its one thread; background_scheduled_ keeps at most one call queued or *)
(* running.                                                                *)
(***************************************************************************)
Faults == IF IOFaults THEN BOOLEAN ELSE {TRUE}

\* Mutant: the call ends without background_cv_.SignalAll().
EndCallNoSignal(st, im, v, pc) ==
  /\ bgScheduled' = MayScheduleCompaction(FALSE, st, im, v)
  /\ wpc' = pc
  /\ bgPc' = "idle"

\* The end of BackgroundCompactionCall: clear background_scheduled_,
\* MayScheduleCompaction, background_cv_.SignalAll().
EndCall(st, im, v, pc) ==
  /\ bgScheduled' = MayScheduleCompaction(FALSE, st, im, v)
  /\ wpc' = SignalAll(pc)
  /\ bgPc' = "idle"

\* WriteLevel0SSTable up to BuildSSTable: a new file number, recorded in
\* files_writing_, then mu_ is released.
FlushBegin(pcAfter) ==
  /\ nextFile' = nextFile + 1
  /\ flushNum' = nextFile
  /\ filesWriting' = filesWriting \cup {nextFile}
  /\ bgPc' = pcAfter

BgCallError ==
  /\ bgScheduled /\ bgPc = "idle"
  /\ bgStatus # "ok"
  /\ EndCall(bgStatus, imm, current, wpc)
  /\ UNCHANGED <<queueVars, memVars, verVars, bgStatus, flushNum, comp, readVars>>

BgCallFlush ==
  /\ bgScheduled /\ bgPc = "idle"
  /\ bgStatus = "ok" /\ imm # NoMem
  /\ FlushBegin("flush")
  /\ UNCHANGED <<writeVars, memVars, vsLogNumber, current, compactPointer, disk,
                 bgStatus, bgScheduled, comp, readVars>>

(***************************************************************************)
(* The rest of WriteLevel0SSTable and CompactionMemtable, mu_ held again:  *)
(* the build result, files_writing_ cleared, the edit {add level-0 file,  *)
(* log_number = logfile_number_} through LogAndApply, imm_ dropped and the *)
(* garbage sweep run; a failure becomes the background error.  At top    *)
(* level the call then ends; nested in a compaction, SignalAll follows.   *)
(***************************************************************************)
FlushEnd ==
  /\ bgPc \in {"flush", "nflush"}
  /\ \E buildOk \in Faults, applyOk \in Faults :
       LET ok == buildOk /\ applyOk
           fw == filesWriting \ {flushNum}
           v  == IF ok THEN ApplyEdit(current, {}, {<<0, MakeFile(flushNum, imm)>>}) ELSE current
           d  == IF buildOk THEN disk \cup {flushNum} ELSE disk
           err == RecordBackgroundError(wpc)
           st == IF ok THEN bgStatus ELSE err[1]
           pc == IF ok THEN wpc ELSE err[2]
           im == IF ok THEN NoMem ELSE imm
       IN  /\ filesWriting' = fw
           /\ current' = v
           /\ vsLogNumber' = IF ok THEN logfileNumber ELSE vsLogNumber
           /\ imm' = im
           /\ bgStatus' = st
           /\ disk' = IF ok THEN GCDisk(st, d, fw, v, comp) ELSE d
           /\ logs' = IF ok THEN GCLogs(st, logs, logfileNumber) ELSE logs
           /\ IF bgPc = "flush"
              THEN EndCall(st, im, v, pc)
              ELSE /\ wpc' = SignalAll(pc) /\ bgPc' = "merge" /\ UNCHANGED bgScheduled
  /\ flushNum' = NoFile
  /\ UNCHANGED <<writers, wbatch, wsync, wdone, wstatus, ldr, writes, mem, lastSeq, curLog,
                 logfileNumber, nextFile, compactPointer, comp, readVars>>

(***************************************************************************)
(* BackgroundCompaction without imm_: PickCompaction.  It returns       *)
(* nullptr only for a seek compaction, which is not modelled: a call is   *)
(* scheduled only for imm_ or a size compaction, and only this thread     *)
(* clears them, so that branch is not reachable here.  A single move      *)
(* re-links one file one level down through LogAndApply.  Otherwise       *)
(* DoCompactionLevel builds the merged iterator over the referenced input *)
(* Version and releases mu_.  Builder::Apply stores the compaction        *)
(* pointer before the manifest write can fail.                            *)
(* PickCompaction is not entered when the best level is the last one, for *)
(* it would read files_[kNumLevels] (see the hazards).                    *)
(***************************************************************************)
BgCallMove ==
  /\ bgScheduled /\ bgPc = "idle"
  /\ UNCHANGED <<queueVars, memVars, nextFile, vsLogNumber, disk, filesWriting,
                 flushNum, comp, readVars>>
  /\ bgStatus = "ok" /\ imm = NoMem
  /\ NeedCompaction(current) /\ CompactionLevel(current) < NumLevels - 1
  /\ \E c \in {PickCompaction(current, compactPointer)} :
     LET f == CHOOSE x \in c.in0 : TRUE
     IN  /\ SingalMove(c)
         /\ compactPointer' = [compactPointer EXCEPT ![c.level] = c.pointer]
         /\ \E applyOk \in Faults :
              LET v == IF applyOk
                       THEN ApplyEdit(current, {<<c.level, f.num>>}, {<<c.level + 1, f>>})
                       ELSE current
                  err == RecordBackgroundError(wpc)
                  st == IF applyOk THEN bgStatus ELSE err[1]
              IN  /\ current' = v
                  /\ bgStatus' = st
                  /\ EndCall(st, imm, v, IF applyOk THEN wpc ELSE err[2])

BgCallCompact ==
  /\ bgScheduled /\ bgPc = "idle"
  /\ bgPc' = "merge"
  /\ UNCHANGED <<writeVars, memVars, verVars, bgStatus, bgScheduled, flushNum, readVars>>
  /\ bgStatus = "ok" /\ imm = NoMem
  /\ NeedCompaction(current) /\ CompactionLevel(current) < NumLevels - 1
  /\ \E c \in {PickCompaction(current, compactPointer)} :
         /\ ~SingalMove(c)
         /\ comp' = [level |-> c.level, in0 |-> c.in0, in1 |-> c.in1, version |-> c.version,
                     pointer |-> c.pointer, rem |-> MergedInput(c), last |-> NoKey,
                     outputs |-> {}, st |-> "ok"]

\* In the merge loop: has_imm_ is seen set, so CompactionMemtable runs first.
CompactNestedFlush ==
  /\ bgPc = "merge" /\ comp.st = "ok" /\ comp.rem # <<>>
  /\ imm # NoMem
  /\ FlushBegin("nflush")
  /\ UNCHANGED <<writeVars, memVars, vsLogNumber, current, compactPointer, disk,
                 bgStatus, bgScheduled, comp, readVars>>

(***************************************************************************)
(* The merge loop up to one output file: the entries it drops and keeps;  *)
(* on the first kept entry OpenCompactionSSTable takes a file number into *)
(* files_writing_ under mu_; FinishCompactionSSTable writes, syncs and    *)
(* closes it.  An I/O failure ends the loop with an error.               *)
(***************************************************************************)
CompactStep ==
  /\ bgPc = "merge" /\ comp.st = "ok" /\ comp.rem # <<>>
  /\ imm = NoMem
  /\ LET o == TakeOutput(comp, comp.rem, comp.last, <<>>)
     IN  IF o.kept = <<>>
         THEN /\ comp' = [comp EXCEPT !.rem = o.rem, !.last = o.last]
              /\ UNCHANGED <<nextFile, filesWriting, disk>>
         ELSE \E ok \in Faults :
                /\ nextFile' = nextFile + 1
                /\ filesWriting' = filesWriting \cup {nextFile}
                /\ disk' = disk \cup {nextFile}
                /\ comp' = [comp EXCEPT !.rem = o.rem, !.last = o.last,
                                        !.outputs = @ \cup {MakeFile(nextFile, Range(o.kept))},
                                        !.st = IF ok THEN "ok" ELSE "err"]
  /\ UNCHANGED <<writeVars, memVars, vsLogNumber, current, compactPointer, bgStatus,
                 bgScheduled, bgPc, flushNum, readVars>>

(***************************************************************************)
(* DoCompactionLevel after the loop, mu_ held: LogCompactionResult (delete *)
(* both input sets, add the outputs one level down, LogAndApply); then    *)
(* BackgroundCompaction: RecordBackgroundError on failure, CleanCompaction *)
(* (outputs leave files_writing_), ReleaseInput, GarbageFilesClean; and   *)
(* the end of the call.                                                    *)
(***************************************************************************)
CompactFinish ==
  /\ bgPc = "merge"
  /\ comp.st = "err" \/ comp.rem = <<>>
  /\ \E applyOk \in Faults :
       LET ok == comp.st = "ok" /\ applyOk
           del == {<<comp.level, f.num>> : f \in comp.in0} \cup {<<comp.level + 1, f.num>> : f \in comp.in1}
           v == IF ok THEN ApplyEdit(current, del, {<<comp.level + 1, f>> : f \in comp.outputs})
                ELSE current
           err == RecordBackgroundError(wpc)
           st == IF ok THEN bgStatus ELSE err[1]
           fw == filesWriting \ {f.num : f \in comp.outputs}
       IN  /\ current' = v
           /\ compactPointer' = IF comp.st = "ok"
                                THEN [compactPointer EXCEPT ![comp.level] = comp.pointer]
                                ELSE compactPointer
           /\ bgStatus' = st
           /\ filesWriting' = fw
           /\ disk' = GCDisk(st, disk, fw, v, NoComp)
           /\ logs' = GCLogs(st, logs, vsLogNumber)
           /\ EndCall(st, imm, v, IF ok THEN wpc ELSE err[2])
  /\ comp' = NoComp
  /\ UNCHANGED <<writers, wbatch, wsync, wdone, wstatus, ldr, writes, mem, imm, lastSeq,
                 curLog, logfileNumber, nextFile, vsLogNumber, flushNum, readVars>>

(***************************************************************************)
(* The specification.  Terminated is the idle state after the last write. *)
(***************************************************************************)
Terminated ==
  /\ writes = MaxWrites
  /\ \A w \in Writers : wpc[w] = "idle"
  /\ ~bgScheduled /\ bgPc = "idle"
  /\ UNCHANGED vars

WriterNext(t) ==
  \/ \E b \in Batches, sync \in SyncModes : BeginWrite(t, b, sync)
  \/ WriterWakes(t) \/ MakeRoomBreak(t) \/ MakeRoomWait(t)
  \/ MakeRoomRotate(t) \/ MakeRoomRotateFail(t)
  \/ WriteLog(t) \/ WriteInsert(t) \/ FinishWrite(t) \/ WriteReturn(t)

ReaderNext(r) == (\E k \in Keys : GetSnapshot(r, k)) \/ GetRead(r)

BgNext ==
  \/ BgCallError \/ BgCallFlush \/ FlushEnd \/ BgCallMove \/ BgCallCompact \/ CompactNestedFlush \/ CompactStep \/ CompactFinish

Next ==
  \/ \E t \in Writers : WriterNext(t)
  \/ \E r \in Readers : ReaderNext(r)
  \/ BgNext
  \/ Terminated

Spec == Init /\ [][Next]_vars

(***************************************************************************)
(* Properties.                                                             *)
(***************************************************************************)
Files(v) == UNION {v[l] : l \in Levels}

MemEntries == mem \cup imm

Leading == {t \in Writers : wpc[t] \in {"log", "insert", "finish"}}

TypeOK ==
  /\ writers \in Seq(Writers)
  /\ wpc \in [Writers -> {"idle", "queued", "room", "bgwait", "log", "insert", "finish", "ret"}]
  /\ wdone \in [Writers -> BOOLEAN] /\ wsync \in [Writers -> BOOLEAN]
  /\ wstatus \in [Writers -> Statuses] /\ bgStatus \in Statuses
  /\ mem \subseteq Entry(1..lastSeq + Cardinality(Writers) * MaxWrites)
  /\ lastSeq \in Nat /\ nextFile \in Nat /\ writes \in 0..MaxWrites
  /\ bgPc \in {"idle", "flush", "nflush", "merge"}
  /\ current \in [Levels -> SUBSET [num : Nat, entries : SUBSET Entry(Nat),
                                    smallest : Entry(Nat), largest : Entry(Nat)]]
  /\ disk \subseteq 1..nextFile /\ filesWriting \subseteq 1..nextFile
  /\ rpc \in [Readers -> {"idle", "read"}]

\* "only one thread can reach here once time" (dbimpl.cc:264): at most one
\* writer is between MergeBatchGroup and the pop of its group, and it is
\* the Writer at the front of writers_.
SingleLeader ==
  \A t \in Leading : Leading = {t} /\ writers # <<>> /\ Head(writers) = t

\* Every entry in mem_ or imm_ has been published by SetLastSequence,
\* except those of the group whose leader is between InsertMemTable and
\* the relock, which lie just above last_sequence_.  A reader's snapshot
\* sequence number therefore never exposes part of a group.
PublishedOrInFlight ==
  \A e \in MemEntries :
    \/ e.seq <= lastSeq
    \/ \E t \in Leading : ldr[t].first = lastSeq + 1 /\ e.seq <= ldr[t].seq

\* The WAL holds the writes in sequence order: within a log and from one
\* log to the next, each record starts after the last sequence number of
\* the record before it (spec: WAL order matches sequence order).
RecordSeq == LET nums == SortedSeq(DOMAIN logs, LAMBDA a, b : a < b)
             IN  FoldLeft(LAMBDA acc, n : acc \o logs[n], <<>>, nums)

WALInSequenceOrder ==
  LET rs == RecordSeq
  IN  \A i \in 1..(Len(rs) - 1) : rs[i].first + Len(rs[i].batch) - 1 < rs[i + 1].first

\* Every entry of mem_ and imm_ is in a WAL record of a log file that the
\* garbage sweep keeps (number >= log_number_): a crash loses no entry that
\* a reader may already have been given.
MemInLiveWAL ==
  \A e \in MemEntries :
    \E n \in DOMAIN logs :
      /\ n >= vsLogNumber
      /\ \E i \in DOMAIN logs[n] : e \in BatchEntries(logs[n][i].batch, logs[n][i].first)

\* The garbage sweep never deletes an SSTable someone may still open: the
\* files of current_, of every Version a reader or the running compaction
\* holds, and the compaction outputs already written (in files_writing_
\* until installed) are all on disk.
SSTablesOnDisk ==
  /\ FileNums(current) \subseteq disk
  /\ \A r \in Readers : rpc[r] = "read" => FileNums(rsnap[r].v) \subseteq disk
  /\ comp # NoComp => FileNums(comp.version) \cup {f.num : f \in comp.outputs} \subseteq disk

\* What DB::Get returns for each key at this instant.
DBView == [k \in Keys |-> Answer(DBGet(mem, imm, current, k, lastSeq))]

\* A flush or a compaction moves entries between memtables and levels but
\* never changes what DB::Get returns (spec: compaction never changes the
\* result of a read at the latest sequence number).
BackgroundKeepsView == [][BgNext => DBView' = DBView]_vars

(***************************************************************************)
(* Fairness: every thread that can take a step eventually does (the       *)
(* threads are OS threads; every wait is on a condition variable that is  *)
(* signalled under mu_).  A client need not call Write again, so          *)
(* BeginWrite and GetSnapshot carry no fairness.                          *)
(***************************************************************************)
WriterStep(t) == WriterNext(t) /\ wpc[t] # "idle"

\* ENABLED BgNext, written out: a call is under way, or one is scheduled and
\* it will not stop at a pick of the last level.  (TLC would otherwise
\* evaluate PickCompaction without caching to decide ENABLED.)
BgRunnable ==
  \/ bgPc # "idle"
  \/ /\ bgScheduled
     /\ \/ bgStatus # "ok" \/ imm # NoMem
        \/ NeedCompaction(current) /\ CompactionLevel(current) < NumLevels - 1

\* WF_vars(BgNext) with BgRunnable for ENABLED <<BgNext>>_vars.
BgFair == []<>~BgRunnable \/ []<><<BgNext>>_vars

FairSpec ==
  /\ Spec
  /\ \A t \in Writers : WF_vars(WriterStep(t))
  /\ \A r \in Readers : WF_vars(GetRead(r))
  /\ BgFair

\* Every call of DB::Write returns: the leader election, the waits in
\* MakeRoomForWrite for level-0 files and for imm_, and the background
\* thread's progress never leave a writer waiting forever.
WriteReturns == \A t \in Writers : wpc[t] # "idle" ~> wpc[t] = "idle"

(***************************************************************************)
(* Refinement: DBImpl implements KVStore.  The map is what Get returns at  *)
(* last_sequence_; a writer is pending until its group is published and   *)
(* applied until it returns; a reader's answer is fixed when it takes its *)
(* snapshot.                                                               *)
(***************************************************************************)
Phase(t) ==
  CASE wpc[t] = "idle" -> "idle"
    [] wpc[t] = "ret" \/ (wpc[t] = "queued" /\ wdone[t]) -> "applied"
    [] OTHER -> "pending"

KV == INSTANCE KVStore WITH
        kv <- DBView,
        wst <- [t \in Writers |->
                  [phase |-> Phase(t),
                   batch |-> IF Phase(t) = "idle" THEN <<>> ELSE wbatch[t],
                   status |-> IF Phase(t) = "pending" THEN "ok" ELSE wstatus[t]]],
        rst <- [r \in Readers |->
                  [key |-> rkey[r],
                   res |-> IF rpc[r] = "read"
                           THEN LET a == SnapshotGet(rsnap[r], rkey[r])
                                IN IF a = IOError THEN IOError ELSE Answer(a)
                           ELSE rres[r]]]

KVSpec == KV!Spec
=============================================================================
