------------------------------ MODULE LogFormat ------------------------------
(***************************************************************************)
(* The write-ahead log format of src/lsmkv/db/log: log::Writer::AddRecord  *)
(* splitting a record into fragments that never cross a block, and        *)
(* log::Reader::ReadRecord reassembling them, block by block, as DBImpl's  *)
(* RecoverLogFile and VersionSet::Recover read a WAL or a manifest.        *)
(*                                                                         *)
(* A file is a sequence of bytes.  A byte is abstracted to what the reader *)
(* can tell apart: a zero of the block trailer, a payload byte <<r, i>>   *)
(* (byte i of record r), or byte `part` of a fragment header.  Every byte  *)
(* of a header carries the header's fields, so a header is read intact    *)
(* only when all HeadSize of its bytes are where the writer put them.  The *)
(* masked CRC32C is abstracted to the exact <<type, payload>> it covers:  *)
(* a fragment passes the check iff its type and payload are the ones it    *)
(* was written with (a CRC collision is not modelled).  kBlockSize and     *)
(* KLogHeadSize are the constants BlockSize and HeadSize, scaled down so  *)
(* that small records cross blocks and leave short trailers.               *)
(***************************************************************************)
EXTENDS Naturals, Sequences, FiniteSets

CONSTANTS
  BlockSize,   \* kBlockSize (32768 in log_format.h)
  HeadSize     \* KLogHeadSize: crc32 | length16 | type8 (7 in log_format.h)

ASSUME HeadSize \in Nat \ {0} /\ BlockSize > HeadSize

\* LogRecodeType (log_format.h) and the reader's extra results (log_reader.h).
KFullType   == 1
KFirstType  == 2
KMiddleType == 3
KLastType   == 4
KEof        == 5   \* KMaxType + 1
KBadRecord  == 6   \* KMaxType + 2

Zero == [kind |-> "zero"]
Data(r, i) == [kind |-> "data", rec |-> r, idx |-> i]

\* The payload of record r, n bytes long.
Payload(r, n) == [i \in 1..n |-> Data(r, i)]

\* The HeadSize header bytes of a fragment of type t carrying frag.
Header(t, frag) ==
  [i \in 1..HeadSize |->
     [kind |-> "hdr", part |-> i, type |-> t, len |-> Len(frag),
      crc |-> <<t, frag>>]]

MinOf(a, b) == IF a < b THEN a ELSE b

---------------------------------------------------------------------------
(* log::Writer (log_writer.cc).  The writer is [file, off, ok]: the bytes  *)
(* that reached the file, block_offset_, and AddRecord's status.           *)

\* Lines 36-42: fewer than HeadSize bytes left in the block are zero-filled
\* and the fragment starts the next block.
PadLen(off) == IF BlockSize - off < HeadSize THEN BlockSize - off ELSE 0
StartOff(off) == IF BlockSize - off < HeadSize THEN 0 ELSE off

\* Mutant: the fragment ignores the header it is written behind.
FragLenNoHeader(off, remain) == MinOf(remain, BlockSize - StartOff(off))

\* Lines 43-44: the fragment takes what is left of the block.
FragLen(off, remain) == MinOf(remain, BlockSize - StartOff(off) - HeadSize)

\* Lines 47-56.
FragType(begin, end) ==
  CASE begin /\ end -> KFullType
    [] begin        -> KFirstType
    [] end          -> KLastType
    [] OTHER        -> KMiddleType

\* What one Flush hands to write(2): the trailer zeros Append buffered, the
\* header and the payload (lines 39-40 and 73-79).  The buffer (64 KiB)
\* never fills between two Flushes, so Append itself never writes.
FlushBytes(off, t, frag) ==
  [i \in 1..PadLen(off) |-> Zero] \o Header(t, frag) \o frag

\* WritePhysicalRecord, lines 64-84: a failed Flush has written only the
\* first `keep` bytes (WriteUnbuffer stops at the failing write(2), and
\* Flush drops the rest of its buffer); block_offset_ advances by the whole
\* fragment whatever the status.
WritePhysicalRecord(w, t, frag, keep) ==
  [file |-> w.file \o SubSeq(FlushBytes(w.off, t, frag), 1, keep),
   off  |-> StartOff(w.off) + HeadSize + Len(frag),
   ok   |-> keep = Len(FlushBytes(w.off, t, frag))]

\* The n bytes of a Flush, or the first fail.keep of them when `fail`
\* names fragment j.
Keep(n, j, fail) == IF fail.at = j THEN MinOf(fail.keep, n) ELSE n

\* The next fragment of `rest` and its type.
Frag(w, rest) == SubSeq(rest, 1, FragLen(w.off, Len(rest)))
TypeOf(w, rest, begin) == FragType(begin, FragLen(w.off, Len(rest)) = Len(rest))

\* Lines 45-59: one turn of AddRecord's loop, writing fragment j.
EmitFragment(w, rest, begin, j, fail) ==
  WritePhysicalRecord(w, TypeOf(w, rest, begin), Frag(w, rest),
    Keep(Len(FlushBytes(w.off, TypeOf(w, rest, begin), Frag(w, rest))),
         j, fail))

\* The do-while loop of AddRecord, lines 33-61, from fragment j on: it
\* goes on while the status is ok and bytes remain.
RECURSIVE Fragments(_, _, _, _, _)
Continue(w, rest, j, fail) ==
  IF ~w.ok \/ rest = <<>> THEN w ELSE Fragments(w, rest, FALSE, j + 1, fail)
Fragments(w, rest, begin, j, fail) ==
  Continue(EmitFragment(w, rest, begin, j, fail),
           SubSeq(rest, FragLen(w.off, Len(rest)) + 1, Len(rest)), j, fail)

NoFail == [rec |-> 0, at |-> 0, keep |-> 0]

\* AddRecord(sv): `fail` names the fragment whose Flush fails, if any.
AddRecord(w, rec, fail) == Fragments(w, rec, TRUE, 1, fail)


\* DBImpl::Write (dbimpl.cc lines 262-279) hands each group's batch to
\* AddRecord.  A failed AddRecord goes back to the writers (the batch is
\* not inserted into the memtable), but it neither records a background
\* error nor replaces log_: the next group appends to the same writer, with
\* the block_offset_ it advanced.  The log is [w, acked, ends]: the writer,
\* the records acknowledged with ok, and the file length after each record.
NewLog == [w |-> [file |-> <<>>, off |-> 0, ok |-> TRUE],
           acked |-> <<>>, ends |-> <<>>]

Acknowledge(log, w, i) ==
  [w     |-> w,
   acked |-> IF w.ok THEN Append(log.acked, i) ELSE log.acked,
   ends  |-> Append(log.ends, Len(w.file))]

\* Records 1..Len(lens) appended in order, record i lens[i] bytes long;
\* `fail` names the record (fail.rec) whose AddRecord meets a failed Flush.
RECURSIVE WriteLog(_, _, _, _)
WriteLog(log, lens, i, fail) ==
  IF i > Len(lens) THEN log
  ELSE WriteLog(Acknowledge(log,
                  AddRecord(log.w, Payload(i, lens[i]),
                            IF fail.rec = i THEN fail ELSE NoFail), i),
                lens, i + 1, fail)

---------------------------------------------------------------------------
(* log::Reader (log_reader.cc).  The reader is [buf, next, eof]: buffer_,  *)
(* the next block Read returns, and eof_.  The checksum is on (both        *)
(* callers pass true) and initial_offset_ is 0: since buffer_end_offset_   *)
(* is never advanced, the unsigned test of line 103 is never true.         *)

ReadBlock(file, b) ==
  SubSeq(file, (b - 1) * BlockSize + 1, MinOf(b * BlockSize, Len(file)))

\* All HeadSize bytes at the front of buf are one header, in order.
IntactHeader(buf) ==
  /\ buf[1].kind = "hdr"
  /\ \A i \in 1..HeadSize : buf[i] = [buf[1] EXCEPT !.part = i]

FragOf(buf) == SubSeq(buf, HeadSize + 1, HeadSize + buf[1].len)

Result(buf, next, eof, type, frag) ==
  [rd |-> [buf |-> buf, next |-> next, eof |-> eof], type |-> type,
   frag |-> frag]

\* ReadPhysicalRecord, lines 60-109.  Bytes that are not an intact header
\* are read as a header with some length and type: either the length
\* overruns the buffer or the CRC fails, and both drop the buffer; at the
\* end of the file the first gives KEof and the second KBadRecord, after
\* which the next call gives KEof, so ReadRecord returns false either way.
RECURSIVE ReadPhysicalRecord(_, _)
ReadPhysicalRecord(file, rd) ==
  IF Len(rd.buf) < HeadSize
  THEN IF rd.eof THEN Result(<<>>, rd.next, TRUE, KEof, <<>>)
       ELSE ReadPhysicalRecord(file,
              [buf  |-> ReadBlock(file, rd.next),
               next |-> rd.next + 1,
               eof  |-> Len(ReadBlock(file, rd.next)) < BlockSize])
  ELSE IF ~IntactHeader(rd.buf)
  THEN Result(<<>>, rd.next, rd.eof, KBadRecord, <<>>)
  ELSE IF HeadSize + rd.buf[1].len > Len(rd.buf)
  THEN Result(<<>>, rd.next, rd.eof,
              IF rd.eof THEN KEof ELSE KBadRecord, <<>>)
  ELSE IF rd.buf[1].crc # <<rd.buf[1].type, FragOf(rd.buf)>>
  THEN Result(<<>>, rd.next, rd.eof, KBadRecord, <<>>)
  ELSE Result(SubSeq(rd.buf, HeadSize + rd.buf[1].len + 1, Len(rd.buf)),
              rd.next, rd.eof, rd.buf[1].type, FragOf(rd.buf))

\* One turn of ReadRecord's loop (lines 29-56) on the fragment p: return
\* a record, return false, or go on with the scratch buffer.
RECURSIVE ReadFrom(_, _, _)
Dispatch(file, p, scratch) ==
  CASE p.type = KFullType   -> [rd |-> p.rd, ok |-> TRUE, rec |-> p.frag]
    [] p.type = KFirstType  -> ReadFrom(file, p.rd, p.frag)
    [] p.type = KMiddleType -> ReadFrom(file, p.rd, scratch \o p.frag)
    [] p.type = KLastType   -> [rd |-> p.rd, ok |-> TRUE,
                                rec |-> scratch \o p.frag]
    [] p.type = KBadRecord  -> ReadFrom(file, p.rd, scratch)
    [] p.type = KEof        -> [rd |-> p.rd, ok |-> FALSE, rec |-> <<>>]

\* ReadRecord: the scratch buffer is cleared on entry (line 23).
ReadFrom(file, rd, scratch) == Dispatch(file, ReadPhysicalRecord(file, rd), scratch)
ReadRecord(file, rd) == ReadFrom(file, rd, <<>>)

\* `while (reader.ReadRecord(&record, &buffer))` of RecoverLogFile: the
\* records a recovery replays, in order.
RECURSIVE ReadAll(_, _)
Collect(file, r) == IF r.ok THEN <<r.rec>> \o ReadAll(file, r.rd) ELSE <<>>
ReadAll(file, rd) == Collect(file, ReadRecord(file, rd))

Recover(file) == ReadAll(file, [buf |-> <<>>, next |-> 1, eof |-> FALSE])

=============================================================================
