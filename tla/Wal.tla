--------------------------------- MODULE Wal ---------------------------------
(***************************************************************************)
(* The write-ahead log file of tinydb/wal.py as a value, and replay as a   *)
(* function of it.  A log is a sequence of cells.  A TX_COMMIT or          *)
(* TX_ROLLBACK frame has no images and fills one cell; a MUTATE frame is   *)
(* longer and fills MutateCells of them.  Frames are found only by walking *)
(* the lengths from the start of the file, so a frame written over part of *)
(* a longer one leaves cells behind that no frame starts at.               *)
(***************************************************************************)
EXTENDS Integers, Sequences, SequencesExt

MutateCells == 2

Width(rec) == IF rec.kind = "MUTATE" THEN MutateCells ELSE 1

Mutation(tx, pg, before, after) ==
    [kind |-> "MUTATE", tx |-> tx, pg |-> pg, before |-> before, after |-> after]

Control(kind, tx) ==
    [kind |-> kind, tx |-> tx, pg |-> 0, before |-> 0, after |-> 0]

\* encode_record followed by os.write at offset pos: overwrite, then extend.
WriteFrame(log, pos, rec) ==
    LET w == Width(rec)
        end == IF pos + w > Len(log) THEN pos + w ELSE Len(log)
    IN  [i \in 1..end |-> IF i \in (pos + 1)..(pos + w)
                            THEN [rec |-> rec, part |-> i - pos]
                            ELSE log[i]]

\* The cells from i on are all the parts of one frame, in order: magic, length
\* and both checksums agree.
FrameAt(log, i) ==
    LET rec == log[i].rec IN
      /\ i + Width(rec) - 1 <= Len(log)
      /\ \A k \in 1..Width(rec) : log[i + k - 1] = [rec |-> rec, part |-> k]

Corrupt == [kind |-> "CORRUPT"]

\* The scan loop of iter_records and replay_wal; decode_record raises
\* TransactionLogCorrupt at the first place where no frame starts.
Records(log) ==
    LET scan[i \in 1..(Len(log) + MutateCells)] ==
          IF i > Len(log) THEN <<>>
          ELSE IF ~FrameAt(log, i) THEN <<Corrupt>>
          ELSE <<log[i].rec>> \o scan[i + Width(log[i].rec)]
    IN  scan[1]

Readable(log) == \A i \in DOMAIN Records(log) : Records(log)[i] # Corrupt

\* Mutant of Replay: redo only, mutations without a commit are left alone.
ReplayRedoOnly(log, page) ==
    LET recs == Records(log)
        committed == {recs[i].tx : i \in {j \in DOMAIN recs : recs[j].kind = "TX_COMMIT"}}
        apply(pg, rec) ==
            IF rec.kind = "MUTATE" /\ rec.tx \in committed
              THEN [pg EXCEPT ![rec.pg] = rec.after] ELSE pg
    IN  FoldLeft(apply, page, recs)

\* replay_wal: the set of committed ids first, then one forward pass that
\* redoes the mutations of committed transactions and undoes the others.
Replay(log, page) ==
    LET recs == Records(log)
        committed == {recs[i].tx : i \in {j \in DOMAIN recs : recs[j].kind = "TX_COMMIT"}}
        apply(pg, rec) ==
            IF rec.kind # "MUTATE" THEN pg
            ELSE [pg EXCEPT ![rec.pg] = IF rec.tx \in committed THEN rec.after ELSE rec.before]
    IN  FoldLeft(apply, page, recs)
==============================================================================
