------------------------------- MODULE Census -------------------------------
(***************************************************************************)
(* The expert census that outlives the process (SlotMgr::save_census and   *)
(* the load in SlotMgr::init_from_pool, src/engine/slotmgr.cpp): counters  *)
(* written to a temporary file that replaces the census by a rename.       *)
(*                                                                         *)
(* A file is the sequence of the counters in it; its header is written and *)
(* read with the first counter.  The process may be killed at any moment   *)
(* and then loses what stdio has buffered; the machine stays up.           *)
(***************************************************************************)
EXTENDS Integers, Sequences

CONSTANTS
  NEntries,     \* (layer, expert) counters
  MaxCount      \* bound: where the model stops counting

Entries == 1..NEntries
Whole   == [Entries -> 0..MaxCount]

Absent == <<>>          \* no file, one of another format, or no counter in it

\* Files of an earlier version carry one more row at their end.
Legacy == [1..(NEntries + 1) -> 0..MaxCount]

VARIABLES
  pc,         \* "down", "run", and the steps of save_census()
  freq,       \* freq_
  tmp,        \* contents of the temporary file
  file,       \* contents of the census file
  saved       \* the counters a completed save was asked to keep

vars == <<pc, freq, tmp, file, saved>>

Zeros == [e \in Entries |-> 0]

\* fread of the counters: a short file fills the first of them only.
Loaded(f) == [e \in Entries |-> IF e <= Len(f) THEN f[e] ELSE 0]

Init ==
  /\ pc = "down" /\ freq = Zeros
  /\ tmp = Absent
  /\ file \in {Absent} \union Legacy /\ saved = Loaded(file)

Start ==
  /\ pc = "down"
  /\ pc' = "run" /\ freq' = Loaded(file)
  /\ UNCHANGED <<tmp, file, saved>>

\* note_request().
Count(e) ==
  /\ pc = "run" /\ freq[e] < MaxCount
  /\ freq' = [freq EXCEPT ![e] = @ + 1]
  /\ UNCHANGED <<pc, tmp, file, saved>>

\* Mutant: the census itself is opened for writing.
OpenedInPlace == tmp' = Absent /\ file' = Absent

\* The file that fopen truncates, and that is still to be replaced.
Opened == tmp' = Absent /\ UNCHANGED file

SaveOpen ==
  /\ pc = "run"
  /\ pc' = "write" /\ Opened
  /\ UNCHANGED <<freq, saved>>

\* fwrite: the counters but a buffered rest reach the file.
SaveWrite ==
  /\ pc = "write"
  /\ \E n \in 0..NEntries : tmp' = SubSeq(freq, 1, n)
  /\ pc' = "close"
  /\ UNCHANGED <<freq, file, saved>>

\* fwrite comes back short: the file is removed.
SaveShort ==
  /\ pc = "write"
  /\ pc' = "run" /\ tmp' = Absent
  /\ UNCHANGED <<freq, file, saved>>

\* fclose writes the rest.
SaveClose ==
  /\ pc = "close"
  /\ pc' = "rename" /\ tmp' = freq
  /\ UNCHANGED <<freq, file, saved>>

SaveRename ==
  /\ pc = "rename"
  /\ pc' = "run"
  /\ file' = tmp /\ tmp' = Absent /\ saved' = freq
  /\ UNCHANGED freq

\* The process ends, at exit or by a signal, whatever it was doing.
Killed ==
  /\ pc # "down"
  /\ pc' = "down" /\ freq' = Zeros
  /\ UNCHANGED <<tmp, file, saved>>

Next ==
  \/ Start \/ Killed
  \/ \E e \in Entries : Count(e)
  \/ SaveOpen \/ SaveWrite \/ SaveShort \/ SaveClose \/ SaveRename

Spec == Init /\ [][Next]_vars

-----------------------------------------------------------------------------
(* Properties.                                                             *)

\* Type invariant.
TypeOK ==
  /\ pc \in {"down", "run", "write", "close", "rename"}
  /\ freq \in Whole /\ saved \in Whole
  /\ tmp \in Seq(0..MaxCount) /\ file \in Seq(0..MaxCount)

\* README.md:127 "Persistent expert ranking (.helios.census) that survives
\* restarts": whenever the process is killed, it starts again from exactly the
\* counters of its last completed save.
SurvivesRestarts ==
  [][pc = "down" /\ pc' = "run" => freq' = saved]_vars

-----------------------------------------------------------------------------
(* A file system that runs out of space: what stdio has buffered is written  *)
(* by fclose, whose result save_census() does not look at.                  *)

SaveCloseFails ==
  /\ pc = "close"
  /\ pc' = "rename"
  /\ UNCHANGED <<freq, tmp, file, saved>>

DiskFullSpec == Init /\ [][Next \/ SaveCloseFails]_vars
=============================================================================
