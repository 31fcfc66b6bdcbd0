------------------------------ MODULE PathPicker ------------------------------
(***************************************************************************)
(* The path picker (src/src/parent/overlay/path_picker_overlay.cc and      *)
(* path_picker_process.cc): an fzf child that shows a list, tells through  *)
(* its terminal which entry it highlights, and prints the index it chose.  *)
(*                                                                         *)
(* What fzf writes is a sequence of pieces.  A notification is the two     *)
(* halves of its prefix, the index and the terminator, so that a read can  *)
(* end inside the prefix, inside the value or between them; a piece of     *)
(* screen output is "screen".                                              *)
(***************************************************************************)
EXTENDS Integers, Sequences, FiniteSetsExt

Piece(part, index) == [part |-> part, index |-> index]
Screen == Piece("screen", 0)
Notification(i) == <<Piece("prefix", 0), Piece("focus", 0), Piece("value", i), Piece("end", 0)>>

\* process: "null" (no picker), "running", "chose" (exit status 0 with the index
\* of the entry at focus), "failed" (aborted, or fzf could not be run).
NoPicker == [process |-> "null", listed |-> <<>>, focus |-> 0, output |-> <<>>,
             pending |-> <<>>, highlighted |-> 0]

Started(entries) == [NoPicker EXCEPT !.process = "running", !.listed = entries]

-----------------------------------------------------------------------------
(* fzf *)

Writes(picker, pieces, max) ==
  /\ picker.process = "running"
  /\ Len(picker.output) + Len(pieces) <= max

\* The highlight moves to entry i, and the focus binding reports it.
Focused(picker, i) ==
  [picker EXCEPT !.focus = i, !.output = @ \o Notification(i)]

Drawn(picker) == [picker EXCEPT !.output = Append(@, Screen)]

Exited(picker, how) == [picker EXCEPT !.process = how]

-----------------------------------------------------------------------------
(* The parent's side *)

Opens(pieces, k) ==
  /\ k + 1 \in DOMAIN pieces
  /\ pieces[k].part = "prefix"
  /\ pieces[k + 1].part = "focus"

\* The terminators that end a notification whose prefix came before them.
Ends(pieces) ==
  {k \in DOMAIN pieces : pieces[k].part = "end" /\ \E j \in 1 .. k : Opens(pieces, j)}

\* The part of the prefix that a read can end in, when no prefix is whole.
Retained(pieces) == IF pieces = <<>> THEN <<>> ELSE <<pieces[Len(pieces)]>>

\* Mutant of Kept: without a whole prefix nothing is kept.
Kept_WholePrefixOnly(pieces) ==
  LET starts == {k \in DOMAIN pieces : Opens(pieces, k)} IN
  IF starts = {} THEN <<>> ELSE SubSeq(pieces, Min(starts), Len(pieces))

\* The bytes after the last whole notification that the next read may complete.
Kept(pieces) ==
  LET starts == {k \in DOMAIN pieces : Opens(pieces, k)} IN
  IF starts = {} THEN Retained(pieces) ELSE SubSeq(pieces, Min(starts), Len(pieces))

\* ingest_focus_notifications: the last whole notification decides, when its
\* index is one of the list's.
Ingested(picker, pieces) ==
  LET bytes == picker.pending \o pieces
      ends == Ends(bytes)
      done == IF ends = {} THEN 0 ELSE Max(ends)
      heard == {k \in 1 .. done : bytes[k].part = "value" /\ bytes[k].index < Len(picker.listed)}
  IN  [picker EXCEPT
         !.pending = Kept(SubSeq(bytes, done + 1, Len(bytes))),
         !.highlighted = IF heard = {} THEN @ ELSE bytes[Max(heard)].index]

\* read_process_output, which returns the first n pieces.
Read(picker, n) ==
  [Ingested(picker, SubSeq(picker.output, 1, n)) EXCEPT
     !.output = SubSeq(@, n + 1, Len(@))]

\* read_selection leaves no selection when the process failed or the index is
\* outside the list.
Selects(picker) == picker.process = "chose" /\ picker.focus < Len(picker.listed)
Finished(picker) == picker.process \in {"chose", "failed"}

=============================================================================
