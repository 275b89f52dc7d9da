----------------------------- MODULE OpeningBook -----------------------------
(***************************************************************************)
(* The book the engine probes (src/book/opening_book.cc, ybb_format.h): an *)
(* index sorted by position, whose records point into the area of the      *)
(* moves.  Nothing of it is read on loading but the first and the last     *)
(* record; a probe searches the file by halves.  Offsets and sizes count   *)
(* move records.                                                           *)
(***************************************************************************)
EXTENDS Integers, Sequences, SequencesExt

(* A move record: the move, its value, the position it leads to, and       *)
(* whether it is legal, illegal or no move at all ("garbage").             *)
Record(move, eval, to, kind) == [move |-> move, eval |-> eval, to |-> to, kind |-> kind]
IndexEntry(key, off, count) == [key |-> key, off |-> off, count |-> count]

\* Load, ValidateFile
Loads(file) ==
    LET n == Len(file.index)
        area == Len(file.moves)
    IN  IF n = 0 THEN area = 0
        ELSE /\ file.index[1].off = 0
             /\ file.index[n].off <= area
             /\ file.index[n].count <= area - file.index[n].off

\* ReadMove; NoMove where the record would lie outside of the area.
NoMove == Record(0, 0, 0, "garbage")
HasMove(file, entry, i) == i \in 1..entry.count /\ entry.off + i <= Len(file.moves)
ReadMove(file, entry, i) == file.moves[entry.off + i]

(* The binary search of Probe, on the records from left to right - 1       *)
(* (counted from 0): the record's number, 0 when there is none.            *)
Middle(left, right) == left + (right - left) \div 2
Ranges(file) == (0..Len(file.index)) \X (0..Len(file.index))

\* Mutant: the record in the middle stays out of the lower half and of the upper.
FindBetween(file, key) ==
    LET find[range \in Ranges(file) \cup {<<0, -1>>}] ==
            LET left == range[1]
                right == range[2]
                middle == Middle(left, right)
                here == file.index[middle + 1].key
            IN  IF left >= right THEN 0
                ELSE IF key = here THEN middle + 1
                ELSE IF key < here THEN find[<<left, middle - 1>>] ELSE find[<<middle + 1, right>>]
    IN  find[<<0, Len(file.index)>>]

Find(file, key) ==
    LET find[range \in Ranges(file)] ==
            LET left == range[1]
                right == range[2]
                middle == Middle(left, right)
                here == file.index[middle + 1].key
            IN  IF left >= right THEN 0
                ELSE IF key = here THEN middle + 1
                ELSE IF key < here THEN find[<<left, middle>>] ELSE find[<<middle + 1, right>>]
    IN  find[<<0, Len(file.index)>>]

(* The legal move with the highest value, the first of equals.             *)
Probe(file, key) ==
    LET at == Find(file, key)
        entry == file.index[at]
        Moves == [i \in 1..entry.count |-> ReadMove(file, entry, i)]
        legal == {i \in 1..entry.count : Moves[i].kind = "legal"}
        best == CHOOSE i \in legal : \A j \in legal :
                    Moves[j].eval < Moves[i].eval \/ (Moves[j].eval = Moves[i].eval /\ i <= j)
    IN  IF at = 0 THEN NoMove
        ELSE IF \E i \in 1..entry.count : ~HasMove(file, entry, i) THEN NoMove
        ELSE IF legal = {} THEN NoMove ELSE Moves[best]

(* The reference: whether every record is where a reader of the whole file *)
(* expects it.                                                             *)
StrictlySorted(file) == \A i, j \in DOMAIN file.index : i < j => file.index[i].key < file.index[j].key
=============================================================================
