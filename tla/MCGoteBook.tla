------------------------------ MODULE MCGoteBook ------------------------------
(***************************************************************************)
(* Source books of up to four positions: Gote moves in the even ones, and  *)
(* the positions 7 to 9 are outside.                                       *)
(***************************************************************************)
EXTENDS GoteBook

(* A book in which position p has the moves lists[p], as pairs of the      *)
(* position a move leads to and its value.                                 *)
Offset(lists, p) == FoldSet(LAMBDA q, sum : sum + Len(lists[q]), 0, 1..(p - 1))
Book(lists) ==
    [index |-> [p \in DOMAIN lists |-> IndexEntry(p, Offset(lists, p), Len(lists[p]))],
     moves |-> FlattenSeq([p \in DOMAIN lists |->
                  [i \in DOMAIN lists[p] |-> Record(i, lists[p][i][2], lists[p][i][1], "legal")]])]
Marked(file, m, kind) == [file EXCEPT !.moves[m].kind = kind]

EmptyDisk == [output |-> Nothing, backup |-> [s \in BackupNames |-> Nothing], temporary |-> Nothing, kept |-> {}]
OldDisk == [EmptyDisk EXCEPT !.output = Other("old"), !.backup[0] = Other("older")]
StaleDisk == [EmptyDisk EXCEPT !.temporary = Part]

Plain == [margin |-> 30, maxPositions |-> 0, validate |-> FALSE, force |-> FALSE]
Task(b, o, d) == [book |-> b, gote |-> {2, 4}, bad |-> {}, options |-> o, disk |-> d]

(* Sente in 1 and 3, Gote in 2 and 4: cycles, exits, dead ends.            *)
OfSente == {<< <<2, 0>> >>, << <<2, 0>>, <<4, 0>> >>, << <<4, 0>>, <<9, 0>> >>}
OfGote == {<< <<1, 50>>, <<3, 30>> >>, << <<3, 50>>, <<9, 30>> >>, << <<3, 50>>, <<8, 10>> >>, << <<1, 40>>, <<3, 40>>, <<9, 0>> >>}
Graphs == {Book(<<s1, g1, s3, g4>>) : s1 \in OfSente, g1 \in OfGote, s3 \in OfSente \cup {<<>>, << <<9, 0>> >>},
                                      g4 \in OfGote \cup {<<>>}}

Example == Book(<< << <<2, 0>>, <<4, 0>> >>, << <<3, 50>>, <<1, 45>>, <<3, 40>> >>, << <<4, 0>>, <<9, 0>> >>,
                   << <<1, 30>>, <<9, 0>>, <<8, 0>> >> >>)
Unsorted == [Example EXCEPT !.index[2].key = 5]
Truncated == [Example EXCEPT !.moves = Front(@)]
Overlapping == [Example EXCEPT !.index[3].off = 4]

MCTasks ==
    {Task(b, Plain, EmptyDisk) : b \in Graphs}
        \cup {Task(Example, [Plain EXCEPT !.force = f, !.margin = m, !.maxPositions = n], d) :
                f \in BOOLEAN, m \in {0, 30}, n \in {0, 2}, d \in {EmptyDisk, OldDisk, StaleDisk}}
        \cup {Task(b, Plain, EmptyDisk) : b \in {Book(<<>>), Book(<< <<>> >>), Unsorted, Truncated, Overlapping}}
        \cup {Task(Marked(Marked(Example, 1, "garbage"), m, k), [Plain EXCEPT !.validate = k = "illegal"], OldDisk) :
                m \in {3, 4}, k \in {"garbage", "illegal"}}
        \cup {Task(Marked(Example, 5, "illegal"), [Plain EXCEPT !.validate = TRUE], EmptyDisk),
              [Task(Example, Plain, EmptyDisk) EXCEPT !.bad = {3}]}
        \cup {Task(Book([p \in 1..5 |-> << >>]), Plain, EmptyDisk)}
=============================================================================
